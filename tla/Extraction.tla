------------------------------ MODULE Extraction ------------------------------
(***************************************************************************)
(* extract_to_zip() of qnxprobe.py writing one volume's files into a zip,   *)
(* over the two walkers whose read_file() pads a short block with zeros:    *)
(* Qnx6Walker, which reads the image for every block, and F2fsWalker, which *)
(* keeps the first CacheMax blocks it read.  The image may be cut at any    *)
(* byte and may hold blocks whose read raises OSError.                      *)
(*                                                                         *)
(* The contents of blocks are abstracted to where they come from: a chunk   *)
(* of the spool says how many of its bytes are the file's own and how many  *)
(* the walker made up.  Layout is the volume as it was written, whole; what *)
(* the image lost of it is len and bad.                                     *)
(***************************************************************************)
EXTENDS Numbers, Sequences

CONSTANTS
    BS,         \* bytes in a filesystem block
    Blocks,     \* the block numbers of the volume
    Hole,       \* the address of a block that was never written
    Nodes,      \* inode numbers
    Layout,     \* [Nodes -> [regular, inode, upto, size, blocks]], see LayoutOK
    Listing,    \* the nodes the directories name, in the order collect() meets them
    Kinds,      \* the walkers to start with, a subset of {"qnx6", "f2fs"}
    CacheMax,   \* F2fsWalker stops caching at this many blocks (4096 in the code)
    MaxBad      \* bound: unreadable blocks in an image

(* A regular node has its inode in the first upto bytes of block inode, and *)
(* one map entry per block of its size: the pointer blocks on the way, and  *)
(* the data block they lead to (or Hole).                                   *)
MapEntry == [ptrs : Seq(Blocks), data : Blocks \cup {Hole}]

LayoutOK ==
    /\ BS \in Nat \ {0}
    /\ Blocks \subseteq Nat
    /\ Hole \notin Blocks
    /\ Layout \in [Nodes -> [regular : BOOLEAN, inode : Blocks, upto : 1..BS,
                             size : Nat, blocks : Seq(MapEntry)]]
    /\ \A n \in Nodes : \A j \in 0..Layout[n].size :
          j < Len(Layout[n].blocks) <=> j * BS < Layout[n].size
    /\ Listing \in Seq(Nodes)
    /\ Kinds \subseteq {"qnx6", "f2fs"}
    /\ CacheMax \in Nat
    /\ MaxBad \in Nat

ASSUME ExtractionAssumption == LayoutOK

VARIABLES
    kind,       \* which walker reads the volume
    len,        \* bytes of the volume the image holds
    bad,        \* blocks whose read raises OSError
    entries,    \* what collect() returned: the nodes of the listed files
    k,          \* the name collect(), then the entry extract_to_zip() is at
    pc,         \* "collect", "entry", "map", "store", "report", "done"
    tally,      \* EOF_SHORTFALL["bytes"]
    before,     \* its value when the file was opened
    cached,     \* the blocks in F2fsWalker._cache
    depth,      \* the pointer block _map() reads next, for the chunk being read
    spool,      \* the chunks read_file() yielded so far
    zip,        \* the members of the zip, in the order written
    outcome,    \* what became of each entry so far
    counts,     \* the tally extract_to_zip() returns
    last        \* the last progress line the consumer saw

image == <<kind, len, bad>>
listed == <<kind, len, bad, entries>>
vars == <<kind, len, bad, entries, k, pc, tally, before, cached, depth, spool,
          zip, outcome, counts, last>>

Least(a, b) == IF a < b THEN a ELSE b

(***************************************************************************)
(* read_at(): what one read of a block gives, and what it adds to the tally *)
(***************************************************************************)
Here(b) == IF len <= b * BS THEN 0 ELSE Least(len - b * BS, BS)

Got(b) == IF b \in bad THEN 0 ELSE Here(b)

(* Mutant: an empty answer, all of it past the end, is not tallied.         *)
ShortfallOfSome(b) == IF b \in bad \/ Here(b) = 0 THEN 0 ELSE BS - Here(b)

Shortfall(b) == IF b \in bad THEN 0 ELSE BS - Here(b)

(* Qnx6Walker._blk() reads every time; F2fsWalker.block() answers from its  *)
(* cache, a short block too, and then read_at() is not asked.               *)
Fetch(b) ==
    IF kind = "f2fs" /\ b \in cached
    THEN UNCHANGED <<tally, cached>>
    ELSE /\ tally' = tally + Shortfall(b)
         /\ cached' = IF kind = "f2fs" /\ Cardinality(cached) < CacheMax
                      THEN cached \cup {b} ELSE cached

(***************************************************************************)
(* The file being read                                                     *)
(***************************************************************************)
Node == entries[k]
Size == Layout[Node].size
Chunk == Layout[Node].blocks[Len(spool) + 1]
Take == Least(BS, Size - Len(spool) * BS)
Left(read) == read * BS < Size    \* some of the file is left after read blocks

(* entry() answers: F2fsWalker._node() wants the inode's whole block,       *)
(* Qnx6Walker.inode() the bytes it lies in.                                 *)
Listed(n) == Got(Layout[n].inode) >= (IF kind = "f2fs" THEN BS ELSE Layout[n].upto)

Init ==
    /\ kind \in Kinds
    /\ len \in 0..(BS * Cardinality(Blocks))
    /\ bad \in {B \in SUBSET Blocks : Cardinality(B) <= MaxBad}
    /\ entries = << >>
    /\ k = 1
    /\ pc = "collect"
    /\ tally = 0
    /\ before = 0
    /\ cached = {}
    /\ depth = 1
    /\ spool = << >>
    /\ zip = << >>
    /\ outcome = << >>
    /\ counts = [files |-> 0, written |-> 0, skipped |-> 0, failed |-> 0, short |-> 0]
    /\ last = << >>

(* collect() asks entry() of the next name the directories hold, and lists  *)
(* it when its inode reads.                                                 *)
Collect ==
    /\ pc = "collect" /\ k <= Len(Listing)
    /\ Fetch(Layout[Listing[k]].inode)
    /\ entries' = IF Listed(Listing[k]) THEN Append(entries, Listing[k]) ELSE entries
    /\ k' = k + 1
    /\ UNCHANGED <<image, pc, before, depth, spool, zip, outcome, counts, last>>

(* extract_to_zip() is called with the list, now whole.                     *)
Begin ==
    /\ pc = "collect" /\ k > Len(Listing)
    /\ k' = 1
    /\ pc' = "entry"
    /\ UNCHANGED <<listed, tally, before, cached, depth, spool, zip, outcome,
                   counts, last>>

Counted(what) == [counts EXCEPT ![what] = @ + 1]

(* An entry with no size, a symlink or a special file, is passed over       *)
(* before the progress call: the consumer hears nothing of it.              *)
Skip ==
    /\ pc = "entry" /\ k <= Len(entries)
    /\ ~Layout[Node].regular
    /\ counts' = Counted("skipped")
    /\ outcome' = Append(outcome, "skipped")
    /\ k' = k + 1
    /\ UNCHANGED <<listed, pc, tally, before, cached, depth, spool, zip, last>>

(* before is taken, then read_file() reads the inode.                       *)
Open ==
    /\ pc = "entry" /\ k <= Len(entries)
    /\ Layout[Node].regular
    /\ before' = tally
    /\ Fetch(Layout[Node].inode)
    /\ spool' = << >>
    /\ depth' = 1
    /\ pc' = IF Left(0) THEN "map" ELSE "store"
    /\ UNCHANGED <<listed, k, zip, outcome, counts, last>>

(* read_file() yields the next chunk: real of its take bytes are the file's *)
(* own, the rest is padding.                                                *)
Yield(real) ==
    /\ spool' = Append(spool, [take |-> Take, real |-> real])
    /\ depth' = 1
    /\ pc' = IF Left(Len(spool) + 1) THEN "map" ELSE "store"

(* Mutant: the pointer block is read past read_at(), untallied.             *)
FollowUntallied ==
    /\ pc = "map" /\ depth <= Len(Chunk.ptrs)
    /\ IF Got(Chunk.ptrs[depth]) < BS
       THEN Yield(0)
       ELSE /\ depth' = depth + 1
            /\ UNCHANGED <<spool, pc>>
    /\ UNCHANGED <<listed, k, tally, before, cached, zip, outcome, counts, last>>

(* _map() reads one pointer block.  A short one maps the chunk to nothing,  *)
(* and read_file() yields zeros for it as it does for a hole.               *)
FollowPointer ==
    /\ pc = "map" /\ depth <= Len(Chunk.ptrs)
    /\ Fetch(Chunk.ptrs[depth])
    /\ IF Got(Chunk.ptrs[depth]) < BS
       THEN Yield(0)
       ELSE /\ depth' = depth + 1
            /\ UNCHANGED <<spool, pc>>
    /\ UNCHANGED <<listed, k, before, zip, outcome, counts, last>>

(* A hole is zeros, the file's own.  Qnx6Walker._map() looks for the unused *)
(* pointer 0xFFFFFFFF in the pointer blocks only: where the inode itself    *)
(* holds it, the block of that number is read, past the end of any image.   *)
YieldHole ==
    /\ pc = "map" /\ depth > Len(Chunk.ptrs)
    /\ Chunk.data = Hole
    /\ tally' = IF kind = "qnx6" /\ Chunk.ptrs = << >> THEN tally + BS ELSE tally
    /\ Yield(Take)
    /\ UNCHANGED <<listed, k, before, cached, zip, outcome, counts, last>>

ReadData ==
    /\ pc = "map" /\ depth > Len(Chunk.ptrs)
    /\ Chunk.data # Hole
    /\ Fetch(Chunk.data)
    /\ Yield(Least(Got(Chunk.data), Take))
    /\ UNCHANGED <<listed, k, before, zip, outcome, counts, last>>

Member(says, chunks) ==
    [entry |-> k, form |-> IF says < Size THEN "short" ELSE "whole",
     says |-> says, chunks |-> chunks]

(* Mutant: the failure is logged and not counted.                           *)
ReadRaisesUncounted ==
    /\ pc = "map"
    /\ outcome' = Append(outcome, "unread")
    /\ pc' = "report"
    /\ UNCHANGED <<listed, k, tally, before, cached, depth, spool, zip, counts, last>>

(* Mutant: the file was streamed into the zip as it was read (before 1.53). *)
ReadRaisesStreamed ==
    /\ pc = "map"
    /\ zip' = Append(zip, Member(Size, spool))
    /\ counts' = Counted("failed")
    /\ outcome' = Append(outcome, "unread")
    /\ pc' = "report"
    /\ UNCHANGED <<listed, k, tally, before, cached, depth, spool, last>>

(* The read raises partway, or the spool does: nothing reached the zip.     *)
ReadRaises ==
    /\ pc = "map"
    /\ counts' = Counted("failed")
    /\ outcome' = Append(outcome, "unread")
    /\ pc' = "report"
    /\ UNCHANGED <<listed, k, tally, before, cached, depth, spool, zip, last>>

(* Mutant: the shortfall is subtracted without a floor.                     *)
SaysUnfloored == Least(Size, Size - (tally - before))

(* How many bytes of the file the extraction says are here.                 *)
Says == LET pastEnd == tally - before
        IN Least(Size, IF Size > pastEnd THEN Size - pastEnd ELSE 0)

Store ==
    /\ pc = "store"
    /\ zip' = Append(zip, Member(Says, spool))
    /\ counts' = IF Says < Size
                 THEN [Counted("short") EXCEPT !.written = @ + Says]
                 ELSE [Counted("files") EXCEPT !.written = @ + Size]
    /\ outcome' = Append(outcome, IF Says < Size THEN "short" ELSE "whole")
    /\ pc' = "report"
    /\ UNCHANGED <<listed, k, tally, before, cached, depth, spool, last>>

(* The spool cannot be read back, or the zip not written, while the member  *)
(* is copied: zf.open()'s exit closes the member with what it has so far,   *)
(* unless opening or closing it is what raises.                             *)
StoreRaises ==
    /\ pc = "store"
    /\ \/ \E n \in 0..Len(spool) : zip' = Append(zip, Member(Says, SubSeq(spool, 1, n)))
       \/ zip' = zip
    /\ counts' = Counted("failed")
    /\ outcome' = Append(outcome, "unstored")
    /\ pc' = "report"
    /\ UNCHANGED <<listed, k, tally, before, cached, depth, spool, last>>

Regular(i) == Layout[entries[i]].regular
TotalFiles == Cardinality({i \in DOMAIN entries : Regular(i)})

(* ProgressEmitter.__call__(): due is whether the interval has passed.      *)
Report ==
    /\ pc = "report"
    /\ \E due \in BOOLEAN :
         last' = IF due \/ (TotalFiles > 0 /\ counts.files >= TotalFiles)
                 THEN <<counts.files, counts.written>> ELSE last
    /\ k' = k + 1
    /\ pc' = "entry"
    /\ UNCHANGED <<listed, tally, before, cached, depth, spool, zip, outcome, counts>>

Return ==
    /\ pc = "entry" /\ k > Len(entries)
    /\ pc' = "done"
    /\ UNCHANGED <<listed, k, tally, before, cached, depth, spool, zip, outcome,
                   counts, last>>

Next == \/ Collect \/ Begin \/ Skip \/ Open
        \/ FollowPointer \/ YieldHole \/ ReadData \/ ReadRaises
        \/ Store \/ StoreRaises \/ Report \/ Return

Spec == Init /\ [][Next]_vars

-----------------------------------------------------------------------------
Chunks == [take : Nat, real : Nat]
Members == [entry : Nat, form : {"whole", "short"}, says : Nat, chunks : Seq(Chunks)]
Tallies == [files : Nat, written : Nat, skipped : Nat, failed : Nat, short : Nat]
Outcomes == {"whole", "short", "skipped", "unread", "unstored"}

(* The type of the state: every count is a number, never below zero.        *)
TypeOK ==
    /\ kind \in {"qnx6", "f2fs"}
    /\ len \in Nat
    /\ bad \in SUBSET Blocks
    /\ entries \in Seq(Nodes)
    /\ k \in 1..((IF pc = "collect" THEN Len(Listing) ELSE Len(entries)) + 1)
    /\ pc \in {"collect", "entry", "map", "store", "report", "done"}
    /\ tally \in Nat /\ before \in Nat /\ before <= tally
    /\ cached \in SUBSET Blocks
    /\ depth \in Nat \ {0}
    /\ spool \in Seq(Chunks)
    /\ zip \in Seq(Members)
    /\ outcome \in Seq(Outcomes)
    /\ counts \in Tallies
    /\ last \in {<< >>} \cup (Nat \X Nat)

-----------------------------------------------------------------------------
(* What is true of the volume, whatever the extraction did.                 *)
Ptrs(n, j) == {Layout[n].blocks[j].ptrs[i] : i \in DOMAIN Layout[n].blocks[j].ptrs}
Data(n, j) == Layout[n].blocks[j].data
TakeOf(n, j) == Least(BS, Layout[n].size - (j - 1) * BS)

Unreadable(n, j) == (Ptrs(n, j) \cup {Data(n, j)}) \cap bad # {}

(* Entry i is the first that F2fsWalker reads this inode for.               *)
FirstLink(i) == \A h \in 1..(i - 1) : entries[h] # entries[i]

(* Member m has every chunk of its file in full, a hole's zeros included;   *)
(* what is padding in it is a block the acquisition could not read.         *)
Holds(m) ==
    LET n == entries[zip[m].entry]
        chunks == zip[m].chunks
    IN /\ Len(chunks) = Len(Layout[n].blocks)
       /\ \A j \in DOMAIN chunks :
             /\ chunks[j].take = TakeOf(n, j)
             /\ chunks[j].real = TakeOf(n, j) \/ Unreadable(n, j)

(* The file of member m was counted among the files, the whole ones.        *)
CountedWhole(m) == outcome[zip[m].entry] = "whole"

(* The member of a file counted whole holds the file, when Qnx6Walker reads *)
(* it: read_at() tallied every byte past the end, so a cut file never       *)
(* passes for a whole one (EOF_SHORTFALL, qnxprobe.py 127-143).             *)
WholeIsWhole ==
    \A m \in DOMAIN zip : kind = "qnx6" /\ CountedWhole(m) => Holds(m)

(* The same of F2fsWalker, for the first link to an inode: its cache        *)
(* answers later reads of a block without the tally.                        *)
FirstLinkIsWhole ==
    \A m \in DOMAIN zip :
        kind = "f2fs" /\ FirstLink(zip[m].entry) /\ CountedWhole(m) => Holds(m)

(* "A file whose blocks reach past the end of the image is still stored,    *)
(* under a name ending .SHORT" (README 319-321), every link of it.          *)
EveryLinkIsHonest ==
    \A m \in DOMAIN zip : CountedWhole(m) => Holds(m)

(* "failed (files that could not be read, which are not in the zip)"        *)
(* (README 247-249): no file counted failed has a member.                   *)
FailedAreLeftOut ==
    \A m \in DOMAIN zip : outcome[zip[m].entry] \notin {"unread", "unstored"}

With(o) == Cardinality({i \in DOMAIN outcome : outcome[i] = o})

(* The bytes each member adds to the tally: none if it was not stored.      *)
Kept == [m \in DOMAIN zip |->
            IF outcome[zip[m].entry] \in {"whole", "short"} THEN zip[m].says ELSE 0]

(* The tally extract_to_zip() returns, and volumes.json records, is the     *)
(* count of what became of the entries, and of the bytes in their members.  *)
Accounted ==
    /\ counts.files = With("whole")
    /\ counts.short = With("short")
    /\ counts.skipped = With("skipped")
    /\ counts.failed = With("unread") + With("unstored")
    /\ counts.written = SumTo(Kept, Len(zip))

Promise == INSTANCE ZipPromise WITH
    todo <- Len(entries),
    members <- [m \in DOMAIN zip |-> zip[m].entry]

(* What the promise rules out: a file whose copy into the zip failed is     *)
(* counted failed, and what was copied of it stays as a member.             *)
CopyFails ==
    /\ Len(outcome) < Len(entries)
    /\ Promise!Keep("unstored")
    /\ UNCHANGED Len(entries)

(* The zip keeps the promise of ZipPromise at every step but that of a copy *)
(* that failed: one outcome for each entry, in their order and never        *)
(* revised, a member for each file stored and none for one that was passed  *)
(* over or could not be read.                                               *)
KeepsThePromiseButForCopies ==
    Promise!Init /\ [][Promise!Next \/ CopyFails]_(Promise!promise)
===============================================================================
