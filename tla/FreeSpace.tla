----------------------------- MODULE FreeSpace -----------------------------
(***************************************************************************)
(* write_unallocated() of qnxprobe.py on an LVM volume group: when a volume *)
(* has been read through its map, the free space of a physical volume, or   *)
(* of the filesystem on the volume, is written to a file, with a map beside *)
(* it that says where each run of the file comes from in the image.  The    *)
(* image may end early and have a sector that does not read.                *)
(***************************************************************************)
EXTENDS RaidGeometry

CONSTANTS
    Chunk,      \* the sectors read at once, 2048 in the code
    Ends,       \* the sectors the image may have
    FreeRuns    \* what a filesystem on a volume may say is free: sets of runs <<start, sectors>>

VARIABLES
    status,     \* "reading" the volume, "writing", "written", or why nothing is
    end,        \* the sectors of the image
    bad,        \* those that do not read
    asked,      \* whose free space is written: a physical volume, or "fs", and what it says is free
    runs,       \* the runs yet to be written, <<sector of the image, sectors>>
    got,        \* the sectors of the first of them that have been
    out,        \* the file, as the sectors of the image it holds
    rows,       \* its map, <<place in the file, sector of the image, sectors>>
    tally       \* sectors reported, past the end of the image, and not read

export == <<status, end, bad, asked, runs, got, out, rows, tally>>

Total(list) == MapThenSumSet(LAMBDA i : list[i][2], DOMAIN list)

(* image_runs(): the runs that touch are merged.                            *)
ImageRuns(map, run) ==
    LET add(list, x) ==
            LET at == LvmPlace(map, x).at
            IN IF list # <<>> /\ Last(list)[1] + Last(list)[2] = at
               THEN [list EXCEPT ![Len(list)][2] = @ + 1] ELSE Append(list, <<at, 1>>)
        last == Min({run[1] + run[2], LvmSize(map)}) - 1
    IN FoldLeft(add, <<>>, SetToSortSeq(run[1]..last, <))

(* The runs that are reported free: of the extents no volume has, or of the *)
(* filesystem on the volume, by the volume's map.                           *)
Reported(what, free) ==
    LET v == g.layout
        spare(pv) == SetToSortSeq({<<v.pvs[pv].base + r[1] * v.ext, (r[2] - r[1]) * v.ext>> : r \in Spare(v, pv)},
                               LAMBDA a, b : a[1] < b[1])
        in == SetToSortSeq(free, LAMBDA a, b : a[1] < b[1])
    IN IF what = "fs" THEN FlattenSeq([i \in DOMAIN in |-> ImageRuns(Volume(g), in[i])]) ELSE spare(what)

(* Mutant: a run that reaches past the end of the image is dropped.         *)
KeptWhole(list, size) == SelectSeq(list, LAMBDA r : r[1] + r[2] <= size)

(* The runs in the image, one that reaches past its end cut there.          *)
Kept(list, size) ==
    LET here == SelectSeq(list, LAMBDA r : r[1] < size)
    IN [i \in DOMAIN here |-> <<here[i][1], Min({here[i][2], size - here[i][1]})>>]

ExportInit ==
    /\ Init
    /\ status = "reading" /\ end = 0 /\ bad = {} /\ asked = <<"", {}>> /\ runs = <<>> /\ got = 0
    /\ out = <<>> /\ rows = <<>> /\ tally = [reported |-> 0, past |-> 0, short |-> 0]

(* A file of that name that is there is not written over, nor one begun     *)
(* that there is no room for.                                               *)
Begin(what, free, blocked) ==
    LET list == Reported(what, free)
    IN /\ status = "reading" /\ g.level = "lvm" /\ off = Size(g)
       /\ asked' = <<what, free>>
       /\ \E size \in Ends :
             LET kept == Kept(list, size)
             IN /\ end' = size
                /\ \E x \in {{}} \cup {{r[1] + i} : r \in ToSet(kept), i \in {0, Chunk}} : bad' = x
                /\ tally' = [reported |-> Total(list), past |-> Total(list) - Total(kept), short |-> 0]
                /\ status' = CASE list = <<>> -> "nothing free"
                               [] list # <<>> /\ kept = <<>> -> "past the end"
                               [] kept # <<>> /\ blocked -> "not begun"
                               [] kept # <<>> /\ ~blocked -> "writing"
                /\ runs' = IF status' = "writing" THEN kept ELSE <<>>
       /\ UNCHANGED <<got, out, rows>>

Wanted == Min({Chunk, Head(runs)[2] - got})
First == Head(runs)[1] + got
Reads == bad \cap (First..(First + Wanted - 1)) = {}

WriteChunk ==
    /\ status = "writing" /\ runs # <<>> /\ got < Head(runs)[2] /\ Reads
    /\ out' = out \o [i \in 1..Wanted |-> First + i - 1]
    /\ got' = got + Wanted
    /\ UNCHANGED <<status, end, bad, asked, runs, rows, tally>>

(* A run is over, or given up at the first read that fails.                 *)
EndRun ==
    /\ status = "writing" /\ runs # <<>> /\ (got = Head(runs)[2] \/ ~Reads)
    /\ rows' = IF got > 0 THEN Append(rows, <<Len(out) - got, Head(runs)[1], got>>) ELSE rows
    /\ tally' = [tally EXCEPT !.short = @ + Head(runs)[2] - got]
    /\ runs' = Tail(runs) /\ got' = 0
    /\ UNCHANGED <<status, end, bad, asked, out>>

Finish ==
    /\ status = "writing" /\ runs = <<>>
    /\ status' = "written"
    /\ UNCHANGED <<end, bad, asked, runs, got, out, rows, tally>>

Export ==
    \/ \E what \in {pv \in DOMAIN g.layout.pvs : g.layout.pvs[pv].here}, blocked \in BOOLEAN :
          Begin(what, {}, blocked)
    \/ \E free \in FreeRuns : Begin("fs", free, FALSE)
    \/ WriteChunk \/ EndRun \/ Finish

ExportNext == (Next /\ UNCHANGED export) \/ (g.level = "lvm" /\ Export /\ UNCHANGED vars)

ExportSpec == ExportInit /\ [][ExportNext]_<<vars, export>>

-----------------------------------------------------------------------------
(* The sectors a volume has of the physical volumes.                        *)
Held(v, lv) ==
    IF Mirrored(v, lv)
    THEN {At(v, a) + x : a \in {y \in ToSet(v.lvs[lv][1].areas) : y.on \in DOMAIN v.pvs},
                         x \in 0..(Sectors(v, v.lvs[lv]) - 1)}
    ELSE {Mapped(v, v.lvs[lv], x) : x \in 0..(Sectors(v, v.lvs[lv]) - 1)}

(* missing(): its sectors past the end of an image are those not there.     *)
CutIsCounted ==
    off = Size(g) =>
        \A size \in 0..SizeOf(g, 0) :
            Missing(Volume(g), size) = Cardinality({p \in All : p[2] >= size})

(* The sectors that are free: of a physical volume, those no logical volume *)
(* has, a hidden one or one that is being moved among them.                 *)
Free ==
    LET v == g.layout
        held == UNION {Held(v, lv) : lv \in DOMAIN v.lvs}
        fs == UNION {r[1]..Min({r[1] + r[2], Size(g)}) - 1 : r \in asked[2]}
        pv == v.pvs[asked[1]]
    IN IF asked[1] = "fs" THEN {Mapped(v, v.lvs[Copied(v, v.volume)], x) : x \in fs}
       ELSE (pv.base..(pv.base + pv.count * v.ext - 1)) \ held

(* What was written is free space and all of it, but for what the image     *)
(* lacks and, of a run, what is from the chunk of a sector that does not    *)
(* read; and the map and the counts agree with the file.                    *)
WrittenIsFree ==
    status = "written" =>
        LET file == ToSet(out)
        IN /\ file \subseteq Free \cap (0..(end - 1))
           /\ Cardinality(file) = Len(out)
           /\ \A x \in Free : x < end /\ x \notin file =>
                 \E b \in bad : x > b - Chunk /\ b..x \subseteq Free
           /\ \A row \in ToSet(rows) : \A i \in 1..row[3] : out[row[1] + i] = row[2] + i - 1
           /\ MapThenSumSet(LAMBDA i : rows[i][3], DOMAIN rows) = Len(out)
           /\ tally.reported = Cardinality(Free)
           /\ tally.reported = Len(out) + tally.past + tally.short
           /\ tally.past = Cardinality({x \in Free : x >= end})

(* What an image lacks of a volume that is read through its map is counted; *)
(* the free space that is written is what no volume has, a hidden one or    *)
(* one being moved among them, and all of it, with a map and counts that    *)
(* are right, though the image is cut and a sector of it does not read      *)
(* (LvmMap, _lvm_group, write_unallocated).                                 *)
GroupIsAccountedFor ==
    g.level = "lvm" => CutIsCounted /\ WrittenIsFree
=============================================================================
