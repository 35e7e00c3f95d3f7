----------------------------- MODULE LvmLayout -----------------------------
(***************************************************************************)
(* Where an LVM logical volume lies in the image (_lvm_layout, _lvm_copy    *)
(* and LvmMap of qnxprobe.py), and which extents of its physical volumes    *)
(* are no volume's (_lvm_group).                                            *)
(*                                                                          *)
(* A volume group v is a record of ext (the sectors of an extent), pvs (by  *)
(* name: the sector its first extent is at, its extents, and whether it is  *)
(* in this image), lvs (by name: its segments) and volume (the one that is  *)
(* read).  A segment has a type, the extent it starts at, its extents, the  *)
(* sectors of a stripe, and areas: a name and the first extent there.       *)
(***************************************************************************)
EXTENDS Numbers, Sequences, SequencesExt, FiniteSetsExt

Segment == [type : STRING, start : Nat, count : Nat, stripe : Nat, areas : Seq([on : STRING, pe : Nat])]

(* Mutant: the areas of a mirror share its extents as stripes do.           *)
EachAsStripes(s) == s.count \div Len(s.areas)

(* The extents a segment has on each of its areas: a mirror's hold all.     *)
Each(s) == IF s.type = "mirror" THEN s.count ELSE s.count \div Len(s.areas)

Before(segs, i) == SumTo([j \in DOMAIN segs |-> segs[j].count], i - 1)

(* Whether the segments are read: every run on a physical volume that is    *)
(* here, with no gap between them.  Extents of which the volume group gives *)
(* no number are not held to it.                                            *)
Laid(v, segs) ==
    /\ segs # <<>>
    /\ \A i \in DOMAIN segs :
          LET s == segs[i]
          IN /\ s.type = "striped"
             /\ s.start = Before(segs, i)
             /\ Len(s.areas) > 1 =>
                   /\ s.stripe > 0
                   /\ s.count % Len(s.areas) = 0
                   /\ (Each(s) * v.ext) % s.stripe = 0
             /\ \A a \in ToSet(s.areas) :
                   /\ a.on \in DOMAIN v.pvs
                   /\ v.pvs[a.on].here
                   /\ v.pvs[a.on].count # 0 => a.pe + Each(s) <= v.pvs[a.on].count

At(v, a) == v.pvs[a.on].base + a.pe * v.ext

(* What LVM makes of a group in an image of that many sectors: segments     *)
(* that have areas, no two of a volume's areas on the same sectors, and     *)
(* physical volumes of some extents, here to their ends.                    *)
GroupOK(v, size) ==
    LET here(a) == a.on \in DOMAIN v.pvs /\ v.pvs[a.on].here
        apart(s, a, t, b) ==
            here(a) /\ here(b) =>
                \/ At(v, a) + Each(s) * v.ext <= At(v, b)
                \/ At(v, b) + Each(t) * v.ext <= At(v, a)
    IN /\ v.ext \in Nat \ {0} /\ v.volume \in DOMAIN v.lvs
       /\ \A p \in DOMAIN v.pvs :
             /\ v.pvs[p].base \in Nat /\ v.pvs[p].count \in Nat \ {0}
             /\ v.pvs[p].here => v.pvs[p].base + v.pvs[p].count * v.ext <= size
       /\ \A lv \in DOMAIN v.lvs :
             LET segs == v.lvs[lv]
             IN /\ segs \in Seq(Segment)
                /\ \A i \in DOMAIN segs : segs[i].areas # <<>>
                /\ \A i, j \in DOMAIN segs :
                      \A k \in DOMAIN segs[i].areas, l \in DOMAIN segs[j].areas :
                         <<i, k>> # <<j, l>> => apart(segs[i], segs[i].areas[k], segs[j], segs[j].areas[l])

(* Each segment gives a run; stripe is 0 where there is one area.           *)
RunOf(v, s) ==
    [start |-> s.start * v.ext, size |-> s.count * v.ext,
     stripe |-> IF Len(s.areas) = 1 THEN 0 ELSE s.stripe,
     bases |-> [i \in DOMAIN s.areas |-> At(v, s.areas[i])]]

(* Mutant: runs a sector apart on the disk are joined too.                  *)
JoinsNearly(r, next) ==
    r.stripe = 0 /\ next.stripe = 0 /\ next.bases[1] - (r.bases[1] + r.size) \in 0..1

(* A run that goes straight on from the one before it is made one with it.  *)
Joins(r, next) == r.stripe = 0 /\ next.stripe = 0 /\ r.bases[1] + r.size = next.bases[1]

Runs(v, segs) ==
    LET runs[i \in 0..Len(segs)] ==
            LET out == runs[i - 1]
                next == RunOf(v, segs[i])
            IN IF i = 0 THEN <<>>
               ELSE IF out # <<>> /\ Joins(out[Len(out)], next)
                    THEN [out EXCEPT ![Len(out)].size = @ + next.size] ELSE Append(out, next)
    IN runs[Len(segs)]

Sectors(v, segs) == Before(segs, Len(segs) + 1) * v.ext

Mirrored(v, lv) == Len(v.lvs[lv]) = 1 /\ v.lvs[lv][1].type = "mirror"

(* The copies of a mirror that can be read.                                 *)
Legs(v, lv) ==
    LET s == v.lvs[lv][1]
    IN {i \in DOMAIN s.areas :
          /\ s.areas[i].on \in DOMAIN v.lvs
          /\ s.areas[i].pe = 0
          /\ Laid(v, v.lvs[s.areas[i].on])
          /\ Sectors(v, v.lvs[s.areas[i].on]) >= s.count * v.ext}

Found(v, lv) == IF Mirrored(v, lv) THEN Legs(v, lv) # {} ELSE Laid(v, v.lvs[lv])

(* LvmMap: a mirror is read from the first of its copies, to its own size.  *)
LvmMap(v, lv) ==
    IF Mirrored(v, lv)
    THEN LET s == v.lvs[lv][1]
             all == Runs(v, v.lvs[s.areas[Min(Legs(v, lv))].on])
             size == s.count * v.ext
         IN [i \in {j \in DOMAIN all : all[j].start < size} |->
                [all[i] EXCEPT !.size = Min({@, size - all[i].start})]]
    ELSE Runs(v, v.lvs[lv])

LvmSize(map) == SumTo([i \in DOMAIN map |-> map[i].size], Len(map))

(* locate().                                                                *)
LvmPlace(map, off) ==
    LET r == map[Max({i \in DOMAIN map : map[i].start <= off})]
        x == off - r.start
        c == x \div r.stripe
        within == x % r.stripe
    IN IF r.stripe = 0 THEN [at |-> r.bases[1] + x, run |-> r.size - x]
       ELSE [at |-> r.bases[(c % Len(r.bases)) + 1] + (c \div Len(r.bases)) * r.stripe + within,
             run |-> Min({r.stripe - within, r.size - x})]

(* missing(): the sectors of the volume past the end of the image.          *)
Missing(map, end) ==
    LET per(r) == IF r.stripe = 0 THEN r.size ELSE r.size \div Len(r.bases)
        past(b, n) == IF b + n <= end THEN 0 ELSE Min({n, (b + n) - end})
        lost(r) == MapThenSumSet(LAMBDA i : past(r.bases[i], per(r)), DOMAIN r.bases)
    IN MapThenSumSet(LAMBDA i : lost(map[i]), DOMAIN map)

(* The runs of extents, <<first, end>>, of a physical volume allocated to   *)
(* no logical volume, hidden ones included.                                 *)
Spare(v, pv) ==
    LET segs == UNION {ToSet(v.lvs[lv]) : lv \in DOMAIN v.lvs}
        taken == UNION {{<<a.pe, Each(s)>> : a \in {x \in ToSet(s.areas) : x.on = pv}} : s \in segs}
        order(a, b) == a[1] < b[1] \/ (a[1] = b[1] /\ a[2] < b[2])
        past(acc, t) == [at |-> Max({acc.at, t[1] + t[2]}),
                         runs |-> IF t[1] > acc.at THEN acc.runs \cup {<<acc.at, t[1]>>} ELSE acc.runs]
    IN FoldLeft(past, [at |-> 0, runs |-> {}],
                Append(SetToSortSeq(taken, order), <<v.pvs[pv].count, 0>>)).runs
=============================================================================
