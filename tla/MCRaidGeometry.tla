---------------------------- MODULE MCRaidGeometry ----------------------------
(***************************************************************************)
(* Every layout of RAID5 and RAID6 over up to six members, RAID4, near, far *)
(* and offset copies of RAID10 over up to five, RAID0 and linear over three *)
(* members of any sizes.  Geometries that _setup() refuses are among them.  *)
(* LVM volumes of one or two segments, striped ones among them, and of two  *)
(* mirrored copies, in a group that has another volume or one that is being *)
(* moved, with both physical volumes in the image or the first alone.       *)
(***************************************************************************)
EXTENDS FreeSpace

Geo(level, n, chunk, layout, dev, members) ==
    [level |-> level, n |-> n, chunk |-> chunk, layout |-> layout, dev |-> dev,
     members |-> members]

Parity ==
    {Geo("4", n, 2, 0, 2 * n + 3, << >>) : n \in 1..4}
    \cup {Geo("5", n, c, l, c * (n + 1) + 1, << >>) : n \in 1..5, c \in 1..2, l \in 0..6}
    \cup {Geo("6", n, c, l, c * (n + 1) + 1, << >>) : n \in 2..6, c \in 1..2, l \in 0..21}

(* No array of near and offset copies whose near copies wrap (see           *)
(* GeometriesAssumption).                                                   *)
Copies ==
    {x \in {Geo("10", n, c, [near |-> l[1], far |-> l[2], offset |-> l[3]], dev, << >>) :
                n \in 1..5, c \in 1..4, dev \in {5, 12, 18}, l \in (1..5) \X (1..4) \X BOOLEAN} :
        x.layout.offset => x.n % x.layout.near = 0}

Concatenations ==
    {Geo("linear", 3, c, 0, 0, m) : c \in {0, 2}, m \in [1..3 -> {0, 1, 4, 5}]}
    \cup {Geo("0", 3, c, l, 0, m) : c \in 1..2, l \in 0..2, m \in [1..3 -> {1, 2, 5}]}
    \cup {Geo("0", 4, 1, l, 0, m) : l \in 1..2, m \in [1..4 -> 1..2]}

Mirrors == {Geo("1", n, 0, 0, dev, << >>) : n \in 1..3, dev \in {0, 3}}

Pvs(both) == ("pv0" :> [base |-> 1, count |-> 4, here |-> TRUE])
             @@ ("pv1" :> [base |-> IF both THEN 10 ELSE 100, count |-> 3, here |-> both])

Area(on, pe) == [on |-> on, pe |-> pe]

Seg(type, start, count, stripe, areas) ==
    [type |-> type, start |-> start, count |-> count, stripe |-> stripe, areas |-> areas]

Straight(start, counts) ==
    {Seg("striped", start, n, 0, <<Area(on, pe)>>) : n \in counts, on \in {"pv0", "pv1"}, pe \in 0..3}

Across(start, counts) ==
    {Seg("striped", start, n, stripe, <<Area(on[1], pe[1]), Area(on[2], pe[2])>>) :
        n \in counts, stripe \in 1..3, on \in {<<"pv0", "pv1">>, <<"pv1", "pv0">>, <<"pv0", "pv0">>},
        pe \in (0..3) \X (0..3)}

Roots ==
    {<<s>> : s \in Straight(0, 1..3) \cup Across(0, {2, 3, 4})}
    \cup {<<s, t>> : s \in Straight(0, {2}), t \in Straight(2, 1..2) \cup Straight(3, {1})}
    \cup {<<s, t>> : s \in Across(0, {2}), t \in Straight(2, {1})}

Others ==
    {"swap" :> <<Seg("striped", 0, 1, 0, <<Area("pv0", pe)>>)>> : pe \in {0, 3}}
    \cup {"pvmove0" :> <<Seg("mirror", 0, 2, 0, <<Area("pv0", 0), Area("pv0", 2)>>)>>}

Legged ==
    {("root" :> <<Seg("mirror", 0, n, 0, <<Area("root_0", first), Area("root_1", 0)>>)>>)
     @@ ("root_0" :> <<s>>) @@ ("root_1" :> <<t>>) :
        n \in 1..2, first \in 0..1, s \in Straight(0, 1..2), t \in Straight(0, {2})}

(* No extent is given to two areas, and none is past its physical volume.   *)
Sound(v) ==
    LET segs == UNION {{<<lv, i>> : i \in DOMAIN v.lvs[lv]} : lv \in DOMAIN v.lvs}
        seg(x) == v.lvs[x[1]][x[2]]
        areas == UNION {{<<x, i>> : i \in DOMAIN seg(x).areas} : x \in segs}
        extents(y) == LET a == seg(y[1]).areas[y[2]]
                      IN IF a.on \in DOMAIN v.pvs THEN {<<a.on, e>> : e \in a.pe..(a.pe + Each(seg(y[1])) - 1)} ELSE {}
    IN /\ \A x, y \in areas : x # y => extents(x) \cap extents(y) = {}
       /\ \A x \in areas : \A e \in extents(x) : e[2] < v.pvs[e[1]].count

Groups ==
    {v \in {[ext |-> 2, pvs |-> Pvs(both), lvs |-> lvs, volume |-> "root"] :
                both \in BOOLEAN,
                lvs \in {("root" :> r) @@ o : r \in Roots, o \in Others} \cup Legged} :
        Sound(v)}

Volumes == {Geo("lvm", 1, 0, v, 0, <<16>>) : v \in Groups}

MCFreeRuns == {{<<0, 2>>}, {<<0, 1>>, <<2, 4>>}, {<<1, 3>>}}

MCGeometries == Volumes \cup Parity \cup Copies \cup Concatenations \cup Mirrors
===============================================================================
