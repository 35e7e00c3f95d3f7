---------------------------- MODULE RaidGeometry ----------------------------
(***************************************************************************)
(* RaidGeometry of qnxprobe.py: where each byte of an md array lies on its  *)
(* members, for every level and layout it reads; and the loop of            *)
(* RaidReader._read() that goes through the array piece by piece, here with *)
(* every member in place, so that the places it visits can be compared; and *)
(* the same of an LVM logical volume, through LvmMap.                       *)
(*                                                                         *)
(* The unit of length is the sector.  A geometry g is a record of level, n, *)
(* chunk, layout, dev (the size each member gives the array) and members    *)
(* (the size of each, which linear and RAID0 use).  RAID10's layout number  *)
(* is taken apart into near, far and offset copies.  LVM has the volume     *)
(* group for a layout, and one member: the image its volumes are in.        *)
(***************************************************************************)
EXTENDS RaidStripe, LvmLayout

CONSTANTS
    Geometries, \* the geometries to go through
    Page        \* the least chunk md runs RAID10 with, 8 sectors in the code

(* What a superblock can say.  mdadm makes no near copies that wrap from a  *)
(* row to the next with offset copies in the row between.                   *)
ASSUME GeometriesAssumption ==
    /\ Page \in Nat \ {0}
    /\ \A x \in Geometries :
          /\ x.n \in Nat /\ x.chunk \in Nat /\ x.dev \in Nat
          /\ x.level \in {"linear", "0"} => x.members \in [1..x.n -> Nat]
          /\ x.level = "10" =>
                /\ x.layout.near \in Nat /\ x.layout.far \in Nat
                /\ x.layout.offset \in BOOLEAN
                /\ x.layout.offset => x.layout.near = 0 \/ x.n % x.layout.near = 0
          /\ x.level = "lvm" => x.members[1] \in Nat /\ GroupOK(x.layout, x.members[1])

Floor(b, chunk) == b - (b % chunk)
RolesOf(x) == 0..(x.n - 1)
SizeOf(g, r) == g.members[r + 1]

-----------------------------------------------------------------------------
(* linear: each member after the last, rounded down to the chunk if any.    *)
LinearSize(g, r) == IF g.chunk = 0 THEN SizeOf(g, r) ELSE Floor(SizeOf(g, r), g.chunk)

LinearEnd(g, r) == SumTo([i \in 1..g.n |-> LinearSize(g, i - 1)], r + 1)

(* Mutant: a piece runs to the end of the member as it is, not rounded.     *)
LinearPlaceToTheEnd(g, off) ==
    LET role == Min({r \in RolesOf(g) : off < LinearEnd(g, r)})
        start == IF role = 0 THEN 0 ELSE LinearEnd(g, role - 1)
    IN [role |-> role, at |-> off - start, run |-> SizeOf(g, role) - (off - start)]

LinearPlace(g, off) ==
    LET role == Min({r \in RolesOf(g) : off < LinearEnd(g, r)})
        start == IF role = 0 THEN 0 ELSE LinearEnd(g, role - 1)
    IN [role |-> role, at |-> off - start, run |-> LinearEnd(g, role) - off]

-----------------------------------------------------------------------------
(* RAID0: a zone for each distinct size of member, over the members that    *)
(* are longer than the zone before.                                         *)
Striped(g, r) == Floor(SizeOf(g, r), g.chunk)

Heights(g) == Ascending({Striped(g, r) : r \in RolesOf(g)})

ZoneStart(g, z) == IF z = 1 THEN 0 ELSE Heights(g)[z - 1]

ZoneDevs(g, z) == Ascending({r \in RolesOf(g) : Striped(g, r) > ZoneStart(g, z)})

Zones(g) == DOMAIN Heights(g)

ZoneEnd(g, z) ==
    SumTo([y \in Zones(g) |-> (Heights(g)[y] - ZoneStart(g, y)) * Len(ZoneDevs(g, y))], z)

(* The layout counts only where a second zone is striped.                   *)
ZoneLayoutMatters(g) == Len(Heights(g)) > 1 /\ Len(ZoneDevs(g, 2)) > 1

Raid0Place(g, off) ==
    LET z == Min({y \in Zones(g) : off < ZoneEnd(g, y)})
        devs == ZoneDevs(g, z)
        zoff == off - (IF z = 1 THEN 0 ELSE ZoneEnd(g, z - 1))
        s == IF g.layout = 2 /\ ZoneLayoutMatters(g) THEN zoff ELSE off
        within == s % g.chunk
        row == zoff \div (g.chunk * Len(devs))
    IN [role |-> devs[((s \div g.chunk) % Len(devs)) + 1],
        at |-> ZoneStart(g, z) + row * g.chunk + within,
        run |-> Min({g.chunk - within, ZoneEnd(g, z) - off})]

-----------------------------------------------------------------------------
(* RAID10: near copies side by side, far copies a stride away.              *)
Stride(g) ==
    LET chunks == (((g.dev \div g.chunk) \div g.layout.far) * g.n) \div g.layout.near
        copies == chunks * g.layout.near * g.layout.far
        perDev == (copies + g.n - 1) \div g.n
    IN IF g.layout.offset THEN g.chunk ELSE (perDev \div g.layout.far) * g.chunk

(* Mutant: the copies that wrap to the first members are not a chunk on.    *)
Copies10Unwrapped(g, off) ==
    LET within == off % g.chunk
        c == (off \div g.chunk) * g.layout.near
        stripe == (c \div g.n) * (IF g.layout.offset THEN g.layout.far ELSE 1)
    IN {[role |-> ((c % g.n) + i + f * g.layout.near) % g.n,
         at |-> within + stripe * g.chunk + f * Stride(g)] :
            i \in 0..(g.layout.near - 1), f \in 0..(g.layout.far - 1)}

Copies10(g, off) ==
    LET within == off % g.chunk
        c == (off \div g.chunk) * g.layout.near
        stripe == (c \div g.n) * (IF g.layout.offset THEN g.layout.far ELSE 1)
    IN {LET dev == (c % g.n) + i
        IN [role |-> (dev + f * g.layout.near) % g.n,
            at |-> within + stripe * g.chunk + (IF dev >= g.n THEN g.chunk ELSE 0)
                   + f * Stride(g)] :
            i \in 0..(g.layout.near - 1), f \in 0..(g.layout.far - 1)}

(* Mutant: a range is looked for only where it begins.                      *)
Candidates10OfTheStart(g, s, e) ==
    LET far == g.layout.far
        near == g.layout.near
        rowOf(f) == IF g.layout.offset THEN s \div g.chunk - f
                    ELSE (s - f * Stride(g)) \div g.chunk
        rows == {rowOf(f) : f \in 0..(far - 1)}
        sound == {row \in rows : row >= 0 /\ (g.layout.offset => row % far = 0)}
        stripes == {IF g.layout.offset THEN row \div far ELSE row : row \in sound}
    IN UNION {Max({0, ((st * g.n) \div near) - 1})..((((st + 1) * g.n) \div near) + 1) :
                 st \in stripes \cup {st - 1 : st \in stripes}}

(* The chunks RaidReader.unreadable() reads for a bad range [s, e) of a     *)
(* member: those that may have a copy there.                                *)
Candidates10(g, s, e) ==
    LET far == g.layout.far
        near == g.layout.near
        starts == {s} \cup {x \in (s + 1)..(e - 1) : x % g.chunk = 0}
        rowOf(at, f) == IF g.layout.offset THEN at \div g.chunk - f
                        ELSE (at - f * Stride(g)) \div g.chunk
        rows == {rowOf(at, f) : at \in starts, f \in 0..(far - 1)}
        sound == {row \in rows : row >= 0 /\ (g.layout.offset => row % far = 0)}
        stripes == {IF g.layout.offset THEN row \div far ELSE row : row \in sound}
    IN UNION {Max({0, ((st * g.n) \div near) - 1})..((((st + 1) * g.n) \div near) + 1) :
                 st \in stripes \cup {st - 1 : st \in stripes}}

(* Mutant: told by the first chunk alone.                                   *)
ShortOfCopiesFirst(g, gone) ==
    \A p \in Copies10(g, 0) : p.role \in gone

(* _md_judge(): whether the members that are gone leave some chunk without  *)
(* a copy, told by the first n chunks.                                      *)
ShortOfCopies(g, gone) ==
    \E c \in RolesOf(g) : \A p \in Copies10(g, c * g.chunk) : p.role \in gone

-----------------------------------------------------------------------------
(* _setup(): the geometries that are read, and the size of the array.       *)
PowerOfTwo(x) == \E i \in 0..x : x = 2^i

Accepted(g) ==
    /\ g.n > 0
    /\ CASE g.level = "linear" -> TRUE
         [] g.level = "1" -> TRUE
         [] g.level = "lvm" -> Found(g.layout, g.layout.volume)
         [] g.level = "0" -> g.chunk > 0 /\ (ZoneLayoutMatters(g) => g.layout \in {1, 2})
         [] g.level = "4" -> g.chunk > 0 /\ g.n > 1
         [] g.level = "5" -> g.chunk > 0 /\ g.n > 1 /\ g.layout \in 0..5
         [] g.level = "6" -> g.chunk > 0 /\ g.n > 2
                             /\ g.layout \in (0..5) \cup (8..10) \cup (16..20)
         [] g.level = "10" -> /\ g.chunk >= Page /\ PowerOfTwo(g.chunk)
                              /\ g.layout.near * g.layout.far \in 2..g.n
         [] OTHER -> FALSE

Volume(g) == LvmMap(g.layout, g.layout.volume)

Size(g) ==
    CASE g.level = "linear" -> LinearEnd(g, g.n - 1)
      [] g.level = "lvm" -> LvmSize(Volume(g))
      [] g.level = "0" -> ZoneEnd(g, Len(Heights(g)))
      [] g.level = "1" -> g.dev
      [] g.level \in {"4", "5", "6"} -> Floor(g.dev, g.chunk) * DataDisks(g)
      [] g.level = "10" ->
            ((((g.dev \div g.chunk) \div g.layout.far) * g.n) \div g.layout.near) * g.chunk

(* Where a byte lies, and how many after it lie straight on.                *)
Places(g, off) ==
    CASE g.level = "linear" -> {[role |-> LinearPlace(g, off).role, at |-> LinearPlace(g, off).at]}
      [] g.level = "0" -> {[role |-> Raid0Place(g, off).role, at |-> Raid0Place(g, off).at]}
      [] g.level = "1" -> {[role |-> r, at |-> off] : r \in RolesOf(g)}
      [] g.level = "10" -> Copies10(g, off)
      [] g.level = "lvm" -> {[role |-> 0, at |-> LvmPlace(Volume(g), off).at]}
      [] OTHER -> {[role |-> Stripe(g, off).role, at |-> Stripe(g, off).at]}

Run(g, off) ==
    CASE g.level = "linear" -> LinearPlace(g, off).run
      [] g.level = "0" -> Raid0Place(g, off).run
      [] g.level = "1" -> g.dev - off
      [] g.level = "lvm" -> LvmPlace(Volume(g), off).run
      [] OTHER -> g.chunk - (off % g.chunk)

-----------------------------------------------------------------------------
(* _read() from one end of the array to the other, a piece at a time.       *)
VARIABLES
    g,          \* the geometry
    off,        \* the byte the next piece starts at
    piece,      \* the places of the last piece, as <<role, byte of the member>>
    seen,       \* those of the pieces before it
    parities    \* for bytes of the stripes, <<byte, role of P, role of Q>>

vars == <<g, off, piece, seen, parities>>

Init ==
    /\ g \in {x \in Geometries : Accepted(x)}
    /\ off = 0
    /\ piece = {}
    /\ seen = {}
    /\ parities = {}

(* _read() takes the piece that starts at off.                              *)
Take(take) ==
    /\ off < Size(g)
    /\ seen' = seen \cup piece
    /\ piece' = {<<p.role, p.at + i>> : p \in Places(g, off), i \in 0..(take - 1)}
    /\ off' = off + take
    /\ UNCHANGED g

ReadPlace ==
    /\ g.level \in {"linear", "0", "1", "10"}
    /\ Take(Min({Run(g, off), Size(g) - off}))
    /\ UNCHANGED parities

ReadStripe ==
    /\ g.level \in {"4", "5", "6"}
    /\ LET here == Stripe(g, off)
           take == Min({here.run, Size(g) - off})
       IN /\ Take(take)
          /\ parities' = parities \cup {<<here.at + i, here.pd, here.qd>> : i \in 0..(take - 1)}

(* LvmImage.read(), through image_runs().                                   *)
ReadRun ==
    /\ g.level = "lvm"
    /\ Take(Min({Run(g, off), Size(g) - off}))
    /\ UNCHANGED parities

Next == ReadPlace \/ ReadStripe \/ ReadRun

Spec == Init /\ [][Next]_vars

-----------------------------------------------------------------------------
All == seen \cup piece

(* No byte of a member is read for two bytes of the array: the places of a  *)
(* piece are none of those before it, for every level, layout, number and   *)
(* size of members (place, copies10, stripe).                               *)
NoByteTwice == piece \cap seen = {}

(* What a member gives the array.                                           *)
Given(r) == IF g.level \in {"linear", "0", "lvm"} THEN SizeOf(g, r) ELSE g.dev

(* A piece lies straight on from its first byte, inside the bytes a member  *)
(* gives the array: what _read() takes at once is what it would take byte   *)
(* by byte.                                                                 *)
PiecesAreStraight ==
    /\ \A p \in piece : p[2] < Given(p[1])
    /\ off < Size(g) =>
           \A i \in 0..(Min({Run(g, off), Size(g) - off}) - 1) :
               Places(g, off + i) = {[role |-> p.role, at |-> p.at + i] : p \in Places(g, off)}

(* What of each member has been read in whole stripes.                      *)
Read == (off \div (DataDisks(g) * g.chunk)) * g.chunk

(* The coefficients in Q of a stripe of RAID6.                              *)
SlotsAreApart(p) ==
    LET slots == Slots6(g, p[2], p[3])
    IN /\ {s[1] : s \in slots} = RolesOf(g) \ {p[2], p[3]}
       /\ \A s, t \in slots : s[2] = t[2] => s = t
       /\ {s[2] : s \in slots} \subseteq 0..(IF Ddf(g) THEN g.n - 1 ELSE DataDisks(g) - 1)
       /\ g.layout \in 2..5 =>
             \A k \in 0..(DataDisks(g) - 1) : <<D6(g, p[1] \div g.chunk, k), k>> \in slots

(* The stripes of RAID4, RAID5 and RAID6: a byte of the members has one P   *)
(* and one Q, and once its stripe has been read, its data are on all the    *)
(* members but those, which is what _rebuild() takes for granted when it    *)
(* reads the same byte of every other member.  In RAID6 each has a          *)
(* coefficient of its own in Q, so that any two of them can be solved for;  *)
(* where the data follow Q round the members, chunk k of the stripe has the *)
(* kth (stripe, _raid6_slots).                                              *)
StripesAreWhole ==
    g.level \in {"4", "5", "6"} =>
        /\ \A x \in 0..(Read - 1) :
              \E p \in parities :
                 /\ {q \in parities : q[1] = x} = {p}
                 /\ p[1] = x /\ p[2] # p[3]
                 /\ {r \in RolesOf(g) : <<r, x>> \in All} = RolesOf(g) \ {p[2], p[3]}
        /\ g.level = "6" => \A p \in parities : SlotsAreApart(p)

(* Every chunk with a copy in a bad range is among those unreadable() reads *)
(* to find what no copy supplies.                                           *)
CandidatesSuffice ==
    g.level = "10" /\ off > 0 =>
        \A p \in piece :
            \A s \in {p[2], Max({0, p[2] - g.chunk})} :
                (off - 1) \div g.chunk \in Candidates10(g, s, p[2] + 1)

(* An array of RAID10 that _md_judge() does not refuse for its missing      *)
(* members has a copy of every chunk, far beyond the first n it looks at.   *)
EnoughCopies ==
    g.level = "10" /\ off > 0 =>
        \A gone \in SUBSET RolesOf(g) :
            ShortOfCopies(g, gone) \/ \E p \in piece : p[1] \notin gone

-----------------------------------------------------------------------------
(* Where the device mapper has a sector of a volume with these segments:    *)
(* chunk i of a segment is on stripe i mod n, in row i div n of it.         *)
Mapped(v, segs, at) ==
    LET s == segs[CHOOSE i \in DOMAIN segs :
                     segs[i].start * v.ext <= at /\ at < (segs[i].start + segs[i].count) * v.ext]
        x == at - s.start * v.ext
        n == Len(s.areas)
        stripe == IF n = 1 THEN s.count * v.ext ELSE s.stripe
        c == x \div stripe
    IN At(v, s.areas[(c % n) + 1]) + (c \div n) * stripe + (x % stripe)

(* The volume whose segments are read: of a mirror, the first of its copies.*)
Copied(v, lv) == IF Mirrored(v, lv) THEN v.lvs[lv][1].areas[Min(Legs(v, lv))].on ELSE lv

(* Every sector of a logical volume is read from where the device mapper    *)
(* has it: the piece read at once from off, which may go on over the joint  *)
(* of segments made one run, gives for each sector of the volume the one    *)
(* its own segment puts there, and a copy of a mirror that is cut to its    *)
(* size gives no other (_lvm_layout, _lvm_copy, LvmMap).                    *)
ReadWhereMapped ==
    g.level = "lvm" /\ off < Size(g) =>
        LET here == LvmPlace(Volume(g), off)
            segs == g.layout.lvs[Copied(g.layout, g.layout.volume)]
        IN \A i \in 0..(Min({here.run, Size(g) - off}) - 1) : here.at + i = Mapped(g.layout, segs, off + i)
=============================================================================
