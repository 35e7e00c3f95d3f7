------------------------- MODULE VirtualDisks_proof -------------------------
(***************************************************************************)
(* Proofs about virtual disks: a chain of differencing disks reads as the   *)
(* guest left it, and one that is all there is read (DiskChain).            *)
(*                                                                          *)
(* Then, from the line that says so, about the log of a VHDX: what its      *)
(* writer keeps, and that a reader finds an atomic store (VhdxLog).         *)
(***************************************************************************)
EXTENDS DiskChain, VhdxLog, Numbers_proof, SequenceTheorems

-----------------------------------------------------------------------------
(* What the host keeps.  A disk's version holds, for each block, an entry   *)
(* and what the guest saw; the entry says where what was seen comes from.   *)
Seeing == [Sectors -> Nat]
Entry == [is : {"absent", "stored", "zero"}, at : Nat, own : SUBSET Sectors,
          zeros : SUBSET Sectors, data : Seeing]
Version == [base : [disk : Nat, version : Nat], table : Seq(Entry), view : Seq(Seeing)]

Source(base, e, s) == From([disk |-> [base |-> base]], e, s)

Under(base, b, s) ==
    IF base = None THEN 0
    ELSE IF b \in 1..Len(disks[base.disk][base.version].view)
    THEN disks[base.disk][base.version].view[b][s] ELSE 0

Shown(base, e, b, s) ==
    IF Source(base, e, s) = "zeros" THEN 0
    ELSE IF Source(base, e, s) = "below" THEN Under(base, b, s)
    ELSE e.data[s]

Plain(e) == (e.is # "stored" => e.own = {}) /\ (kind = "VHD" => e.is # "zero")

RawEntry(e) == e.is = "stored" /\ e.at = 1 /\ e.own = Sectors

There(base) == base.disk \in 1..Len(disks) /\ base.version \in 1..Len(disks[base.disk])

(* What is seen of a block is what its entry, and what is under it, say.    *)
BlockKept(d, n, b) ==
    /\ Plain(d.table[b])
    /\ Raw(n) => b = 1 /\ RawEntry(d.table[b])
    /\ \A s \in Sectors : d.view[b][s] = Shown(d.base, d.table[b], b, s)

VersionKept(d, n) ==
    /\ d \in Version
    /\ Len(d.view) = Len(d.table) /\ Len(d.table) # 0
    /\ d.base # None => There(d.base) /\ d.base.disk < n
    /\ \A b \in 1..Len(d.table) : BlockKept(d, n, b)

DisksKept ==
    /\ kind \in Kinds /\ flat \in BOOLEAN
    /\ disks \in Seq(Seq(Version)) /\ Len(disks) # 0
    /\ \A n \in 1..Len(disks) : Len(disks[n]) # 0
    /\ \A n \in 1..Len(disks) : \A v \in 1..Len(disks[n]) : VersionKept(disks[n][v], n)

FileKept(f) ==
    /\ f.n \in 1..Len(disks) /\ f.version \in 1..Len(disks[f.n])
    /\ f.disk = disks[f.n][f.version]
    /\ f.places = Places(f.disk) /\ f.kept \in Int /\ f.kept <= f.places

FilesKept == \A path \in Copied : FileKept(files[path])

HostInv == DisksKept /\ FilesKept

-----------------------------------------------------------------------------
(* One block.                                                               *)
EntryWritten(e, base, view, s, new, at) ==
    IF e.is = "stored"
    THEN [e EXCEPT !.own = @ \cup {s}, !.zeros = @ \ {s}, !.data[s] = new]
    ELSE LET partly == kind \in Bitmaps /\ base # None /\ (e.is = "absent" \/ kind = "QCOWX")
         IN [is |-> "stored", at |-> at, own |-> IF partly THEN {s} ELSE Sectors, zeros |-> e.zeros \ {s},
             data |-> [(IF partly THEN Nothing ELSE view) EXCEPT ![s] = new]]

(* What is seen of a block is what its entry gives.                         *)
Seen(view, base, e, b) ==
    /\ e \in Entry /\ Plain(e) /\ view \in Seeing
    /\ \A s \in Sectors : view[s] = Shown(base, e, b, s)

(* A sector that is written is seen, and the others as they were.           *)
LEMMA WrittenIsSeen ==
    ASSUME kind \in Kinds, NEW e, NEW base, NEW b, NEW view, Seen(view, base, e, b),
           NEW s \in Sectors, NEW new \in Nat, NEW at \in Nat,
           NEW entry, entry = EntryWritten(e, base, view, s, new, at),
           NEW seen, seen = [view EXCEPT ![s] = new]
    PROVE  Seen(seen, base, entry, b) /\ (RawEntry(e) => RawEntry(entry))
<1>1. kind \in {"VHD", "VHDX", "VMDK", "QCOW", "QCOWX"}
  BY HostAssumption
<1>2. e \in Entry /\ Plain(e) /\ view \in Seeing /\ \A t \in Sectors : view[t] = Shown(base, e, b, t)
  BY DEF Seen
<1>3. seen \in Seeing /\ \A t \in Sectors : seen[t] = IF t = s THEN new ELSE view[t]
  BY <1>2 DEF Seeing
<1>4. CASE e.is = "stored"
  <2>1. /\ entry.is = "stored" /\ entry.at = e.at /\ entry.own = e.own \cup {s}
        /\ entry.zeros = e.zeros \ {s} /\ entry.data = [e.data EXCEPT ![s] = new] /\ entry \in Entry
    BY <1>2, <1>4 DEF EntryWritten, Entry, Seeing
  <2>2. Plain(entry) /\ (RawEntry(e) => RawEntry(entry))
    BY <2>1 DEF Plain, RawEntry
  <2>3. ASSUME NEW t \in Sectors PROVE seen[t] = Shown(base, entry, b, t)
    <3>1. view[t] = Shown(base, e, b, t)
      BY <1>2
    <3>2. entry.data[t] = (IF t = s THEN new ELSE e.data[t]) /\ seen[t] = IF t = s THEN new ELSE view[t]
      BY <1>2, <1>3, <2>1 DEF Entry, Seeing
    <3>3. Source(base, entry, t) = IF t = s THEN "file" ELSE Source(base, e, t)
      BY <1>1, <1>4, <2>1 DEF Source, From, FromVhd, FromVhdx, FromVmdk, FromQcow
    <3> QED BY <3>1, <3>2, <3>3 DEF Shown
  <2> QED BY <1>3, <2>1, <2>2, <2>3 DEF Seen
<1>5. CASE e.is # "stored"
  <2> DEFINE partly == kind \in Bitmaps /\ base # None /\ (e.is = "absent" \/ kind = "QCOWX")
  <2>1. Nothing \in Seeing
    BY DEF Nothing, Seeing
  <2>2. /\ entry.is = "stored" /\ entry.own = (IF partly THEN {s} ELSE Sectors)
        /\ entry.zeros = e.zeros \ {s}
        /\ entry.data = [(IF partly THEN Nothing ELSE view) EXCEPT ![s] = new] /\ entry \in Entry
    <3>1. entry = [is |-> "stored", at |-> at, own |-> IF partly THEN {s} ELSE Sectors, zeros |-> e.zeros \ {s},
             data |-> [(IF partly THEN Nothing ELSE view) EXCEPT ![s] = new]]
      BY <1>5 DEF EntryWritten
    <3> HIDE DEF partly
    <3>2. (IF partly THEN Nothing ELSE view) \in Seeing
      BY <1>2, <2>1
    <3>3. [(IF partly THEN Nothing ELSE view) EXCEPT ![s] = new] \in Seeing
      BY <3>2 DEF Seeing
    <3>4. e.zeros \ {s} \in SUBSET Sectors /\ (IF partly THEN {s} ELSE Sectors) \in SUBSET Sectors
      BY <1>2 DEF Entry
    <3> QED BY <3>1, <3>3, <3>4 DEF Entry
  <2>3. Plain(entry) /\ ~RawEntry(e)
    BY <1>5, <2>2 DEF Plain, RawEntry
  <2>4. ASSUME NEW t \in Sectors PROVE seen[t] = Shown(base, entry, b, t)
    <3>1. view[t] = Shown(base, e, b, t) /\ e.own = {} /\ e.is \in {"absent", "zero"} /\ (kind = "VHD" => e.is = "absent")
      BY <1>2, <1>5 DEF Plain, Entry
    <3>2. seen[t] = IF t = s THEN new ELSE view[t]
      BY <1>3
    <3>3. CASE t = s
      <4>1. entry.data[t] = new
        <5> HIDE DEF partly
        <5>1. (IF partly THEN Nothing ELSE view) \in Seeing
          BY <1>2, <2>1
        <5> QED BY <2>2, <3>3, <5>1 DEF Seeing
      <4>2. s \in entry.own
        BY <2>2
      <4>3. Source(base, entry, t) = "file"
        BY <1>1, <2>2, <3>3, <4>2 DEF Source, From, FromVhd, FromVhdx, FromVmdk, FromQcow
      <4> QED BY <3>2, <3>3, <4>1, <4>3 DEF Shown
    <3>4. CASE t # s /\ partly
      <4>1. Source(base, entry, t) = Source(base, e, t) /\ Source(base, e, t) # "file"
        BY <1>1, <1>5, <2>2, <3>1, <3>4 DEF Source, From, FromVhd, FromVhdx, FromVmdk, FromQcow, Bitmaps
      <4>2. Source(base, e, t) \in {"file", "zeros", "below"}
        BY <1>1 DEF Source, From, FromVhd, FromVhdx, FromVmdk, FromQcow
      <4> QED BY <3>1, <3>2, <3>4, <4>1, <4>2 DEF Shown
    <3>5. CASE t # s /\ ~partly
      <4>1. Source(base, entry, t) = "file"
        BY <1>1, <2>2, <3>5 DEF Source, From, FromVhd, FromVhdx, FromVmdk, FromQcow
      <4>2. entry.data[t] = view[t]
        BY <1>2, <2>2, <3>5 DEF Seeing
      <4> QED BY <3>2, <3>5, <4>1, <4>2 DEF Shown
    <3> QED BY <3>3, <3>4, <3>5
  <2> HIDE DEF partly
  <2> QED BY <1>3, <2>2, <2>3, <2>4 DEF Seen
<1> QED BY <1>4, <1>5

(* A block that is zeroed is seen as zeros.                                 *)
LEMMA ZeroedIsSeen ==
    ASSUME kind \in Kinds, kind # "VHD", NEW base, NEW b,
           NEW entry, entry = [Absent EXCEPT !.is = "zero", !.zeros = Sectors]
    PROVE  Seen(Nothing, base, entry, b)
<1>1. kind \in {"VHD", "VHDX", "VMDK", "QCOW", "QCOWX"}
  BY HostAssumption
<1>2. Nothing \in Seeing /\ \A t \in Sectors : Nothing[t] = 0
  BY DEF Nothing, Seeing
<1>3. entry = [is |-> "zero", at |-> 0, own |-> {}, zeros |-> Sectors, data |-> Nothing]
  BY DEF Absent
<1>4. entry.is = "zero" /\ entry.own = {} /\ entry.zeros = Sectors
  BY ONLY <1>3
<1>5. entry \in Entry
  <2>1. [is |-> "zero", at |-> 0, own |-> {}, zeros |-> Sectors, data |-> Nothing] \in Entry
    BY <1>2 DEF Entry
  <2> QED BY <1>3, <2>1
<1>6. ASSUME NEW t \in Sectors PROVE Source(base, entry, t) = "zeros"
  BY ONLY <1>1, <1>4, kind # "VHD", t \in Sectors DEF Source, From, FromVhdx, FromVmdk, FromQcow
<1> QED BY <1>2, <1>4, <1>5, <1>6 DEF Shown, Plain, Seen

(* A block that is not there is seen as what is under it.                   *)
LEMMA AbsentIsSeen ==
    ASSUME kind \in Kinds
    PROVE  /\ Absent \in Entry /\ Plain(Absent) /\ Nothing \in Seeing
           /\ \A base, b : \A t \in Sectors : Shown(base, Absent, b, t) = Under(base, b, t)
<1>1. kind \in {"VHD", "VHDX", "VMDK", "QCOW", "QCOWX"}
  BY HostAssumption
<1>2. Nothing \in Seeing
  BY DEF Nothing, Seeing
<1>3. Absent \in Entry /\ Plain(Absent)
  BY <1>2 DEF Absent, Entry, Plain
<1>4. ASSUME NEW base, NEW t \in Sectors PROVE Source(base, Absent, t) = "below"
  BY <1>1 DEF Source, From, FromVhd, FromVhdx, FromVmdk, FromQcow, Absent
<1> QED BY <1>2, <1>3, <1>4 DEF Shown

-----------------------------------------------------------------------------
(* The places of a file, of which a raw one has one.                        *)
LEMMA FiniteHasGreatest ==
    ASSUME NEW S, S \subseteq Nat, S # {}, IsFiniteSet(S)
    PROVE  Max(S) \in S /\ \A x \in S : x <= Max(S)
<1> DEFINE n == Cardinality(S)
<1>1. /\ n \in Nat /\ Ascending(S) \in [1..n -> S]
      /\ \A i, j \in 1..n : i < j => Ascending(S)[i] < Ascending(S)[j]
      /\ \A x \in S : \E i \in 1..n : Ascending(S)[i] = x
  BY AscendingIs
<1> HIDE DEF n
<1>2. n \in 1..n
  <2>1. PICK x \in S : TRUE
    OBVIOUS
  <2>2. PICK i \in 1..n : Ascending(S)[i] = x
    BY <1>1
  <2> QED BY <1>1, <2>2
<1> DEFINE m == Ascending(S)[n]
<1>3. m \in Nat /\ \A x \in S : x <= m
  <2>1. m \in S
    BY <1>1, <1>2
  <2>2. ASSUME NEW x \in S PROVE x <= m
    <3>1. PICK i \in 1..n : Ascending(S)[i] = x
      BY <1>1
    <3>2. i = n \/ i < n
      BY <1>1
    <3>3. m \in Nat /\ x \in Nat
      BY <2>1
    <3>4. i < n => x < m
      BY <1>1, <1>2, <3>1
    <3> QED BY <3>1, <3>2, <3>3, <3>4
  <2> QED BY <2>1, <2>2
<1> HIDE DEF m
<1> QED BY <1>3, GreatestOf

LEMMA PlacesOf ==
    ASSUME NEW d \in Version
    PROVE  /\ Places(d) \in Nat
           /\ \A b \in 1..Len(d.table) : d.table[b].at <= Places(d)
           /\ Len(d.table) = 1 /\ RawEntry(d.table[1]) => Places(d) = 1
<1> DEFINE D == 1..Len(d.table)
           T == {d.table[b].at : b \in D}
           S == {0} \cup T
<1>1. Len(d.table) \in Nat /\ DOMAIN d.table = D /\ \A b \in D : d.table[b] \in Entry
  BY DEF Version
<1>2. \A b \in D : d.table[b].at \in Nat
  BY <1>1 DEF Entry
<1>3. IsFiniteSet(T)
  <2> DEFINE f == [b \in D |-> d.table[b].at]
  <2>1. f \in Surjection(D, T)
    BY DEF Surjection
  <2>2. IsFiniteSet(D)
    BY <1>1, FS_Interval
  <2> HIDE DEF f, D, T
  <2> QED BY <2>1, <2>2, FS_Surjection
<1>4. S \subseteq Nat /\ S # {}
  BY <1>2
<1>5. IsFiniteSet(S)
  <2>1. S = T \cup {0}
    OBVIOUS
  <2> HIDE DEF T, S
  <2> QED BY <1>3, <2>1, FS_AddElement
<1>6. Places(d) = Max(S)
  BY <1>1 DEF Places
<1>7. Max(S) \in S /\ \A x \in S : x <= Max(S)
  <2> HIDE DEF S
  <2> QED BY <1>4, <1>5, FiniteHasGreatest
<1>8. Places(d) \in Nat
  BY <1>4, <1>6, <1>7
<1>9. ASSUME Len(d.table) = 1, RawEntry(d.table[1]) PROVE Places(d) = 1
  <2>1. S = {0, 1}
    BY <1>9 DEF RawEntry
  <2> HIDE DEF S
  <2> QED BY <1>6, <1>7, <2>1
<1>10. \A b \in D : d.table[b].at \in S
  OBVIOUS
<1> HIDE DEF S
<1> QED BY <1>6, <1>7, <1>8, <1>9, <1>10

-----------------------------------------------------------------------------
(* Disks only grow: no version changes any more.                            *)
Grown ==
    /\ kind' = kind /\ flat' = flat
    /\ Len(disks) <= Len(disks')
    /\ \A n \in 1..Len(disks) : Len(disks[n]) <= Len(disks'[n])
    /\ \A n \in 1..Len(disks) : \A v \in 1..Len(disks[n]) : disks'[n][v] = disks[n][v]

LEMMA GrownKeeps ==
    ASSUME Grown, disks \in Seq(Seq(Version)), disks' \in Seq(Seq(Version)), NEW d, NEW n, VersionKept(d, n)
    PROVE  VersionKept(d, n)'
<1>1. d \in Version
  BY DEF VersionKept
<1>2. Len(disks) \in Nat /\ Len(disks') \in Nat /\ \A i \in 1..Len(disks) : disks[i] \in Seq(Version) /\ disks'[i] \in Seq(Version)
  BY DEF Grown
<1>3. \A i \in 1..Len(disks) : Len(disks[i]) \in Nat /\ Len(disks'[i]) \in Nat
  BY <1>2
<1>4. d.base # None => There(d.base)' /\ disks'[d.base.disk][d.base.version] = disks[d.base.disk][d.base.version]
  <2>1. SUFFICES ASSUME d.base # None PROVE There(d.base)' /\ disks'[d.base.disk][d.base.version] = disks[d.base.disk][d.base.version]
    OBVIOUS
  <2>2. There(d.base)
    BY <2>1 DEF VersionKept
  <2>3. d.base.disk \in 1..Len(disks) /\ d.base.version \in 1..Len(disks[d.base.disk])
    BY <2>2 DEF There
  <2>4. Len(disks[d.base.disk]) <= Len(disks'[d.base.disk]) /\ Len(disks) <= Len(disks')
    BY <2>3 DEF Grown
  <2>5. d.base.disk \in 1..Len(disks')
    BY <1>2, <2>3, <2>4
  <2>6. d.base.version \in 1..Len(disks'[d.base.disk])
    <3>1. PICK k : k = d.base.disk
      OBVIOUS
    <3>2. /\ Len(disks[k]) \in Nat /\ Len(disks'[k]) \in Nat /\ Len(disks[k]) <= Len(disks'[k])
          /\ d.base.version \in 1..Len(disks[k])
      BY <1>3, <2>3, <2>4, <3>1
    <3>3. d.base.version \in 1..Len(disks'[k])
      BY <3>2
    <3> QED BY <3>1, <3>3
  <2> QED BY <2>3, <2>5, <2>6 DEF There, Grown
<1>5. \A b, s : Under(d.base, b, s)' = Under(d.base, b, s)
  BY <1>4 DEF Under
<1>6. \A e, s : Source(d.base, e, s)' = Source(d.base, e, s)
  BY DEF Grown, Source, From, FromVhd, FromVhdx, FromVmdk, FromQcow
<1>7. \A e, b, s : Shown(d.base, e, b, s)' = Shown(d.base, e, b, s)
  BY <1>5, <1>6 DEF Shown
<1>8. Raw(n)' = Raw(n)
  BY DEF Grown, Raw
<1>9. \A e : Plain(e)' = Plain(e)
  BY DEF Grown, Plain
<1>10. ASSUME NEW b \in 1..Len(d.table) PROVE BlockKept(d, n, b)'
  <2>1. BlockKept(d, n, b)
    BY DEF VersionKept
  <2> QED BY <1>7, <1>8, <1>9, <2>1 DEF BlockKept, RawEntry
<1> QED BY <1>4, <1>10 DEF VersionKept

LEMMA DisksKeptIf ==
    ASSUME DisksKept, Grown, disks' \in Seq(Seq(Version)),
           \A n \in 1..Len(disks') : Len(disks'[n]) # 0,
           \A n \in 1..Len(disks') : \A v \in 1..Len(disks'[n]) :
               \/ n \in 1..Len(disks) /\ v \in 1..Len(disks[n])
               \/ VersionKept(disks'[n][v], n)
    PROVE  DisksKept'
<1>1. kind' \in Kinds /\ flat' \in BOOLEAN /\ disks \in Seq(Seq(Version)) /\ Len(disks') # 0
  BY DEF DisksKept, Grown
<1>2. ASSUME NEW n \in 1..Len(disks'), NEW v \in 1..Len(disks'[n]), NEW d, d = disks'[n][v]
      PROVE  VersionKept(d, n)'
  <2>1. VersionKept(d, n)
    BY <1>2 DEF DisksKept, Grown
  <2> QED BY <1>1, <2>1, GrownKeeps
<1> QED BY <1>1, <1>2 DEF DisksKept

-----------------------------------------------------------------------------
(* The host's steps.                                                        *)
LEMMA InitKept == HostInit => HostInv
<1> SUFFICES ASSUME HostInit PROVE HostInv
  OBVIOUS
<1> DEFINE full == [is |-> "stored", at |-> 1, own |-> Sectors, zeros |-> {}, data |-> Nothing]
           first == IF flat THEN full ELSE Absent
           d == [base |-> None, table |-> <<first>>, view |-> <<Nothing>>]
<1>1. kind \in Kinds /\ flat \in BOOLEAN /\ disks = <<<<d>>>> /\ files = << >>
  BY DEF HostInit
<1>2. /\ Absent \in Entry /\ Plain(Absent) /\ Nothing \in Seeing
      /\ \A base, b : \A t \in Sectors : Shown(base, Absent, b, t) = Under(base, b, t)
  BY <1>1, AbsentIsSeen
<1>3. full \in Entry /\ Plain(full) /\ RawEntry(full)
  <2> HIDE DEF full
  <2>1. full \in Entry
    BY <1>2 DEF Entry, full
  <2>2. full.is = "stored" /\ full.at = 1 /\ full.own = Sectors
    BY DEF full
  <2> QED BY <2>1, <2>2 DEF Plain, RawEntry
<1>4. ASSUME NEW t \in Sectors PROVE Nothing[t] = Shown(None, full, 1, t)
  <2>1. kind \in {"VHD", "VHDX", "VMDK", "QCOW", "QCOWX"}
    BY <1>1, HostAssumption
  <2>2. full.is = "stored" /\ full.own = Sectors /\ full.data = Nothing
    OBVIOUS
  <2> HIDE DEF full
  <2>3. Source(None, full, t) = "file"
    BY <2>1, <2>2 DEF Source, From, FromVhd, FromVhdx, FromVmdk, FromQcow
  <2> QED BY <2>2, <2>3 DEF Shown
<1>5. ASSUME NEW t \in Sectors PROVE Nothing[t] = Shown(None, Absent, 1, t)
  BY <1>2 DEF Nothing, Under
<1> HIDE DEF full
<1>6. first \in Entry /\ Plain(first) /\ (Raw(1) => RawEntry(first)) /\ \A t \in Sectors : Nothing[t] = Shown(None, first, 1, t)
  BY <1>2, <1>3, <1>4, <1>5 DEF Raw
<1> HIDE DEF first
<1>7. VersionKept(d, 1)
  <2>1. d \in Version
    <3>1. <<first>> \in Seq(Entry) /\ <<Nothing>> \in Seq(Seeing) /\ None \in [disk : Nat, version : Nat]
      BY <1>2, <1>6 DEF None
    <3> QED BY <3>1 DEF Version
  <2>2. Len(d.view) = 1 /\ Len(d.table) = 1 /\ d.base = None /\ d.table[1] = first /\ d.view[1] = Nothing
    OBVIOUS
  <2> HIDE DEF d
  <2>3. \A b \in 1..Len(d.table) : BlockKept(d, 1, b)
    BY <1>6, <2>2 DEF BlockKept
  <2> QED BY <2>1, <2>2, <2>3 DEF VersionKept
<1> HIDE DEF d
<1>8. DisksKept
  <2>1. disks \in Seq(Seq(Version)) /\ Len(disks) = 1 /\ Len(disks[1]) = 1 /\ disks[1][1] = d
    BY <1>1, <1>7 DEF VersionKept
  <2> QED BY <1>1, <1>7, <2>1 DEF DisksKept
<1>9. FilesKept
  BY <1>1 DEF FilesKept, Copied
<1> QED BY <1>8, <1>9 DEF HostInv

(* A block that is changed.                                                 *)
LEMMA ChangeKeeps ==
    ASSUME HostInv, NEW n \in 1..Len(disks), NEW b \in 1..Len(Now(n).table), NEW entry, NEW seen,
           Seen(seen, Now(n).base, entry, b), Raw(n) => RawEntry(entry),
           Change(n, b, entry, seen)
    PROVE  HostInv'
<1>1. entry \in Entry /\ seen \in Seeing /\ Plain(entry)
  BY DEF Seen
<1>2. DisksKept /\ disks \in Seq(Seq(Version)) /\ Len(disks) \in Nat /\ Len(disks[n]) # 0
  BY DEF HostInv, DisksKept
<1>3. disks[n] \in Seq(Version) /\ Len(disks[n]) \in Nat
  BY <1>2
<1>4. PICK d : d = disks[n][Len(disks[n])]
  OBVIOUS
<1>5. Now(n) = d /\ d \in Version /\ VersionKept(d, n)
  <2>1. Len(disks[n]) \in 1..Len(disks[n])
    BY <1>2, <1>3
  <2>2. Now(n) = d
    BY <1>4 DEF Now, Last
  <2>3. VersionKept(d, n)
    BY <1>2, <1>4, <2>1 DEF DisksKept
  <2> QED BY <2>2, <2>3 DEF VersionKept
<1>6. PICK e : e = [d EXCEPT !.table[b] = entry, !.view[b] = seen]
  OBVIOUS
<1>7. disks' = [disks EXCEPT ![n] = Append(@, e)] /\ kind' = kind /\ flat' = flat /\ files' = files /\ files = << >>
  BY <1>5, <1>6 DEF Change
<1>8. VersionKept(e, n)
  <2>1. /\ d.table \in Seq(Entry) /\ d.view \in Seq(Seeing) /\ Len(d.view) = Len(d.table) /\ Len(d.table) # 0
        /\ d.base \in [disk : Nat, version : Nat] /\ b \in 1..Len(d.table)
    BY <1>5 DEF VersionKept, Version
  <2>2. /\ e.base = d.base /\ e.table = [d.table EXCEPT ![b] = entry] /\ e.view = [d.view EXCEPT ![b] = seen]
        /\ e \in Version
    <3>1. [d.table EXCEPT ![b] = entry] \in Seq(Entry) /\ [d.view EXCEPT ![b] = seen] \in Seq(Seeing)
      BY <1>1, <2>1
    <3> QED BY <1>5, <1>6, <3>1 DEF Version
  <2>3. /\ e.table \in Seq(Entry) /\ e.view \in Seq(Seeing) /\ Len(e.view) = Len(e.table) /\ Len(e.table) = Len(d.table)
    BY <1>1, <2>1, <2>2
  <2>4. ASSUME NEW c \in 1..Len(e.table) PROVE BlockKept(e, n, c)
    <3>1. BlockKept(d, n, c)
      BY <1>5, <2>3, <2>4 DEF VersionKept
    <3>2. CASE c = b
      <4>1. e.table[c] = entry /\ e.view[c] = seen
        BY <2>1, <2>2, <3>2
      <4>2. Raw(n) => c = 1
        BY <3>1 DEF BlockKept
      <4>3. \A t \in Sectors : seen[t] = Shown(d.base, entry, c, t)
        BY <1>5, <3>2 DEF Seen
      <4> QED BY <1>1, <2>2, <4>1, <4>2, <4>3 DEF BlockKept
    <3>3. CASE c # b
      <4>1. e.table[c] = d.table[c] /\ e.view[c] = d.view[c]
        BY <2>1, <2>2, <2>3, <3>3
      <4> QED BY <2>2, <3>1, <4>1 DEF BlockKept
    <3> QED BY <3>2, <3>3
  <2>5. e.base # None => There(e.base) /\ e.base.disk < n
    BY <1>5, <2>2 DEF VersionKept
  <2> QED BY <2>1, <2>2, <2>3, <2>4, <2>5 DEF VersionKept
<1>9. e \in Version
  BY <1>8 DEF VersionKept
<1>10. /\ disks' \in Seq(Seq(Version)) /\ Len(disks') = Len(disks)
      /\ \A i \in 1..Len(disks) : disks'[i] = IF i = n THEN Append(disks[n], e) ELSE disks[i]
  BY <1>2, <1>3, <1>7, <1>9
<1>11. Grown
  BY <1>2, <1>3, <1>7, <1>10 DEF Grown
<1>12. /\ \A i \in 1..Len(disks') : Len(disks'[i]) # 0
       /\ \A i \in 1..Len(disks') : \A v \in 1..Len(disks'[i]) :
               \/ i \in 1..Len(disks) /\ v \in 1..Len(disks[i])
               \/ VersionKept(disks'[i][v], i)
  <2>1. PICK w : w = Append(disks[n], e)
    OBVIOUS
  <2>2. /\ Len(w) = Len(disks[n]) + 1
        /\ \A v \in 1..Len(w) : w[v] = IF v = Len(disks[n]) + 1 THEN e ELSE disks[n][v]
    BY <1>3, <1>9, <2>1
  <2>3. \A i \in 1..Len(disks') : i \in 1..Len(disks) /\ disks'[i] = IF i = n THEN w ELSE disks[i]
    BY <1>10, <2>1
  <2>4. ASSUME NEW i \in 1..Len(disks') PROVE Len(disks'[i]) # 0
    <3>1. Len(disks[i]) # 0
      BY <1>2, <2>3 DEF DisksKept
    <3>2. Len(w) # 0
      BY <1>3, <2>2
    <3> QED BY <2>3, <3>1, <3>2
  <2>5. ASSUME NEW i \in 1..Len(disks'), NEW v \in 1..Len(disks'[i]), ~(v \in 1..Len(disks[i]))
        PROVE  VersionKept(disks'[i][v], i)
    <3>1. i = n /\ disks'[i] = w
      BY <2>3, <2>5
    <3>2. v = Len(disks[n]) + 1 /\ v \in 1..Len(w)
      BY <1>3, <2>2, <2>5, <3>1
    <3>3. disks'[i][v] = e
      BY <2>2, <3>1, <3>2
    <3> QED BY <1>8, <3>1, <3>3
  <2> QED BY <2>3, <2>4, <2>5
<1>13. DisksKept'
  BY <1>2, <1>10, <1>11, <1>12, DisksKeptIf
<1>14. FilesKept'
  BY <1>7 DEF FilesKept, Copied
<1> QED BY <1>13, <1>14 DEF HostInv

LEMMA WritesCounted ==
    ASSUME DisksKept
    PROVE  Writes \in Nat
<1> DEFINE f == [n \in 1..Len(disks) |-> Len(disks[n]) - 1]
<1>1. disks \in Seq(Seq(Version)) /\ Len(disks) \in Nat
  BY DEF DisksKept
<1>2. ASSUME NEW n \in 1..Len(disks) PROVE f[n] \in Nat
  <2>1. disks[n] \in Seq(Version) /\ Len(disks[n]) # 0 /\ Len(disks[n]) \in Nat
    BY <1>1 DEF DisksKept
  <2> QED BY <2>1
<1> HIDE DEF f
<1>3. Numbered(f, Len(disks))
  BY <1>2 DEF Numbered
<1>4. SumTo(f, Len(disks)) \in Nat
  BY <1>1, <1>3, SumToIs
<1> QED BY <1>4 DEF Writes, f

(* The version that is there now.                                           *)
LEMMA NowKept ==
    ASSUME DisksKept, NEW n \in 1..Len(disks)
    PROVE  /\ Now(n) = disks[n][Len(disks[n])] /\ Len(disks[n]) \in 1..Len(disks[n])
           /\ VersionKept(Now(n), n) /\ Now(n) \in Version
           /\ DOMAIN Now(n).table = 1..Len(Now(n).table) /\ DOMAIN Now(n).view = 1..Len(Now(n).view)
           /\ \A b \in 1..Len(Now(n).table) : Now(n).table[b] \in Entry /\ Now(n).view[b] \in Seeing
<1>1. disks \in Seq(Seq(Version)) /\ Len(disks[n]) # 0
  BY DEF DisksKept
<1>2. disks[n] \in Seq(Version) /\ Len(disks[n]) \in Nat
  BY <1>1
<1>3. Len(disks[n]) \in 1..Len(disks[n]) /\ Now(n) = disks[n][Len(disks[n])]
  BY <1>1, <1>2 DEF Now, Last
<1>4. PICK d : d = disks[n][Len(disks[n])]
  OBVIOUS
<1>5. VersionKept(d, n)
  BY <1>3, <1>4 DEF DisksKept
<1>6. d \in Version /\ Len(d.view) = Len(d.table)
  BY <1>5 DEF VersionKept
<1>7. d.table \in Seq(Entry) /\ d.view \in Seq(Seeing)
  BY <1>6 DEF Version
<1>8. /\ DOMAIN d.table = 1..Len(d.table) /\ DOMAIN d.view = 1..Len(d.view)
      /\ \A b \in 1..Len(d.table) : d.table[b] \in Entry /\ d.view[b] \in Seeing
  BY <1>6, <1>7
<1> QED BY <1>3, <1>4, <1>5, <1>6, <1>8

LEMMA WriteKeeps ==
    ASSUME HostInv, NEW n \in 1..Len(disks), NEW b \in DOMAIN Now(n).table, NEW s \in Sectors, Write(n, b, s)
    PROVE  HostInv'
<1>1. DisksKept
  BY DEF HostInv
<1>2. PICK d : d = Now(n)
  OBVIOUS
<1>3. /\ VersionKept(d, n) /\ d \in Version /\ b \in 1..Len(d.table)
      /\ d.table[b] \in Entry /\ d.view[b] \in Seeing
  BY <1>1, <1>2, NowKept
<1>4. PICK entry : entry = EntryWritten(d.table[b], d.base, d.view[b], s, Writes + 1, Places(d) + 1)
  OBVIOUS
<1>5. Change(n, b, entry, [d.view[b] EXCEPT ![s] = Writes + 1])
  BY <1>2, <1>4 DEF Write, EntryWritten
<1>6. BlockKept(d, n, b)
  BY <1>3 DEF VersionKept
<1>7. Writes + 1 \in Nat /\ Places(d) + 1 \in Nat /\ kind \in Kinds
  BY <1>1, <1>3, WritesCounted, PlacesOf DEF DisksKept
<1>8. Seen(d.view[b], d.base, d.table[b], b) /\ (Raw(n) => RawEntry(d.table[b]))
  BY <1>3, <1>6 DEF BlockKept, Seen
<1>9. PICK seen : seen = [d.view[b] EXCEPT ![s] = Writes + 1]
  OBVIOUS
<1>10. Seen(seen, d.base, entry, b) /\ (RawEntry(d.table[b]) => RawEntry(entry))
  BY <1>4, <1>7, <1>8, <1>9, WrittenIsSeen
<1>11. b \in 1..Len(Now(n).table) /\ Seen(seen, Now(n).base, entry, b) /\ (Raw(n) => RawEntry(entry)) /\ Change(n, b, entry, seen)
  BY <1>2, <1>3, <1>5, <1>8, <1>9, <1>10
<1> QED BY <1>11, ChangeKeeps

LEMMA ZeroKeeps ==
    ASSUME HostInv, NEW n \in 1..Len(disks), NEW b \in DOMAIN Now(n).table, Zero(n, b)
    PROVE  HostInv'
<1>1. DisksKept /\ kind \in Kinds
  BY DEF HostInv, DisksKept
<1>2. b \in 1..Len(Now(n).table)
  BY <1>1, NowKept
<1>3. PICK entry : entry = [Absent EXCEPT !.is = "zero", !.zeros = Sectors]
  OBVIOUS
<1>4. kind # "VHD" /\ ~Raw(n) /\ Change(n, b, entry, Nothing)
  BY <1>3 DEF Zero
<1>5. Seen(Nothing, Now(n).base, entry, b)
  BY <1>1, <1>3, <1>4, ZeroedIsSeen
<1> QED BY <1>2, <1>4, <1>5, ChangeKeeps

LEMMA SnapshotKeeps ==
    ASSUME HostInv, NEW blocks \in 1..MaxBlocks, Snapshot(blocks)
    PROVE  HostInv'
<1>1. DisksKept /\ kind \in Kinds /\ disks \in Seq(Seq(Version)) /\ Len(disks) \in Nat /\ Len(disks) # 0
  BY DEF HostInv, DisksKept
<1>2. PICK n : n = Len(disks)
  OBVIOUS
<1>3. n \in 1..Len(disks) /\ n \in Nat /\ blocks \in Nat /\ blocks # 0
  BY <1>1, <1>2, HostAssumption
<1>4. PICK d : d = Now(n)
  OBVIOUS
<1>5. /\ d = disks[n][Len(disks[n])] /\ Len(disks[n]) \in 1..Len(disks[n])
      /\ d \in Version /\ VersionKept(d, n)
      /\ Len(d.view) = Len(d.table) /\ DOMAIN d.view = 1..Len(d.view)
      /\ \A b \in 1..Len(d.view) : d.view[b] \in Seeing
  BY <1>1, <1>3, <1>4, NowKept DEF VersionKept
<1> DEFINE base == [disk |-> n, version |-> Len(disks[n])]
           table == [b \in 1..blocks |-> Absent]
           view == [b \in 1..blocks |-> IF b \in DOMAIN d.view THEN d.view[b] ELSE Nothing]
           e == [base |-> base, table |-> table, view |-> view]
<1>6. /\ disks' = Append(disks, <<e>>) /\ files = << >> /\ files' = files
      /\ kind' = kind /\ flat' = flat
  BY <1>2, <1>4 DEF Snapshot
<1>7. /\ Absent \in Entry /\ Plain(Absent) /\ Nothing \in Seeing
      /\ \A c, b : \A t \in Sectors : Shown(c, Absent, b, t) = Under(c, b, t)
  BY <1>1, AbsentIsSeen
<1>8. There(base) /\ base # None /\ base \in [disk : Nat, version : Nat] /\ base.disk < n + 1
  BY <1>3, <1>5 DEF There, None
<1>9. ASSUME NEW b \in 1..blocks, NEW t \in Sectors PROVE view[b][t] = Under(base, b, t)
  <2>1. disks[base.disk][base.version] = d
    BY <1>5
  <2>2. Under(base, b, t) = IF b \in 1..Len(d.view) THEN d.view[b][t] ELSE 0
    BY <1>8, <2>1 DEF Under
  <2>3. Nothing[t] = 0
    BY DEF Nothing
  <2> QED BY <1>5, <2>2, <2>3
<1>10. /\ table \in Seq(Entry) /\ view \in Seq(Seeing) /\ Len(table) = blocks /\ Len(view) = blocks
       /\ \A b \in 1..blocks : table[b] = Absent
  <2>1. \A b \in 1..blocks : (IF b \in DOMAIN d.view THEN d.view[b] ELSE Nothing) \in Seeing
    BY <1>5, <1>7
  <2> QED BY <1>3, <1>7, <2>1
<1> HIDE DEF base, table, view
<1>11. e.base = base /\ e.table = table /\ e.view = view /\ e \in Version
  BY <1>8, <1>10 DEF Version
<1> HIDE DEF e
<1>12. VersionKept(e, n + 1)
  <2>1. ~Raw(n + 1)
    BY <1>3 DEF Raw
  <2>2. ASSUME NEW b \in 1..Len(e.table) PROVE BlockKept(e, n + 1, b)
    <3>1. b \in 1..blocks /\ e.table[b] = Absent /\ e.view[b] = view[b]
      BY <1>10, <1>11
    <3>2. \A t \in Sectors : e.view[b][t] = Shown(e.base, e.table[b], b, t)
      BY <1>7, <1>9, <1>11, <3>1
    <3> QED BY <1>7, <2>1, <3>1, <3>2 DEF BlockKept
  <2> QED BY <1>3, <1>8, <1>10, <1>11, <2>2 DEF VersionKept
<1>13. PICK w : w = <<e>>
  OBVIOUS
<1>14. w \in Seq(Version) /\ Len(w) = 1 /\ w[1] = e
  BY <1>11, <1>13
<1>15. /\ disks' \in Seq(Seq(Version)) /\ Len(disks') = n + 1
       /\ \A i \in 1..(n + 1) : disks'[i] = IF i = n + 1 THEN w ELSE disks[i]
  BY <1>1, <1>2, <1>6, <1>13, <1>14
<1>16. Grown
  <2>1. \A i \in 1..n : disks'[i] = disks[i] /\ Len(disks[i]) \in Nat
    <3>1. ASSUME NEW i \in 1..n PROVE disks'[i] = disks[i] /\ Len(disks[i]) \in Nat
      <4>1. i \in 1..(n + 1) /\ i # n + 1
        BY <1>3
      <4>2. disks[i] \in Seq(Version)
        BY <1>1, <1>2
      <4> QED BY <1>15, <4>1, <4>2
    <3> QED BY <3>1
  <2> QED BY <1>2, <1>3, <1>6, <1>15, <2>1 DEF Grown
<1>17. /\ \A i \in 1..Len(disks') : Len(disks'[i]) # 0
       /\ \A i \in 1..Len(disks') : \A v \in 1..Len(disks'[i]) :
               \/ i \in 1..Len(disks) /\ v \in 1..Len(disks[i])
               \/ VersionKept(disks'[i][v], i)
  <2>1. ASSUME NEW i \in 1..Len(disks') PROVE Len(disks'[i]) # 0
    <3>1. CASE i = n + 1
      <4>1. disks'[i] = w
        BY <1>3, <1>15, <3>1
      <4>2. Len(w) # 0
        BY <1>14
      <4> QED BY <4>1, <4>2
    <3>2. CASE i # n + 1
      <4>1. i \in 1..Len(disks) /\ disks'[i] = disks[i]
        BY <1>2, <1>3, <1>15, <3>2
      <4> QED BY <1>1, <4>1 DEF DisksKept
    <3> QED BY <3>1, <3>2
  <2>2. ASSUME NEW i \in 1..Len(disks'), NEW v \in 1..Len(disks'[i]), ~(i \in 1..Len(disks) /\ v \in 1..Len(disks[i]))
        PROVE  VersionKept(disks'[i][v], i)
    <3>1. i = n + 1
      BY <1>2, <1>3, <1>15, <2>2
    <3>2. disks'[i] = w
      BY <1>3, <1>15, <3>1
    <3>3. v = 1
      <4>1. v \in 1..Len(w)
        BY <3>2
      <4> QED BY <1>14, <4>1
    <3> QED BY <1>12, <1>14, <3>1, <3>2, <3>3
  <2> QED BY <2>1, <2>2
<1>18. DisksKept'
  BY <1>1, <1>15, <1>16, <1>17, DisksKeptIf
<1>19. FilesKept'
  BY <1>6 DEF FilesKept, Copied
<1> QED BY <1>18, <1>19 DEF HostInv

LEMMA FilesOnlyKeep ==
    ASSUME HostInv, kind' = kind, flat' = flat, disks' = disks,
           \A path \in DOMAIN files' : FileKept(files'[path])
    PROVE  HostInv'
<1>1. DisksKept'
  <2>1. DisksKept /\ disks \in Seq(Seq(Version)) /\ disks' \in Seq(Seq(Version))
    BY DEF HostInv, DisksKept
  <2>2. \A n \in 1..Len(disks) : Len(disks[n]) # 0 /\ Len(disks[n]) \in Nat
    BY <2>1 DEF DisksKept
  <2>3. Grown
    BY <2>1, <2>2 DEF Grown
  <2> QED BY <2>1, <2>2, <2>3, DisksKeptIf
<1>2. FilesKept'
  BY DEF FilesKept, FileKept, Copied, Places
<1> QED BY <1>1, <1>2 DEF HostInv

LEMMA CopyKeeps ==
    ASSUME HostInv, NEW path, NEW n \in 1..Len(disks), NEW v \in 1..Len(disks[n]), Copy(path, n, v)
    PROVE  HostInv'
<1> DEFINE d == disks[n][v]
           file == [n |-> n, version |-> v, disk |-> d, places |-> Places(d), kept |-> Places(d)]
<1>1. /\ files' = [p \in Copied \cup {path} |-> IF p = path THEN file ELSE files[p]]
      /\ kind' = kind /\ flat' = flat /\ disks' = disks
  BY DEF Copy
<1>2. d \in Version
  BY DEF HostInv, DisksKept, VersionKept
<1>3. Places(d) \in Nat
  BY <1>2, PlacesOf
<1>4. FileKept(file)
  BY <1>3 DEF FileKept
<1> HIDE DEF file
<1>5. \A p \in DOMAIN files' : FileKept(files'[p])
  BY <1>1, <1>4 DEF HostInv, FilesKept, Copied
<1> QED BY <1>1, <1>5, FilesOnlyKeep

LEMMA CutKeeps ==
    ASSUME HostInv, NEW path \in Copied, NEW kept \in -1..MaxBlocks, Cut(path, kept)
    PROVE  HostInv'
<1>1. /\ files' = [files EXCEPT ![path].kept = kept] /\ kept < files[path].kept /\ kept \in Int
      /\ kind' = kind /\ flat' = flat /\ disks' = disks
  BY HostAssumption DEF Cut
<1>2. \A p \in Copied : FileKept(files[p])
  BY DEF HostInv, FilesKept
<1>3. Places(files[path].disk) \in Nat
  <2>1. files[path].disk \in Version
    BY <1>2 DEF FileKept, HostInv, DisksKept, VersionKept
  <2> QED BY <2>1, PlacesOf
<1>4. PICK f : f = files'[path]
  OBVIOUS
<1>5. /\ f.n = files[path].n /\ f.version = files[path].version /\ f.disk = files[path].disk
      /\ f.places = files[path].places /\ f.kept \in Int /\ f.kept <= files[path].places
  <2>1. FileKept(files[path])
    BY <1>2
  <2>2. f = [files[path] EXCEPT !.kept = kept]
    BY <1>1, <1>4 DEF Copied
  <2>3. files[path].places \in Int /\ files[path].kept \in Int /\ files[path].kept <= files[path].places
    BY <1>3, <2>1 DEF FileKept
  <2>4. f.kept \in {kept, files[path].kept}
    BY <2>2
  <2>5. f.kept \in Int /\ f.kept <= files[path].places
    BY <1>1, <2>3, <2>4
  <2> QED BY <2>2, <2>5
<1>6. FileKept(f)
  BY <1>2, <1>5 DEF FileKept
<1>7. \A p \in DOMAIN files' : FileKept(files'[p])
  BY <1>1, <1>2, <1>4, <1>6 DEF Copied
<1> QED BY <1>1, <1>7, FilesOnlyKeep

(* What the host and the person who copies keep: each version of a disk     *)
(* holds what the guest saw, with what was under it then, and each copy is  *)
(* of a version.                                                            *)
THEOREM HostKept == ChainSpec => []HostInv
<1>1. HostInit => HostInv
  BY InitKept
<1>2. HostInv /\ [HostNext]_host => HostInv'
  <2> SUFFICES ASSUME HostInv, [HostNext]_host PROVE HostInv'
    OBVIOUS
  <2>1. ASSUME NEW n \in 1..Len(disks), NEW b \in DOMAIN Now(n).table, NEW s \in Sectors, Write(n, b, s)
        PROVE  HostInv'
    BY <2>1, WriteKeeps
  <2>2. ASSUME NEW n \in 1..Len(disks), NEW b \in DOMAIN Now(n).table, Zero(n, b) PROVE HostInv'
    BY <2>2, ZeroKeeps
  <2>3. ASSUME NEW blocks \in 1..MaxBlocks, Snapshot(blocks) PROVE HostInv'
    BY <2>3, SnapshotKeeps
  <2>4. ASSUME NEW path \in Paths \ Copied, NEW n \in 1..Len(disks), NEW v \in 1..Len(disks[n]), Copy(path, n, v)
        PROVE  HostInv'
    BY <2>4, CopyKeeps
  <2>5. ASSUME NEW path \in Copied, NEW kept \in -1..MaxBlocks, Cut(path, kept) PROVE HostInv'
    BY <2>5, CutKeeps
  <2>6. CASE UNCHANGED host
    <3>1. kind' = kind /\ flat' = flat /\ disks' = disks /\ files' = files
      BY <2>6 DEF host
    <3>2. \A p \in DOMAIN files' : FileKept(files'[p])
      BY <3>1 DEF HostInv, FilesKept, Copied
    <3> QED BY <3>1, <3>2, FilesOnlyKeep
  <2> QED BY <2>1, <2>2, <2>3, <2>4, <2>5, <2>6 DEF HostNext
<1> QED BY <1>1, <1>2, PTL DEF ChainSpec

-----------------------------------------------------------------------------
(* A disk that is opened.  Each file of its chain but the topmost is one    *)
(* that the file over it takes for its base.                                *)
BaseOf(path) == files[path].disk.base

OverRaw(path) == kind \in Qcow /\ Raw(BaseOf(path).disk)

Joined(chain) ==
    \A i \in 2..Len(chain) :
        BaseOf(chain[i - 1]) # None /\ (IsBase(files[chain[i]], BaseOf(chain[i - 1])) \/ OverRaw(chain[i - 1]))

Grounded(chain) ==
    \/ BaseOf(chain[Len(chain)]) = None
    \/ Len(chain) > 1 /\ OverRaw(chain[Len(chain) - 1])

Linked(path, chain) ==
    /\ chain \in Seq(Copied) /\ Len(chain) # 0 /\ chain[1] = path
    /\ Joined(chain) /\ Grounded(chain)

Answers(given, path) == given.refused = "" => Linked(path, given.chain)

LEMMA LinkedOne ==
    ASSUME NEW path \in Copied, BaseOf(path) = None
    PROVE  Linked(path, <<path>>)
<1>1. PICK chain : chain = <<path>>
  OBVIOUS
<1>2. chain \in Seq(Copied) /\ Len(chain) = 1 /\ chain[1] = path
  BY <1>1
<1>3. Linked(path, chain)
  BY <1>2 DEF Linked, Joined, Grounded
<1> QED BY <1>1, <1>3

LEMMA LinkedRaw ==
    ASSUME NEW path \in Copied, NEW c \in Copied, BaseOf(path) # None, OverRaw(path)
    PROVE  Linked(path, <<path, c>>)
<1>1. PICK chain : chain = <<path, c>>
  OBVIOUS
<1>2. chain \in Seq(Copied) /\ Len(chain) = 2 /\ chain[1] = path /\ chain[2] = c
  BY <1>1
<1>3. \A i \in 2..Len(chain) : i = 2
  BY <1>2
<1>4. Linked(path, chain)
  BY <1>2, <1>3 DEF Linked, Joined, Grounded
<1> QED BY <1>1, <1>4

LEMMA LinkedMore ==
    ASSUME NEW path \in Copied, NEW c, NEW under, Linked(c, under),
           BaseOf(path) # None, IsBase(files[c], BaseOf(path))
    PROVE  Linked(path, <<path>> \o under)
<1>1. PICK chain : chain = <<path>> \o under
  OBVIOUS
<1>2. under \in Seq(Copied) /\ Len(under) \in Nat /\ Len(under) # 0 /\ under[1] = c
  BY DEF Linked
<1>3. /\ chain \in Seq(Copied) /\ Len(chain) = Len(under) + 1 /\ chain[1] = path
      /\ \A i \in 2..Len(chain) : chain[i] = under[i - 1]
  BY <1>1, <1>2
<1>4. Joined(chain)
  <2>1. ASSUME NEW i \in 2..Len(chain)
        PROVE  BaseOf(chain[i - 1]) # None /\ (IsBase(files[chain[i]], BaseOf(chain[i - 1])) \/ OverRaw(chain[i - 1]))
    <3>1. CASE i = 2
      BY <1>2, <1>3, <3>1
    <3>2. CASE i # 2
      <4>1. PICK k : k = i - 1
        OBVIOUS
      <4>2. k \in 2..Len(under) /\ chain[i] = under[k] /\ chain[i - 1] = under[k - 1]
        BY <1>2, <1>3, <3>2, <4>1
      <4> QED BY <4>2 DEF Linked, Joined
    <3> QED BY <3>1, <3>2
  <2> QED BY <2>1 DEF Joined
<1>5. Grounded(chain)
  <2>1. chain[Len(chain)] = under[Len(under)]
    BY <1>2, <1>3
  <2>2. Len(under) > 1 => Len(chain) > 1 /\ chain[Len(chain) - 1] = under[Len(under) - 1]
    BY <1>2, <1>3
  <2> QED BY <2>1, <2>2 DEF Linked, Grounded
<1> QED BY <1>1, <1>3, <1>4, <1>5, <1>2 DEF Linked

LEMMA GivenAnswers ==
    ASSUME NEW path \in Copied, NEW opening, NEW c, NEW parent, BaseOf(path) # None,
           c \in Copied => Answers(parent, c)
    PROVE  Answers(Given(path, opening, c, parent), path)
<1>1. PICK given : given = Given(path, opening, c, parent)
  OBVIOUS
<1>2. CASE c \in Copied /\ c \notin opening /\ OverRaw(path)
  <2>1. given.refused = "" /\ given.chain = <<path, c>>
    BY <1>1, <1>2 DEF Given, OverRaw, BaseOf, Opened
  <2> QED BY <1>1, <1>2, <2>1, LinkedRaw DEF Answers
<1>3. CASE /\ c \in Copied /\ c \notin opening /\ ~OverRaw(path)
           /\ ~(kind \notin Qcow /\ ~OfItsKind(files[c])) /\ parent.refused = "" /\ IsBase(files[c], BaseOf(path))
  <2>1. given.refused = "" /\ given.chain = <<path>> \o parent.chain
    BY <1>1, <1>3 DEF Given, OverRaw, BaseOf, Opened
  <2>2. Linked(c, parent.chain)
    BY <1>3 DEF Answers
  <2>3. Linked(path, <<path>> \o parent.chain)
    BY <1>3, <2>2, LinkedMore
  <2> QED BY <1>1, <2>1, <2>3 DEF Answers
<1>4. CASE given.refused # ""
  BY <1>1, <1>4 DEF Answers
<1>5. given.refused # "" \/ /\ c \in Copied /\ c \notin opening
                            /\ \/ OverRaw(path)
                               \/ /\ ~OverRaw(path)
                                  /\ ~(kind \notin Qcow /\ ~OfItsKind(files[c])) /\ parent.refused = "" /\ IsBase(files[c], BaseOf(path))
  BY <1>1 DEF Given, Refused, OverRaw, BaseOf
<1> QED BY <1>2, <1>3, <1>4, <1>5

LEMMA TakenAnswers ==
    ASSUME NEW path, NEW first, NEW second, Answers(first, path), Answers(second, path)
    PROVE  Answers(Taken(first, second), path)
<1>1. Refused("parentless").refused # ""
  BY DEF Refused
<1> QED BY <1>1 DEF Taken, Answers

(* What is opened is linked, however deep it may go.                        *)
AllAnswer(opened) == \A path \in Copied : \A opening \in SUBSET Copied : Answers(opened[path][opening], path)

LEMMA OpenOverAnswers ==
    ASSUME NEW left \in Nat, NEW below, left # 0 => AllAnswer(below)
    PROVE  AllAnswer(OpenOver(left, below))
<1> SUFFICES ASSUME NEW path \in Copied, NEW opening \in SUBSET Copied
             PROVE  Answers(OpenOver(left, below)[path][opening], path)
  BY DEF AllAnswer
<1> DEFINE base == BaseOf(path)
           over == opening \cup {path}
           given(i) == Given(path, over, Candidates(path, base)[i], below[Candidates(path, base)[i]][over])
<1>1. OpenOver(left, below)[path][opening] =
        IF ~HoldsItself(files[path]) THEN Refused("cut")
        ELSE IF base = None THEN Opened(<<path>>)
        ELSE IF left = 0 THEN Refused("deep")
        ELSE Taken(given(1), given(2))
  BY DEF OpenOver, BaseOf
<1>2. Answers(Refused("cut"), path) /\ Answers(Refused("deep"), path)
  BY DEF Answers, Refused
<1>3. CASE base = None
  <2>1. Answers(Opened(<<path>>), path)
    BY <1>3, LinkedOne DEF Answers, Opened
  <2> HIDE DEF base, given
  <2> QED BY <1>1, <1>2, <1>3, <2>1
<1>4. CASE base # None /\ left = 0
  <2> HIDE DEF base, given
  <2> QED BY <1>1, <1>2, <1>4
<1>5. CASE base # None /\ left # 0
  <2>1. ASSUME NEW i PROVE Answers(given(i), path)
    <3>1. PICK c : c = Candidates(path, base)[i]
      OBVIOUS
    <3>2. PICK parent : parent = below[c][over]
      OBVIOUS
    <3>3. c \in Copied => Answers(parent, c)
      BY <1>5, <3>2 DEF AllAnswer
    <3>4. Answers(Given(path, over, c, parent), path)
      BY <1>5, <3>3, GivenAnswers
    <3> QED BY <3>1, <3>2, <3>4
  <2>2. Answers(Taken(given(1), given(2)), path)
    <3> HIDE DEF given
    <3> QED BY <2>1, TakenAnswers
  <2> HIDE DEF base, given
  <2> QED BY <1>1, <1>2, <1>5, <2>2
<1> QED BY <1>3, <1>4, <1>5

(* Opening is defined however deep it may go: by how deep.                  *)
Opens(open, n) == open = [left \in 0..n |-> OpenOver(left, open[left - 1])]

LEMMA DeepestIsAlike == \A x, y : OpenOver(0, x) = OpenOver(0, y)
  BY DEF OpenOver

LEMMA OpensDeeper ==
    ASSUME NEW n \in Nat, NEW open, Opens(open, n)
    PROVE  \E deeper : Opens(deeper, n + 1)
<1> DEFINE deeper == [left \in 0..(n + 1) |-> IF left = n + 1 THEN OpenOver(n + 1, open[n]) ELSE open[left]]
<1>1. ASSUME NEW left \in 0..(n + 1) PROVE deeper[left] = OpenOver(left, deeper[left - 1])
  <2>1. CASE left = n + 1
    <3>1. deeper[left] = OpenOver(left, open[n]) /\ left - 1 = n /\ deeper[n] = open[n]
      BY <2>1
    <3> HIDE DEF deeper
    <3> QED BY <3>1
  <2>2. CASE left = 0
    <3>1. deeper[left] = open[0] /\ open[0] = OpenOver(0, open[0 - 1])
      BY <2>2 DEF Opens
    <3> HIDE DEF deeper
    <3> QED BY <2>2, <3>1, DeepestIsAlike
  <2>3. CASE left \in 1..n
    <3>1. deeper[left] = open[left] /\ open[left] = OpenOver(left, open[left - 1]) /\ deeper[left - 1] = open[left - 1]
      BY <2>3 DEF Opens
    <3> HIDE DEF deeper
    <3> QED BY <3>1
  <2> HIDE DEF deeper
  <2> QED BY <2>1, <2>2, <2>3
<1>2. deeper = [left \in 0..(n + 1) |-> deeper[left]]
  OBVIOUS
<1> HIDE DEF deeper
<1>3. Opens(deeper, n + 1)
  BY <1>1, <1>2 DEF Opens
<1> QED BY <1>3

LEMMA OpensExist ==
    ASSUME NEW n \in Nat
    PROVE  \E open : Opens(open, n)
<1> DEFINE Has(m) == \E open : Opens(open, m)
           S == {m \in 0..n : ~Has(m)}
<1>1. SUFFICES ASSUME S # {} PROVE FALSE
  <2> HIDE DEF Has
  <2>1. Has(n)
    BY <1>1
  <2> QED BY <2>1 DEF Has
<1> HIDE DEF Has
<1>2. PICK m \in S : \A i \in S : m <= i
  <2>1. S \subseteq Nat
    OBVIOUS
  <2> QED BY <1>1, <2>1, LeastOf
<1>3. CASE m = 0
  <2> DEFINE open == [left \in 0..0 |-> OpenOver(left, 0)]
  <2>1. \A left \in 0..0 : left = 0
    OBVIOUS
  <2>2. \A left \in 0..0 : OpenOver(left, 0) = OpenOver(left, open[left - 1])
    <3> HIDE DEF open
    <3> QED BY <2>1, DeepestIsAlike
  <2>3. open = [left \in 0..0 |-> OpenOver(left, open[left - 1])]
    BY <2>2
  <2> HIDE DEF open
  <2>4. Opens(open, m)
    BY <1>3, <2>3 DEF Opens
  <2> QED BY <1>2, <2>4 DEF Has
<1>4. CASE m # 0
  <2> DEFINE k == m - 1
  <2>1. k \in 0..n /\ k \in Nat /\ k + 1 = m /\ ~(m <= k)
    BY <1>2, <1>4
  <2> HIDE DEF k
  <2>2. Has(k)
    BY <1>2, <2>1
  <2>3. PICK open : Opens(open, k)
    BY <2>2 DEF Has
  <2>4. \E deeper : Opens(deeper, k + 1)
    BY <2>1, <2>3, OpensDeeper
  <2> QED BY <1>2, <2>1, <2>4 DEF Has
<1> QED BY <1>3, <1>4

LEMMA OpensAnswer ==
    ASSUME NEW n \in Nat, NEW open, Opens(open, n), NEW k \in 0..n
    PROVE  AllAnswer(open[k])
<1> DEFINE S == {m \in 0..n : ~AllAnswer(open[m])}
<1>1. SUFFICES ASSUME S # {} PROVE FALSE
  OBVIOUS
<1>2. PICK m \in S : \A i \in S : m <= i
  <2>1. S \subseteq Nat
    OBVIOUS
  <2> QED BY <1>1, <2>1, LeastOf
<1>3. m \in 0..n /\ m \in Nat /\ open[m] = OpenOver(m, open[m - 1])
  BY <1>2 DEF Opens
<1>4. m # 0 => AllAnswer(open[m - 1])
  <2>1. SUFFICES ASSUME m # 0 PROVE AllAnswer(open[m - 1])
    OBVIOUS
  <2>2. m - 1 \in 0..n /\ ~(m <= m - 1)
    BY <1>3, <2>1
  <2> QED BY <1>2, <2>2
<1>5. AllAnswer(open[m])
  BY <1>3, <1>4, OpenOverAnswers
<1> QED BY <1>2, <1>5

LEMMA OpenAnswers ==
    ASSUME NEW path \in Copied
    PROVE  Answers(Open(path), path)
<1> DEFINE open == CHOOSE open : open = [left \in 0..MaxParents |-> OpenOver(left, open[left - 1])]
<1>1. MaxParents \in Nat
  BY ChainAssumption
<1>2. \E o : Opens(o, MaxParents)
  BY <1>1, OpensExist
<1>3. Opens(open, MaxParents)
  BY <1>2 DEF Opens
<1>4. Open(path) = open[MaxParents][path][{}]
  BY DEF Open
<1> HIDE DEF open
<1>5. MaxParents \in 0..MaxParents
  BY <1>1
<1>6. AllAnswer(open[MaxParents])
  BY <1>1, <1>3, <1>5, OpensAnswer
<1>7. Answers(open[MaxParents][path][{}], path)
  BY <1>6 DEF AllAnswer
<1> QED BY <1>4, <1>7

-----------------------------------------------------------------------------
(* What is read of a file of a chain, when what is under it is read.        *)
ViewOf(f, b, s) == IF b \in DOMAIN f.disk.view THEN f.disk.view[b][s] ELSE 0

(* A copy is of a version, in which what was seen is kept.                  *)
LEMMA FileIs ==
    ASSUME HostInv, NEW path \in Copied, NEW f, f = files[path]
    PROVE  /\ FileKept(f) /\ VersionKept(f.disk, f.n) /\ f.disk \in Version
           /\ DOMAIN f.disk.table = 1..Len(f.disk.table) /\ DOMAIN f.disk.view = 1..Len(f.disk.table)
           /\ Len(f.disk.table) \in Nat
<1>1. FileKept(f)
  BY DEF HostInv, FilesKept
<1>2. VersionKept(f.disk, f.n)
  BY <1>1 DEF FileKept, HostInv, DisksKept
<1>3. f.disk \in Version /\ Len(f.disk.view) = Len(f.disk.table)
  BY <1>2 DEF VersionKept
<1> QED BY <1>1, <1>2, <1>3 DEF Version

LEMMA SourceIs ==
    ASSUME NEW f, NEW e, NEW s
    PROVE  From(f, e, s) = Source(f.disk.base, e, s)
  BY DEF From, Source, FromVhd, FromVhdx, FromVmdk, FromQcow

(* A file that is not raw.                                                  *)
LEMMA FileReads ==
    ASSUME HostInv, NEW chain, NEW i, NEW path \in Copied, chain[i] = path,
           ~(i > 1 /\ Raw(files[chain[i - 1]].disk.base.disk)),
           NEW b, NEW s \in Sectors, NEW below, below \in {Under(BaseOf(path), b, s), Unread}
    PROVE  ReadFile(chain, i, b, s, below) \in {ViewOf(files[path], b, s), Unread}
<1>1. PICK f : f = files[path]
  OBVIOUS
<1>2. /\ VersionKept(f.disk, f.n)
      /\ DOMAIN f.disk.table = 1..Len(f.disk.table) /\ DOMAIN f.disk.view = 1..Len(f.disk.table)
  BY <1>1, FileIs
<1>3. PICK e : e = f.disk.table[b]
  OBVIOUS
<1>4. PICK from : from = Source(f.disk.base, e, s)
  OBVIOUS
<1>5. ReadFile(chain, i, b, s, below) =
        IF b \notin DOMAIN f.disk.table \/ from = "zeros" THEN 0
        ELSE IF from = "below" THEN below
        ELSE IF e.at > f.kept THEN Unread
        ELSE e.data[s]
  <2>1. From(f, e, s) = from
    BY <1>4, SourceIs
  <2> QED BY <1>1, <1>3, <2>1 DEF ReadFile
<1>6. CASE b \notin DOMAIN f.disk.table
  BY <1>1, <1>2, <1>5, <1>6 DEF ViewOf
<1>7. CASE b \in DOMAIN f.disk.table
  <2>1. BlockKept(f.disk, f.n, b)
    BY <1>2, <1>7 DEF VersionKept
  <2>2. f.disk.view[b][s] = Shown(f.disk.base, e, b, s)
    BY <1>3, <2>1 DEF BlockKept
  <2>3. f.disk.view[b][s] = IF from = "zeros" THEN 0 ELSE IF from = "below" THEN Under(f.disk.base, b, s) ELSE e.data[s]
    BY <1>4, <2>2 DEF Shown
  <2>4. ViewOf(f, b, s) = f.disk.view[b][s] /\ below \in {Under(f.disk.base, b, s), Unread}
    BY <1>1, <1>2, <1>7 DEF ViewOf, BaseOf
  <2> QED BY <1>1, <1>5, <1>7, <2>3, <2>4
<1> QED BY <1>6, <1>7

(* A raw file that is whole.                                                *)
LEMMA RawReads ==
    ASSUME HostInv, NEW path \in Copied, NEW f, f = files[path], Raw(f.n), ~(f.kept < f.places),
           NEW b \in Nat \ {0}, NEW s \in Sectors
    PROVE  ReadRaw(f, b, s) = ViewOf(f, b, s)
<1>1. /\ VersionKept(f.disk, f.n) /\ FileKept(f) /\ f.disk \in Version
      /\ DOMAIN f.disk.table = 1..Len(f.disk.table) /\ DOMAIN f.disk.view = 1..Len(f.disk.table)
  BY FileIs
<1>2. Len(f.disk.table) \in Nat /\ Len(f.disk.table) # 0 /\ \A c \in 1..Len(f.disk.table) : BlockKept(f.disk, f.n, c)
  BY <1>1 DEF VersionKept, Version
<1>3. \A c \in 1..Len(f.disk.table) : c = 1 /\ RawEntry(f.disk.table[c])
  BY <1>2 DEF BlockKept
<1>4. Len(f.disk.table) = 1
  <2>1. Len(f.disk.table) \in 1..Len(f.disk.table)
    BY <1>2
  <2> QED BY <1>3, <2>1
<1>5. Places(f.disk) = 1
  BY <1>1, <1>3, <1>4, PlacesOf
<1>6. f.kept = 1
  BY <1>1, <1>5 DEF FileKept
<1>7. CASE b = 1
  <2>1. PICK e : e = f.disk.table[1]
    OBVIOUS
  <2>2. BlockKept(f.disk, f.n, 1) /\ RawEntry(e)
    BY <1>2, <1>3, <1>4, <2>1
  <2>3. f.disk.view[1][s] = Shown(f.disk.base, e, 1, s)
    BY <2>1, <2>2 DEF BlockKept
  <2>4. Source(f.disk.base, e, s) = "file"
    BY <2>2 DEF Source, From, FromQcow, RawEntry, Raw, Qcow
  <2>5. f.disk.view[1][s] = e.data[s]
    BY <2>3, <2>4 DEF Shown
  <2> QED BY <1>1, <1>4, <1>6, <1>7, <2>1, <2>5 DEF ReadRaw, ViewOf
<1>8. CASE b # 1
  BY <1>1, <1>4, <1>6, <1>8 DEF ReadRaw, ViewOf
<1> QED BY <1>7, <1>8

(* A file of a chain is what the one over it was made over, where the       *)
(* format can tell.                                                         *)
LEMMA JoinedIs ==
    ASSUME HostInv, NEW path, NEW chain, Linked(path, chain), ~Unsaid(chain), NEW i \in 2..Len(chain),
           NEW f, f = files[chain[i]], NEW base, base = BaseOf(chain[i - 1])
    PROVE  /\ base # None /\ f.n = base.disk /\ f.version = base.version
           /\ Raw(f.n) => ~(f.kept < f.places)
<1>1. base # None /\ (IsBase(f, base) \/ (kind \in Qcow /\ Raw(base.disk)))
  BY DEF Linked, Joined, OverRaw
<1>2. /\ ~(kind = "VHD" /\ f.n = base.disk /\ f.version # base.version)
      /\ ~(kind \in Qcow /\ (f.n # base.disk \/ f.version # base.version))
      /\ ~(Raw(f.n) /\ f.kept < f.places)
  BY DEF Unsaid, BaseOf
<1>3. kind \in {"VHD", "VHDX", "VMDK", "QCOW", "QCOWX"}
  BY HostAssumption DEF HostInv, DisksKept
<1> QED BY <1>1, <1>2, <1>3 DEF IsBase, HasUniqueId, HasDataWriteGuid, HasContentId, Qcow

LEMMA UnderIs ==
    ASSUME HostInv, NEW path, NEW chain, Linked(path, chain), ~Unsaid(chain), NEW i \in 2..Len(chain),
           NEW b, NEW s
    PROVE  Under(BaseOf(chain[i - 1]), b, s) = ViewOf(files[chain[i]], b, s)
<1>1. PICK f : f = files[chain[i]]
  OBVIOUS
<1>2. PICK base : base = BaseOf(chain[i - 1])
  OBVIOUS
<1>3. base # None /\ f.n = base.disk /\ f.version = base.version
  BY <1>1, <1>2, JoinedIs
<1>4. PICK p \in Copied : p = chain[i]
  <2>1. chain \in Seq(Copied) /\ Len(chain) \in Nat
    BY DEF Linked
  <2> QED BY <2>1
<1>5. FileKept(f) /\ VersionKept(f.disk, f.n) /\ DOMAIN f.disk.view = 1..Len(f.disk.table)
  BY <1>1, <1>4, FileIs
<1>6. f.disk = disks[base.disk][base.version] /\ Len(f.disk.view) = Len(f.disk.table)
  BY <1>3, <1>5 DEF FileKept, VersionKept
<1> QED BY <1>1, <1>2, <1>3, <1>5, <1>6 DEF Under, ViewOf

(* The reads of a chain, from the lowest file up.                           *)
Reads(read, chain, b, s, m) ==
    read = [n \in 0..m |-> IF n = 0 THEN 0 ELSE ReadFile(chain, Len(chain) - n + 1, b, s, read[n - 1])]

LEMMA ReadsExist ==
    ASSUME NEW chain, NEW b, NEW s, NEW n \in Nat
    PROVE  \E read : Reads(read, chain, b, s, n)
<1> DEFINE Has(m) == \E read : Reads(read, chain, b, s, m)
           S == {m \in 0..n : ~Has(m)}
<1>1. SUFFICES ASSUME S # {} PROVE FALSE
  <2> HIDE DEF Has
  <2>1. Has(n)
    BY <1>1
  <2> QED BY <2>1 DEF Has
<1> HIDE DEF Has
<1>2. PICK m \in S : \A i \in S : m <= i
  <2>1. S \subseteq Nat
    OBVIOUS
  <2> QED BY <1>1, <2>1, LeastOf
<1>3. CASE m = 0
  <2> DEFINE read == [j \in 0..0 |-> 0]
  <2>1. Reads(read, chain, b, s, m)
    BY <1>3 DEF Reads
  <2> QED BY <1>2, <2>1 DEF Has
<1>4. CASE m # 0
  <2> DEFINE k == m - 1
  <2>1. k \in 0..n /\ k \in Nat /\ k + 1 = m /\ ~(m <= k)
    BY <1>2, <1>4
  <2> HIDE DEF k
  <2>2. Has(k)
    BY <1>2, <2>1
  <2>3. PICK read : Reads(read, chain, b, s, k)
    BY <2>2 DEF Has
  <2> DEFINE more == [j \in 0..m |-> IF j = m THEN ReadFile(chain, Len(chain) - m + 1, b, s, read[k]) ELSE read[j]]
  <2>4. ASSUME NEW j \in 0..m
        PROVE  more[j] = IF j = 0 THEN 0 ELSE ReadFile(chain, Len(chain) - j + 1, b, s, more[j - 1])
    <3>1. CASE j = m
      <4>1. more[j] = ReadFile(chain, Len(chain) - j + 1, b, s, read[k]) /\ j - 1 = k /\ more[k] = read[k] /\ j # 0
        BY <2>1, <3>1
      <4> HIDE DEF more
      <4> QED BY <4>1
    <3>2. CASE j # m /\ j # 0
      <4>1. j \in 0..k /\ j - 1 \in 0..k /\ more[j] = read[j] /\ more[j - 1] = read[j - 1]
        BY <2>1, <3>2
      <4>2. read[j] = ReadFile(chain, Len(chain) - j + 1, b, s, read[j - 1])
        BY <2>3, <3>2, <4>1 DEF Reads
      <4> HIDE DEF more
      <4> QED BY <3>2, <4>1, <4>2
    <3>3. CASE j # m /\ j = 0
      <4>1. more[j] = read[0] /\ read[0] = 0
        BY <2>1, <2>3, <3>3 DEF Reads
      <4> HIDE DEF more
      <4> QED BY <3>3, <4>1
    <3> QED BY <3>1, <3>2, <3>3
  <2>5. more = [j \in 0..m |-> more[j]]
    OBVIOUS
  <2> HIDE DEF more
  <2>6. Reads(more, chain, b, s, m)
    BY <2>4, <2>5 DEF Reads
  <2> QED BY <1>2, <2>6 DEF Has
<1> QED BY <1>3, <1>4

(* Each file of a chain reads as the guest left it.                         *)
LEMMA ChainReads ==
    ASSUME HostInv, NEW path, NEW chain, Linked(path, chain), ~Unsaid(chain),
           NEW b \in Nat \ {0}, NEW s \in Sectors, NEW read, Reads(read, chain, b, s, Len(chain)),
           NEW n \in 1..Len(chain)
    PROVE  read[n] \in {ViewOf(files[chain[Len(chain) - n + 1]], b, s), Unread}
<1> DEFINE Right(m) == read[m] \in {ViewOf(files[chain[Len(chain) - m + 1]], b, s), Unread}
           S == {m \in 1..Len(chain) : ~Right(m)}
<1>1. SUFFICES ASSUME S # {} PROVE FALSE
  <2> HIDE DEF Right
  <2>1. Right(n)
    BY <1>1
  <2> QED BY <2>1 DEF Right
<1> HIDE DEF Right
<1>2. PICK m \in S : \A i \in S : m <= i
  <2>1. S \subseteq Nat
    OBVIOUS
  <2> QED BY <1>1, <2>1, LeastOf
<1>3. chain \in Seq(Copied) /\ Len(chain) \in Nat /\ m \in 1..Len(chain)
  BY <1>2 DEF Linked
<1>4. PICK i : i = Len(chain) - m + 1
  OBVIOUS
<1>5. i \in 1..Len(chain) /\ i \in Int
  BY <1>3, <1>4
<1>6. PICK p \in Copied : p = chain[i]
  BY <1>3, <1>5
<1>7. PICK below : below = read[m - 1]
  OBVIOUS
<1>8. read[m] = ReadFile(chain, i, b, s, below)
  <2>1. m \in 0..Len(chain) /\ m # 0
    BY <1>3
  <2> QED BY <1>4, <1>7, <2>1 DEF Reads
<1>9. PICK f : f = files[p]
  OBVIOUS
<1>10. CASE i > 1 /\ Raw(BaseOf(chain[i - 1]).disk)
  <2>1. i \in 2..Len(chain)
    BY <1>5, <1>10
  <2>2. PICK base : base = BaseOf(chain[i - 1])
    OBVIOUS
  <2>3. f.n = base.disk /\ (Raw(f.n) => ~(f.kept < f.places))
    BY <1>6, <1>9, <2>1, <2>2, JoinedIs
  <2>4. Raw(f.n) /\ ~(f.kept < f.places)
    BY <1>10, <2>2, <2>3
  <2>5. ReadRaw(f, b, s) = ViewOf(f, b, s)
    BY <1>9, <2>4, RawReads
  <2>6. ReadFile(chain, i, b, s, below) = ReadRaw(f, b, s)
    BY <1>6, <1>9, <1>10 DEF ReadFile, BaseOf
  <2>7. Right(m)
    BY <1>4, <1>6, <1>8, <1>9, <2>5, <2>6 DEF Right
  <2> QED BY <1>2, <2>7
<1>11. CASE ~(i > 1 /\ Raw(BaseOf(chain[i - 1]).disk))
  <2>1. below \in {Under(BaseOf(p), b, s), Unread}
    <3>1. CASE m = 1
      <4>1. i = Len(chain) /\ below = read[0]
        BY <1>3, <1>4, <1>7, <3>1
      <4>2. BaseOf(p) = None
        BY <1>6, <1>11, <4>1 DEF Linked, Grounded, OverRaw
      <4>3. read[0] = 0
        BY <1>3 DEF Reads
      <4> QED BY <4>1, <4>2, <4>3 DEF Under
    <3>2. CASE m # 1
      <4>1. PICK k : k = m - 1
        OBVIOUS
      <4>2. k \in 1..Len(chain) /\ ~(m <= k) /\ Len(chain) - k + 1 = i + 1 /\ i + 1 \in 2..Len(chain)
        BY <1>3, <1>4, <3>2, <4>1
      <4>3. Right(k)
        BY <1>2, <4>2
      <4>4. below \in {ViewOf(files[chain[i + 1]], b, s), Unread}
        BY <1>7, <4>1, <4>2, <4>3 DEF Right
      <4>5. PICK j : j = i + 1
        OBVIOUS
      <4>6. j \in 2..Len(chain) /\ j - 1 = i
        BY <1>5, <4>2, <4>5
      <4>7. Under(BaseOf(chain[j - 1]), b, s) = ViewOf(files[chain[j]], b, s)
        BY <4>6, UnderIs
      <4> QED BY <1>6, <4>4, <4>5, <4>6, <4>7
    <3> QED BY <3>1, <3>2
  <2>2. ReadFile(chain, i, b, s, below) \in {ViewOf(files[p], b, s), Unread}
    BY <1>6, <1>11, <2>1, FileReads DEF BaseOf
  <2>3. Right(m)
    BY <1>4, <1>6, <1>8, <2>2 DEF Right
  <2> QED BY <1>2, <2>3
<1> QED BY <1>10, <1>11

LEMMA SectorReads ==
    ASSUME HostInv, NEW path, NEW chain, Linked(path, chain), ~Unsaid(chain),
           NEW b \in Nat \ {0}, NEW s \in Sectors
    PROVE  ReadSector(chain, b, s) \in {ViewOf(files[path], b, s), Unread}
<1> DEFINE read == CHOOSE read : read = [n \in 0..Len(chain) |->
                       IF n = 0 THEN 0 ELSE ReadFile(chain, Len(chain) - n + 1, b, s, read[n - 1])]
<1>1. Len(chain) \in Nat /\ Len(chain) # 0 /\ chain[1] = path
  BY DEF Linked
<1>2. \E r : Reads(r, chain, b, s, Len(chain))
  BY <1>1, ReadsExist
<1>3. Reads(read, chain, b, s, Len(chain))
  BY <1>2 DEF Reads
<1>4. ReadSector(chain, b, s) = read[Len(chain)]
  BY DEF ReadSector
<1> HIDE DEF read
<1>5. Len(chain) \in 1..Len(chain) /\ Len(chain) - Len(chain) + 1 = 1
  BY <1>1
<1>6. read[Len(chain)] \in {ViewOf(files[chain[Len(chain) - Len(chain) + 1]], b, s), Unread}
  BY <1>3, <1>5, ChainReads
<1> QED BY <1>1, <1>4, <1>5, <1>6

(* Each sector that is read is as the guest last saw it, whatever files lie *)
(* in reach and wherever one was cut short (EwfImage, _parent_read).        *)
THEOREM ChainReadsAsTheGuestLeft == ChainSpec => []ReadsAsTheGuestLeft
<1>1. HostInv => ReadsAsTheGuestLeft
  <2> SUFFICES ASSUME HostInv, NEW path \in Copied, Open(path).refused = "", ~Unsaid(Open(path).chain),
                      NEW b \in DOMAIN files[path].disk.view, NEW s \in Sectors
               PROVE  ReadSector(Open(path).chain, b, s) \in {files[path].disk.view[b][s], Unread}
    BY DEF ReadsAsTheGuestLeft
  <2>1. PICK chain : chain = Open(path).chain
    OBVIOUS
  <2>2. Linked(path, chain)
    BY <2>1, OpenAnswers DEF Answers
  <2>3. b \in Nat \ {0}
    <3>1. PICK f : f = files[path]
      OBVIOUS
    <3>2. DOMAIN f.disk.view = 1..Len(f.disk.table) /\ Len(f.disk.table) \in Nat
      BY <3>1, FileIs
    <3>3. PICK n \in Nat : n = Len(f.disk.table)
      BY <3>2
    <3>4. b \in 1..n
      BY <3>1, <3>2, <3>3
    <3> QED BY ONLY n \in Nat, <3>4
  <2>4. ReadSector(chain, b, s) \in {ViewOf(files[path], b, s), Unread}
    BY <2>1, <2>2, <2>3, SectorReads
  <2> QED BY <2>1, <2>4 DEF ViewOf
<1> QED BY <1>1, HostKept, PTL

-----------------------------------------------------------------------------
(* Which files are copied: of no more than two folders, and no more than    *)
(* MaxFiles.                                                                *)
CopiesInv == Copied \subseteq Paths /\ IsFiniteSet(Copied) /\ Cardinality(Copied) <= MaxFiles

LEMMA CopiesKept == ChainSpec => []CopiesInv
<1>1. HostInit => CopiesInv
  <2> SUFFICES ASSUME HostInit PROVE CopiesInv
    OBVIOUS
  <2>1. Copied = {} /\ MaxFiles \in Nat
    BY HostAssumption DEF HostInit, Copied
  <2> QED BY <2>1, FS_EmptySet DEF CopiesInv
<1>2. CopiesInv /\ [HostNext]_host => CopiesInv'
  <2> SUFFICES ASSUME CopiesInv, [HostNext]_host PROVE CopiesInv'
    OBVIOUS
  <2>1. ASSUME DOMAIN files' = Copied PROVE CopiesInv'
    BY <2>1 DEF CopiesInv, Copied
  <2>2. ASSUME NEW path \in Paths \ Copied, NEW n, NEW v, Copy(path, n, v) PROVE CopiesInv'
    <3>1. Copied' = Copied \cup {path} /\ Cardinality(Copied) < MaxFiles
      BY <2>2 DEF Copy, Copied
    <3>2. IsFiniteSet(Copied \cup {path}) /\ Cardinality(Copied \cup {path}) = Cardinality(Copied) + 1
      BY <2>2, FS_AddElement DEF CopiesInv
    <3>3. Cardinality(Copied) \in Nat /\ MaxFiles \in Nat
      BY HostAssumption, FS_CardinalityType DEF CopiesInv
    <3>4. Copied \cup {path} \subseteq Paths
      BY <2>2 DEF CopiesInv
    <3>5. Cardinality(Copied \cup {path}) <= MaxFiles
      BY <3>1, <3>2, <3>3
    <3> QED BY <3>1, <3>2, <3>4, <3>5 DEF CopiesInv, Paths
  <2>3. ASSUME NEW path, NEW kept, Cut(path, kept) PROVE CopiesInv'
    <3>1. DOMAIN files' = Copied
      BY <2>3 DEF Cut, Copied
    <3> QED BY <2>1, <3>1
  <2>4. ASSUME files' = files PROVE CopiesInv'
    BY <2>1, <2>4 DEF Copied
  <2>5. ASSUME NEW n, NEW b, NEW s, Write(n, b, s) PROVE files' = files
    BY <2>5 DEF Write, Change
  <2>6. ASSUME NEW n, NEW b, Zero(n, b) PROVE files' = files
    BY <2>6 DEF Zero, Change
  <2>7. ASSUME NEW blocks, Snapshot(blocks) PROVE files' = files
    BY <2>7 DEF Snapshot
  <2> QED BY <2>2, <2>3, <2>4, <2>5, <2>6, <2>7 DEF HostNext, host
<1> QED BY <1>1, <1>2, PTL DEF ChainSpec

-----------------------------------------------------------------------------
(* What a file gives for a sector is there when no file is cut short.       *)
LEMMA StoredInside ==
    ASSUME HostInv, CutShort = {}, NEW path \in Copied, NEW f, f = files[path]
    PROVE  /\ f.kept = f.places /\ f.kept \in Nat /\ DOMAIN f.disk.table = 1..Len(f.disk.table)
           /\ \A b \in DOMAIN f.disk.table :
                 /\ f.disk.table[b].at <= f.kept /\ f.disk.table[b].at \in Nat
                 /\ f.disk.table[b].data \in Seeing
<1>1. FileKept(f) /\ f.disk \in Version /\ DOMAIN f.disk.table = 1..Len(f.disk.table)
  BY FileIs
<1>2. PICK d \in Version : d = f.disk
  BY <1>1
<1>3. Places(d) \in Nat /\ \A b \in 1..Len(d.table) : d.table[b].at <= Places(d)
  BY PlacesOf
<1>4. f.places = Places(d) /\ f.kept \in Int /\ f.kept <= f.places
  BY <1>1, <1>2 DEF FileKept
<1>5. ~(f.kept < f.places)
  BY DEF CutShort
<1>6. f.kept = f.places /\ f.kept = Places(d)
  BY <1>3, <1>4, <1>5
<1>7. \A b \in 1..Len(d.table) : d.table[b].at \in Nat /\ d.table[b].data \in Seeing
  <2>1. d.table \in Seq(Entry)
    BY DEF Version
  <2>2. \A b \in 1..Len(d.table) : d.table[b] \in Entry
    BY <2>1
  <2> QED BY <2>2 DEF Entry
<1> QED BY <1>1, <1>2, <1>3, <1>6, <1>7

LEMMA FileIsRead ==
    ASSUME HostInv, CutShort = {}, NEW chain, NEW i, chain[i] \in Copied,
           NEW b \in Nat \ {0}, NEW s \in Sectors, NEW below, below # Unread
    PROVE  ReadFile(chain, i, b, s, below) # Unread
<1>1. PICK path \in Copied : path = chain[i]
  OBVIOUS
<1>2. PICK f : f = files[path]
  OBVIOUS
<1>3. PICK e : e = f.disk.table[b]
  OBVIOUS
<1>4. /\ ~(f.kept < f.places)
      /\ b \in DOMAIN f.disk.table => ~(e.at > f.kept) /\ e.data[s] \in Nat
  <2>1. /\ f.kept = f.places /\ f.kept \in Nat
        /\ b \in DOMAIN f.disk.table => e.at <= f.kept /\ e.at \in Nat /\ e.data \in Seeing
    BY <1>2, <1>3, StoredInside
  <2> QED BY <2>1 DEF Seeing
<1>5. ReadRaw(f, b, s) # Unread
  <2>1. CASE Raw(f.n)
    <3>1. ReadRaw(f, b, s) = ViewOf(f, b, s)
      BY <1>2, <1>4, <2>1, RawReads
    <3>2. ViewOf(f, b, s) \in Nat
      <4>1. f.disk \in Version
        BY <1>2, FileIs
      <4>2. b \in DOMAIN f.disk.view => f.disk.view[b] \in Seeing
        BY <4>1 DEF Version
      <4> QED BY <4>2 DEF ViewOf, Seeing
    <3> QED BY <3>1, <3>2 DEF Unread
  <2>2. CASE ~Raw(f.n)
    BY <2>2 DEF ReadRaw, Unread, Garbage
  <2> QED BY <2>1, <2>2
<1>6. ReadFile(chain, i, b, s, below) \in {ReadRaw(f, b, s), 0, below}
      \/ (ReadFile(chain, i, b, s, below) = e.data[s] /\ b \in DOMAIN f.disk.table)
  BY <1>1, <1>2, <1>3, <1>4 DEF ReadFile
<1> QED BY <1>4, <1>5, <1>6 DEF Unread

LEMMA SectorIsRead ==
    ASSUME HostInv, CutShort = {}, NEW path, NEW chain, Linked(path, chain),
           NEW b \in Nat \ {0}, NEW s \in Sectors
    PROVE  ReadSector(chain, b, s) # Unread
<1> DEFINE read == CHOOSE read : read = [n \in 0..Len(chain) |->
                       IF n = 0 THEN 0 ELSE ReadFile(chain, Len(chain) - n + 1, b, s, read[n - 1])]
<1>1. chain \in Seq(Copied) /\ Len(chain) \in Nat
  BY DEF Linked
<1>2. \E r : Reads(r, chain, b, s, Len(chain))
  BY <1>1, ReadsExist
<1>3. Reads(read, chain, b, s, Len(chain))
  BY <1>2 DEF Reads
<1>4. ReadSector(chain, b, s) = read[Len(chain)]
  BY DEF ReadSector
<1> HIDE DEF read
<1> DEFINE S == {m \in 0..Len(chain) : read[m] = Unread}
<1>5. S = {}
  <2>1. SUFFICES ASSUME S # {} PROVE FALSE
    OBVIOUS
  <2>2. PICK m \in S : \A i \in S : m <= i
    <3>1. S \subseteq Nat
      OBVIOUS
    <3> QED BY <2>1, <3>1, LeastOf
  <2>3. m # 0
    BY <1>1, <1>3, <2>2 DEF Reads, Unread
  <2>4. PICK i : i = Len(chain) - m + 1
    OBVIOUS
  <2>5. i \in 1..Len(chain) /\ m - 1 \in 0..Len(chain) /\ ~(m <= m - 1)
    BY <1>1, <2>2, <2>3, <2>4
  <2>6. chain[i] \in Copied /\ read[m - 1] # Unread
    BY <1>1, <2>2, <2>5
  <2>7. read[m] = ReadFile(chain, i, b, s, read[m - 1])
    BY <1>3, <2>2, <2>3, <2>4 DEF Reads
  <2>8. read[m] # Unread
    BY <2>6, <2>7, FileIsRead
  <2> QED BY <2>2, <2>8
<1> QED BY <1>1, <1>4, <1>5

(* A file that is whole and no raw one passes what is checked of itself.    *)
LEMMA WholeHolds ==
    ASSUME HostInv, CutShort = {}, NEW path \in Copied, NEW f, f = files[path], ~Raw(f.n)
    PROVE  OfItsKind(f) /\ HoldsItself(f)
<1>1. /\ f.kept = f.places /\ f.kept \in Nat
      /\ \A b \in DOMAIN f.disk.table : f.disk.table[b].at <= f.kept
  BY StoredInside
<1>2. OfItsKind(f)
  BY <1>1 DEF OfItsKind
<1>3. TablesInside(f) /\ BlocksInside(f)
  BY <1>1 DEF TablesInside, BlocksInside, StoredPlaces
<1> QED BY <1>2, <1>3 DEF HoldsItself, HoldsVhd, HoldsVhdx, HoldsVmdk, HoldsQcow

-----------------------------------------------------------------------------
(* What opening a file takes: a set of files that need not be opened yet,   *)
(* and as many more as there are of them.                                   *)
Opening(open, left, path, opening) == open[left][path][opening].refused

Suffices(open, path, R) ==
    /\ R \subseteq Copied /\ IsFiniteSet(R) /\ path \in R
    /\ \A left \in 0..MaxParents : \A opening \in SUBSET Copied :
          Cardinality(R) <= left + 1 /\ opening \cap R = {} => Opening(open, left, path, opening) = ""

(* What comes of a candidate then.                                          *)
Foreign(c) == kind \notin Qcow /\ ~OfItsKind(files[c])

Verdict(path, c) ==
    IF c \notin Copied THEN "missing"
    ELSE IF OverRaw(path) THEN ""
    ELSE IF Foreign(c) THEN "foreign"
    ELSE IF IsBase(files[c], BaseOf(path)) THEN "" ELSE "another"

Tame(open, path, c, R) ==
    /\ R \subseteq Copied /\ IsFiniteSet(R) /\ path \notin R
    /\ c \in Copied => c \in R
    /\ c \in Copied /\ ~OverRaw(path) /\ ~Foreign(c) => Suffices(open, c, R)

Candidate(path, i) == Candidates(path, BaseOf(path))[i]

GivenBy(open, left, path, opening, i) ==
    Given(path, opening \cup {path}, Candidate(path, i), open[left - 1][Candidate(path, i)][opening \cup {path}])

LEMMA OpenedAs ==
    ASSUME NEW open, Opens(open, MaxParents), NEW left \in 0..MaxParents,
           NEW path \in Copied, NEW opening \in SUBSET Copied
    PROVE  open[left][path][opening] =
             IF ~HoldsItself(files[path]) THEN Refused("cut")
             ELSE IF BaseOf(path) = None THEN Opened(<<path>>)
             ELSE IF left = 0 THEN Refused("deep")
             ELSE Taken(GivenBy(open, left, path, opening, 1), GivenBy(open, left, path, opening, 2))
<1>1. open[left] = OpenOver(left, open[left - 1])
  BY DEF Opens
<1>2. PICK below : below = open[left - 1]
  OBVIOUS
<1>3. OpenOver(left, below)[path][opening] =
             IF ~HoldsItself(files[path]) THEN Refused("cut")
             ELSE IF BaseOf(path) = None THEN Opened(<<path>>)
             ELSE IF left = 0 THEN Refused("deep")
             ELSE Taken(Given(path, opening \cup {path}, Candidate(path, 1), below[Candidate(path, 1)][opening \cup {path}]),
                        Given(path, opening \cup {path}, Candidate(path, 2), below[Candidate(path, 2)][opening \cup {path}]))
  BY DEF OpenOver, BaseOf, Candidate
<1> QED BY <1>1, <1>2, <1>3 DEF GivenBy

(* A file that opens, or is refused, is not passed over for that.           *)
LEMMA NeverPassed ==
    ASSUME NEW open, Opens(open, MaxParents), NEW left \in 0..MaxParents,
           NEW path \in Copied, NEW opening \in SUBSET Copied
    PROVE  ~Passed(open[left][path][opening])
<1>1. ~Passed(Refused("cut")) /\ ~Passed(Refused("deep")) /\ ~Passed(Opened(<<path>>))
  BY DEF Passed, Refused, Opened
<1>2. ASSUME NEW first, NEW second PROVE ~Passed(Taken(first, second))
  <2>1. ~Passed(Refused("parentless"))
    BY DEF Passed, Refused
  <2> QED BY <2>1 DEF Taken
<1> QED BY <1>1, <1>2, OpenedAs

LEMMA TameIsGiven ==
    ASSUME NEW open, Opens(open, MaxParents), NEW left \in 1..MaxParents, NEW path \in Copied,
           NEW opening \in SUBSET Copied, NEW i \in 1..2, NEW R, Tame(open, path, Candidate(path, i), R),
           Cardinality(R) <= left, opening \cap R = {}
    PROVE  GivenBy(open, left, path, opening, i).refused = Verdict(path, Candidate(path, i))
<1>1. PICK c : c = Candidate(path, i)
  OBVIOUS
<1>2. PICK over : over = opening \cup {path}
  OBVIOUS
<1>3. PICK parent : parent = open[left - 1][c][over]
  OBVIOUS
<1>4. PICK given : given = Given(path, over, c, parent)
  OBVIOUS
<1>5. GivenBy(open, left, path, opening, i) = given
  BY <1>1, <1>2, <1>3, <1>4 DEF GivenBy
<1>6. c \in Copied => c \notin over /\ over \cap R = {} /\ over \in SUBSET Copied
  BY <1>1, <1>2 DEF Tame
<1>7. CASE c \notin Copied \/ OverRaw(path) \/ Foreign(c)
  <2>1. given.refused = Verdict(path, c)
    BY <1>4, <1>6, <1>7 DEF Given, Verdict, Foreign, Refused, Opened, OverRaw, BaseOf
  <2> QED BY ONLY <1>1, <1>5, <2>1
<1>8. CASE c \in Copied /\ ~OverRaw(path) /\ ~Foreign(c)
  <2>1. left - 1 \in 0..MaxParents /\ Cardinality(R) <= (left - 1) + 1
    <3>1. MaxParents \in Nat /\ Cardinality(R) \in Nat
      BY ChainAssumption, FS_CardinalityType DEF Tame
    <3> QED BY <3>1
  <2>2. Suffices(open, c, R)
    BY <1>1, <1>8 DEF Tame
  <2>3. parent.refused = ""
    BY <1>3, <1>6, <1>8, <2>1, <2>2 DEF Suffices, Opening
  <2>4. given.refused = Verdict(path, c)
    BY <1>4, <1>6, <1>8, <2>3 DEF Given, Verdict, Foreign, Refused, Opened, OverRaw, BaseOf
  <2> QED BY ONLY <1>1, <1>5, <2>4
<1> QED BY <1>7, <1>8

LEMMA StandsAlone ==
    ASSUME NEW open, Opens(open, MaxParents), NEW path \in Copied, HoldsItself(files[path]), BaseOf(path) = None
    PROVE  Suffices(open, path, {path})
<1>1. IsFiniteSet({path})
  BY FS_Singleton
<1>2. \A left \in 0..MaxParents : \A opening \in SUBSET Copied : open[left][path][opening] = Opened(<<path>>)
  BY OpenedAs
<1>3. Opened(<<path>>).refused = ""
  BY DEF Opened
<1>4. \A left \in 0..MaxParents : \A opening \in SUBSET Copied : Opening(open, left, path, opening) = ""
  BY <1>2, <1>3 DEF Opening
<1> QED BY <1>1, <1>4 DEF Suffices

(* The first candidate is taken, or passed over for the second.             *)
OneIsTaken(open, path, R1, R2) ==
    /\ Tame(open, path, Candidate(path, 1), R1)
    /\ R2 \subseteq Copied /\ IsFiniteSet(R2) /\ path \notin R2
    /\ \/ Verdict(path, Candidate(path, 1)) = ""
       \/ Tame(open, path, Candidate(path, 2), R2) /\ Verdict(path, Candidate(path, 2)) = ""

LEMMA StandsOver ==
    ASSUME NEW open, Opens(open, MaxParents), NEW path \in Copied, HoldsItself(files[path]), BaseOf(path) # None,
           NEW R1, NEW R2, OneIsTaken(open, path, R1, R2)
    PROVE  Suffices(open, path, {path} \cup (R1 \cup R2))
<1>1. PICK R : R = {path} \cup (R1 \cup R2)
  OBVIOUS
<1>2. /\ R \subseteq Copied /\ IsFiniteSet(R) /\ path \in R
      /\ Cardinality(R1) \in Nat /\ Cardinality(R2) \in Nat /\ Cardinality(R) \in Nat
      /\ Cardinality(R1) + 1 <= Cardinality(R) /\ Cardinality(R2) + 1 <= Cardinality(R)
  <2>1. IsFiniteSet(R1) /\ IsFiniteSet(R2) /\ path \notin R1 /\ path \notin R2 /\ R1 \subseteq Copied
    BY DEF OneIsTaken, Tame
  <2>2. PICK T : T = R1 \cup R2
    OBVIOUS
  <2>3. IsFiniteSet(T) /\ path \notin T /\ R1 \subseteq T /\ R2 \subseteq T
    BY <2>1, <2>2, FS_Union
  <2>4. R = T \cup {path}
    BY <1>1, <2>2
  <2>5. IsFiniteSet(R) /\ Cardinality(R) = Cardinality(T) + 1
    BY <2>3, <2>4, FS_AddElement
  <2>6. Cardinality(R1) <= Cardinality(T) /\ Cardinality(R2) <= Cardinality(T)
    BY <2>3, FS_Subset
  <2>7. Cardinality(T) \in Nat /\ Cardinality(R1) \in Nat /\ Cardinality(R2) \in Nat
    BY <2>1, <2>3, FS_CardinalityType
  <2>8. /\ Cardinality(R) \in Nat
        /\ Cardinality(R1) + 1 <= Cardinality(R) /\ Cardinality(R2) + 1 <= Cardinality(R)
    <3>1. PICK t, r, r1, r2 : t = Cardinality(T) /\ r = Cardinality(R) /\ r1 = Cardinality(R1) /\ r2 = Cardinality(R2)
      OBVIOUS
    <3>2. t \in Nat /\ r1 \in Nat /\ r2 \in Nat /\ r = t + 1 /\ r1 <= t /\ r2 <= t
      BY <2>5, <2>6, <2>7, <3>1
    <3>3. r \in Nat /\ r1 + 1 <= r /\ r2 + 1 <= r
      BY ONLY <3>2
    <3> QED BY ONLY <3>1, <3>3
  <2>9. R \subseteq Copied /\ path \in R
    BY <1>1, <2>1 DEF OneIsTaken
  <2> QED BY ONLY <2>5, <2>7, <2>8, <2>9
<1>3. ASSUME NEW left \in 0..MaxParents, NEW opening \in SUBSET Copied,
             Cardinality(R) <= left + 1, opening \cap R = {}
      PROVE  open[left][path][opening].refused = ""
  <2>1. PICK first : first = GivenBy(open, left, path, opening, 1)
    OBVIOUS
  <2>2. PICK second : second = GivenBy(open, left, path, opening, 2)
    OBVIOUS
  <2>3. Cardinality(R1) # 0 \/ Cardinality(R2) # 0
    <3>1. CASE Candidate(path, 1) \in Copied
      <4>1. Candidate(path, 1) \in R1 /\ IsFiniteSet(R1)
        BY <3>1 DEF OneIsTaken, Tame
      <4>2. Cardinality(R1) # 0
        BY <4>1, FS_EmptySet
      <4> QED BY ONLY <4>2
    <3>2. CASE Candidate(path, 1) \notin Copied
      <4>1. Candidate(path, 2) \in R2
        BY <3>2 DEF OneIsTaken, Verdict, Tame
      <4>2. Cardinality(R2) # 0
        BY <4>1, FS_EmptySet DEF OneIsTaken
      <4> QED BY ONLY <4>2
    <3> QED BY ONLY <3>1, <3>2
  <2>4. left # 0 /\ left \in 1..MaxParents /\ Cardinality(R1) <= left /\ Cardinality(R2) <= left
    <3>1. PICK r, r1, r2 : r = Cardinality(R) /\ r1 = Cardinality(R1) /\ r2 = Cardinality(R2)
      OBVIOUS
    <3>2. /\ r \in Nat /\ r1 \in Nat /\ r2 \in Nat /\ r1 + 1 <= r /\ r2 + 1 <= r
          /\ r <= left + 1 /\ (r1 # 0 \/ r2 # 0)
      BY <1>2, <1>3, <2>3, <3>1
    <3>3. MaxParents \in Nat /\ left \in 0..MaxParents
      BY ChainAssumption
    <3>4. left # 0 /\ left \in 1..MaxParents /\ r1 <= left /\ r2 <= left
      BY ONLY <3>2, <3>3
    <3> QED BY ONLY <3>1, <3>4
  <2>5. opening \cap R1 = {} /\ opening \cap R2 = {}
    BY <1>1, <1>3
  <2>6. first.refused = Verdict(path, Candidate(path, 1))
    <3>1. 1 \in 1..2
      OBVIOUS
    <3>2. Tame(open, path, Candidate(path, 1), R1)
      BY DEF OneIsTaken
    <3>3. GivenBy(open, left, path, opening, 1).refused = Verdict(path, Candidate(path, 1))
      BY <2>5, <2>4, <3>1, <3>2, TameIsGiven
    <3> QED BY ONLY <2>1, <3>3
  <2>7. CASE Verdict(path, Candidate(path, 1)) = ""
    <3>1. ~Passed(first)
      BY <2>6, <2>7 DEF Passed
    <3> QED BY <2>1, <2>2, <2>4, <2>6, <2>7, <3>1, OpenedAs DEF Taken
  <2>8. CASE Verdict(path, Candidate(path, 1)) # ""
    <3>1. Passed(first)
      BY <2>6, <2>8 DEF Passed, Verdict
    <3>2. second.refused = ""
      <4>1. 2 \in 1..2
        OBVIOUS
      <4>2. Tame(open, path, Candidate(path, 2), R2) /\ Verdict(path, Candidate(path, 2)) = ""
        BY <2>8 DEF OneIsTaken
      <4>3. Tame(open, path, Candidate(path, 2), R2)
        BY <4>2
      <4>4. GivenBy(open, left, path, opening, 2).refused = Verdict(path, Candidate(path, 2))
        BY <2>5, <2>4, <4>1, <4>3, TameIsGiven
      <4> QED BY ONLY <2>2, <4>2, <4>4
    <3>3. ~Passed(second)
      BY <3>2 DEF Passed
    <3> QED BY <2>1, <2>2, <2>4, <3>1, <3>2, <3>3, OpenedAs DEF Taken
  <2> QED BY <2>7, <2>8
<1> QED BY <1>1, <1>2, <1>3 DEF Suffices, Opening

-----------------------------------------------------------------------------
(* Where what a file needs may lie: of one in "base" all in that folder,    *)
(* and where files have their own names those of the disks below.           *)
Named == \A p \in Copied : p[2] = files[p].n

LiesBy(path, R) ==
    /\ path[1] = "base" => \A r \in R : r[1] = "base"
    /\ Named => \A r \in R : files[r].n <= files[path].n

LEMMA CandidateIs ==
    ASSUME NEW path, NEW i \in 1..2, NEW c, c = Candidate(path, i)
    PROVE  /\ c \in {Beside(path, BaseOf(path)), Pointed(BaseOf(path))}
           /\ c[2] = BaseOf(path).disk /\ (path[1] = "base" => c[1] = "base")
<1>1. c = Beside(path, BaseOf(path)) \/ c = Pointed(BaseOf(path))
  <2>1. i = 1 \/ i = 2
    OBVIOUS
  <2> QED BY <2>1 DEF Candidate, Candidates
<1> QED BY <1>1 DEF Beside, Pointed

LEMMA BaseIsBelow ==
    ASSUME HostInv, NEW path \in Copied
    PROVE  /\ files[path].n \in Nat
           /\ BaseOf(path) # None => BaseOf(path).disk \in Nat /\ BaseOf(path).disk < files[path].n
<1>1. PICK f : f = files[path]
  OBVIOUS
<1>2. FileKept(f) /\ VersionKept(f.disk, f.n)
  BY <1>1, FileIs
<1>3. f.n \in 1..Len(disks) /\ Len(disks) \in Nat
  BY <1>2 DEF FileKept, HostInv, DisksKept
<1>4. f.disk.base # None => f.disk.base.disk \in 1..Len(disks) /\ f.disk.base.disk < f.n
  BY <1>2 DEF VersionKept, There
<1> QED BY <1>1, <1>3, <1>4 DEF BaseOf

(* A file that opened did so by some files, and does again whenever those   *)
(* are not being opened.                                                    *)
NeedsFew(open, left, path, opening) ==
    Opening(open, left, path, opening) = "" =>
        \E R : Suffices(open, path, R) /\ opening \cap R = {} /\ LiesBy(path, R)

AllNeedFew(open, left) ==
    \A path \in Copied : \A opening \in SUBSET (Copied \ {path}) : NeedsFew(open, left, path, opening)

LEMMA TameByItself ==
    ASSUME NEW open, NEW path \in Copied, NEW c \in Copied, c # path, OverRaw(path) \/ Foreign(c)
    PROVE  Tame(open, path, c, {c})
<1>1. IsFiniteSet({c})
  BY FS_Singleton
<1> QED BY <1>1 DEF Tame

LEMMA SaidIs == (\A why : Refused(why).refused = why) /\ \A chain : Opened(chain).refused = ""
  BY DEF Refused, Opened

Settled(given) == given.refused = "" \/ Passed(given)

Known(open, path, opening, c, given) ==
    /\ Verdict(path, c) = given.refused
    /\ \E R : Tame(open, path, c, R) /\ opening \cap R = {} /\ LiesBy(path, R)

LEMMA CandidateNeedsFew ==
    ASSUME HostInv, NEW open, Opens(open, MaxParents), NEW left \in 1..MaxParents, AllNeedFew(open, left - 1),
           NEW path \in Copied, NEW opening \in SUBSET (Copied \ {path}), BaseOf(path) # None,
           NEW i \in 1..2, NEW c, c = Candidate(path, i),
           NEW given, given = GivenBy(open, left, path, opening, i), Settled(given)
    PROVE  Known(open, path, opening, c, given)
<1> SUFFICES /\ Verdict(path, c) = given.refused
             /\ \E R : Tame(open, path, c, R) /\ opening \cap R = {} /\ LiesBy(path, R)
  BY DEF Known
<1>1. PICK over : over = opening \cup {path}
  OBVIOUS
<1>2. PICK parent : parent = open[left - 1][c][over]
  OBVIOUS
<1>3. given = Given(path, over, c, parent)
  BY <1>1, <1>2 DEF GivenBy
<1>4. c[2] = BaseOf(path).disk /\ (path[1] = "base" => c[1] = "base")
  BY CandidateIs
<1>5. left - 1 \in 0..MaxParents
  <2>1. MaxParents \in Nat /\ left \in 1..MaxParents
    BY ChainAssumption
  <2> QED BY ONLY <2>1
<1>6. c \in Copied => c \notin over
  <2>1. SUFFICES ASSUME c \in Copied, c \in over PROVE FALSE
    OBVIOUS
  <2>2. given.refused = "loop"
    BY <1>3, <2>1 DEF Given, Refused
  <2> QED BY <2>2 DEF Passed, Settled
<1>7. ASSUME NEW R, c \in Copied, \A r \in R : c[1] = "base" => r[1] = "base",
             Named => \A r \in R : files[r].n <= files[c].n /\ files[r].n \in Nat
      PROVE  LiesBy(path, R)
  <2>1. Named => files[c].n = BaseOf(path).disk
    BY <1>4, <1>7 DEF Named
  <2>2. files[path].n \in Nat /\ BaseOf(path).disk \in Nat /\ BaseOf(path).disk < files[path].n
    BY BaseIsBelow
  <2>3. ASSUME Named, NEW r \in R PROVE files[r].n <= files[path].n
    <3>1. PICK a, b, c0, d : a = files[r].n /\ b = files[c].n /\ c0 = BaseOf(path).disk /\ d = files[path].n
      OBVIOUS
    <3>2. a <= b /\ a \in Nat /\ b = c0 /\ c0 \in Nat /\ d \in Nat /\ c0 < d
      BY <1>7, <2>1, <2>2, <2>3, <3>1
    <3>3. a <= d
      BY ONLY <3>2
    <3> QED BY ONLY <3>1, <3>3
  <2> QED BY <1>4, <1>7, <2>3 DEF LiesBy
<1>8. CASE c \notin Copied
  <2>1. given.refused = "missing" /\ Verdict(path, c) = "missing"
    BY <1>3, <1>8 DEF Given, Refused, Verdict
  <2>2. Tame(open, path, c, {})
    BY <1>8, FS_EmptySet DEF Tame
  <2>3. LiesBy(path, {})
    BY DEF LiesBy
  <2> QED BY <2>1, <2>2, <2>3
<1>9. CASE c \in Copied /\ (OverRaw(path) \/ Foreign(c))
  <2>1. Verdict(path, c) = given.refused
    <3>1. CASE OverRaw(path)
      <4>1. given = Opened(<<path, c>>)
        BY <1>3, <1>6, <1>9, <3>1 DEF Given, OverRaw, BaseOf
      <4>2. given.refused = ""
        BY ONLY <4>1, SaidIs
      <4>3. Verdict(path, c) = ""
        BY <1>9, <3>1 DEF Verdict
      <4> QED BY ONLY <4>2, <4>3
    <3>2. CASE ~OverRaw(path) /\ Foreign(c)
      <4>1. given.refused = "foreign" /\ Verdict(path, c) = "foreign"
        BY <1>3, <1>6, <1>9, <3>2 DEF Given, Refused, Verdict, OverRaw, BaseOf, Foreign
      <4> QED BY ONLY <4>1
    <3> QED BY <1>9, <3>1, <3>2
  <2>2. Tame(open, path, c, {c}) /\ opening \cap {c} = {}
    BY <1>1, <1>6, <1>9, TameByItself
  <2>3. files[c].n \in Nat
    BY <1>9, BaseIsBelow
  <2>4. LiesBy(path, {c})
    <3>1. files[c].n <= files[c].n
      BY ONLY <2>3
    <3>2. /\ \A r \in {c} : c[1] = "base" => r[1] = "base"
          /\ \A r \in {c} : files[r].n <= files[c].n /\ files[r].n \in Nat
      BY <2>3, <3>1
    <3> QED BY <1>7, <1>9, <3>2
  <2> QED BY <2>1, <2>2, <2>4
<1>10. CASE c \in Copied /\ ~OverRaw(path) /\ ~Foreign(c)
  <2>1. over \in SUBSET (Copied \ {c}) /\ over \in SUBSET Copied
    BY <1>1, <1>6, <1>10
  <2>2. ~Passed(parent)
    BY <1>2, <1>5, <1>10, <2>1, NeverPassed
  <2>3. given = IF parent.refused # "" THEN parent
                ELSE IF ~IsBase(files[c], BaseOf(path)) THEN Refused("another")
                ELSE Opened(<<path>> \o parent.chain)
    BY <1>3, <1>6, <1>10 DEF Given, OverRaw, BaseOf, Foreign
  <2>4. parent.refused = ""
    BY <2>2, <2>3 DEF Settled
  <2>5. Verdict(path, c) = given.refused
    <3>1. CASE IsBase(files[c], BaseOf(path))
      <4>1. given = Opened(<<path>> \o parent.chain)
        BY <2>3, <2>4, <3>1
      <4>2. given.refused = ""
        BY ONLY <4>1, SaidIs
      <4>3. Verdict(path, c) = ""
        BY <1>10, <3>1 DEF Verdict
      <4> QED BY ONLY <4>2, <4>3
    <3>2. CASE ~IsBase(files[c], BaseOf(path))
      <4>1. given = Refused("another")
        BY <2>3, <2>4, <3>2
      <4>2. given.refused = "another"
        BY ONLY <4>1, SaidIs
      <4>3. Verdict(path, c) = "another"
        BY <1>10, <3>2 DEF Verdict
      <4> QED BY ONLY <4>2, <4>3
    <3> QED BY ONLY <3>1, <3>2
  <2>6. PICK R : Suffices(open, c, R) /\ over \cap R = {} /\ LiesBy(c, R)
    <3>1. NeedsFew(open, left - 1, c, over)
      BY <1>10, <2>1 DEF AllNeedFew
    <3> QED BY <1>2, <2>4, <3>1 DEF NeedsFew, Opening
  <2>7. Tame(open, path, c, R) /\ opening \cap R = {}
    BY <1>1, <1>10, <2>6 DEF Tame, Suffices
  <2>8. \A r \in R : files[r].n \in Nat
    BY <2>6, BaseIsBelow DEF Suffices
  <2>9. LiesBy(path, R)
    BY <1>7, <1>10, <2>6, <2>8 DEF LiesBy
  <2> QED BY <2>5, <2>7, <2>9
<1> QED BY <1>8, <1>9, <1>10

LEMMA OpenedNeedsFew ==
    ASSUME HostInv, NEW open, Opens(open, MaxParents), NEW left \in 0..MaxParents,
           left # 0 => AllNeedFew(open, left - 1)
    PROVE  AllNeedFew(open, left)
<1> SUFFICES ASSUME NEW path \in Copied, NEW opening \in SUBSET (Copied \ {path}),
                    Opening(open, left, path, opening) = ""
             PROVE  \E R : Suffices(open, path, R) /\ opening \cap R = {} /\ LiesBy(path, R)
  BY DEF AllNeedFew, NeedsFew
<1> DEFINE first == GivenBy(open, left, path, opening, 1)
           second == GivenBy(open, left, path, opening, 2)
<1>1. open[left][path][opening] =
             IF ~HoldsItself(files[path]) THEN Refused("cut")
             ELSE IF BaseOf(path) = None THEN Opened(<<path>>)
             ELSE IF left = 0 THEN Refused("deep")
             ELSE Taken(first, second)
  BY OpenedAs
<1>2. open[left][path][opening].refused = ""
  BY DEF Opening
<1> HIDE DEF first, second
<1>3. HoldsItself(files[path]) /\ (BaseOf(path) # None => left # 0)
  <2>1. Refused("cut").refused # "" /\ Refused("deep").refused # ""
    BY DEF Refused
  <2> QED BY <1>1, <1>2, <2>1
<1>4. files[path].n \in Nat /\ files[path].n <= files[path].n
  <2>1. files[path].n \in Nat
    BY BaseIsBelow
  <2> QED BY ONLY <2>1
<1>5. CASE BaseOf(path) = None
  <2>1. Suffices(open, path, {path})
    BY <1>3, <1>5, StandsAlone
  <2>2. opening \cap {path} = {} /\ LiesBy(path, {path})
    BY <1>4 DEF LiesBy
  <2> QED BY <2>1, <2>2
<1>6. CASE BaseOf(path) # None
  <2>1. Taken(first, second).refused = "" /\ AllNeedFew(open, left - 1)
    BY <1>1, <1>2, <1>3, <1>6
  <2>2. left \in 1..MaxParents
    <3>1. left # 0 /\ left \in 0..MaxParents /\ MaxParents \in Nat
      BY <1>3, <1>6, ChainAssumption
    <3> QED BY ONLY <3>1
  <2>3. Settled(first)
    BY <2>1 DEF Taken, Settled
  <2>4. PICK c : c = Candidate(path, 1)
    OBVIOUS
  <2>5. PICK d : d = Candidate(path, 2)
    OBVIOUS
  <2>6. 1 \in 1..2 /\ 2 \in 1..2
    BY ONLY TRUE
  <2>7. /\ Verdict(path, c) = first.refused
        /\ \E R : Tame(open, path, c, R) /\ opening \cap R = {} /\ LiesBy(path, R)
    <3>1. AllNeedFew(open, left - 1)
      BY <2>1
    <3>2. first = GivenBy(open, left, path, opening, 1)
      BY DEF first
    <3>3. Known(open, path, opening, c, first)
      BY <1>6, <2>2, <2>3, <2>4, <2>6, <3>1, <3>2, CandidateNeedsFew
    <3> QED BY <3>3 DEF Known
  <2>8. PICK R1 : Tame(open, path, c, R1) /\ opening \cap R1 = {} /\ LiesBy(path, R1)
    BY <2>7
  <2>9. \E R2 : OneIsTaken(open, path, R1, R2) /\ opening \cap R2 = {} /\ LiesBy(path, R2)
    <3>1. CASE Verdict(path, c) = ""
      <4>1. IsFiniteSet({}) /\ LiesBy(path, {})
        BY FS_EmptySet DEF LiesBy
      <4>2. OneIsTaken(open, path, R1, {})
        BY <2>4, <2>8, <3>1, <4>1 DEF OneIsTaken
      <4> QED BY <4>1, <4>2
    <3>2. CASE Verdict(path, c) # ""
      <4>1. Passed(first)
        BY <2>3, <2>7, <3>2 DEF Settled
      <4>2. second.refused = ""
        <5>1. Refused("parentless").refused # ""
          BY DEF Refused
        <5> QED BY <2>1, <4>1, <5>1 DEF Taken
      <4>3. /\ Verdict(path, d) = second.refused
            /\ \E R : Tame(open, path, d, R) /\ opening \cap R = {} /\ LiesBy(path, R)
        <5>1. AllNeedFew(open, left - 1)
          BY <2>1
        <5>2. second = GivenBy(open, left, path, opening, 2)
          BY DEF second
        <5>3. Settled(second)
          BY <4>2 DEF Settled
        <5>4. Known(open, path, opening, d, second)
          BY <1>6, <2>2, <2>5, <2>6, <5>1, <5>2, <5>3, CandidateNeedsFew
        <5> QED BY <5>4 DEF Known
      <4>4. PICK R2 : Tame(open, path, d, R2) /\ opening \cap R2 = {} /\ LiesBy(path, R2)
        BY <4>3
      <4>5. R2 \subseteq Copied /\ IsFiniteSet(R2) /\ path \notin R2
        BY <4>4 DEF Tame
      <4>6. OneIsTaken(open, path, R1, R2)
        BY <2>4, <2>5, <2>8, <4>2, <4>3, <4>4, <4>5 DEF OneIsTaken
      <4> QED BY <4>4, <4>6
    <3> QED BY <3>1, <3>2
  <2>10. PICK R2 : OneIsTaken(open, path, R1, R2) /\ opening \cap R2 = {} /\ LiesBy(path, R2)
    BY <2>9
  <2>11. Suffices(open, path, {path} \cup (R1 \cup R2))
    BY <1>3, <1>6, <2>10, StandsOver
  <2>12. opening \cap ({path} \cup (R1 \cup R2)) = {}
    BY <2>8, <2>10
  <2>13. LiesBy(path, {path} \cup (R1 \cup R2))
    BY <1>4, <2>8, <2>10 DEF LiesBy
  <2> QED BY <2>11, <2>12, <2>13
<1> QED BY <1>5, <1>6

LEMMA AllAlwaysNeedFew ==
    ASSUME HostInv, NEW open, Opens(open, MaxParents), NEW left \in 0..MaxParents
    PROVE  AllNeedFew(open, left)
<1> DEFINE S == {m \in 0..MaxParents : ~AllNeedFew(open, m)}
<1>1. SUFFICES ASSUME S # {} PROVE FALSE
  OBVIOUS
<1>2. PICK m \in S : \A i \in S : m <= i
  <2>1. S \subseteq Nat
    OBVIOUS
  <2> QED BY <1>1, <2>1, LeastOf
<1>3. m # 0 => AllNeedFew(open, m - 1)
  <2>1. SUFFICES ASSUME m # 0 PROVE AllNeedFew(open, m - 1)
    OBVIOUS
  <2>2. m - 1 \in 0..MaxParents /\ ~(m <= m - 1)
    BY <1>2, <2>1, ChainAssumption
  <2> QED BY <1>2, <2>2
<1>4. m \in 0..MaxParents
  BY <1>2
<1>5. AllNeedFew(open, m)
  BY <1>3, <1>4, OpenedNeedsFew
<1> QED BY <1>2, <1>5

-----------------------------------------------------------------------------
(* A disk whose files are all in reach.  Complete is a recursive function:  *)
(* there is one that meets its equation, true of the members of the sets    *)
(* that have a right base for each of their own.                            *)
RightOne(path, c) == files[c].n = BaseOf(path).disk /\ files[c].version = BaseOf(path).version

Bases(path) == {Beside(path, BaseOf(path)), Pointed(BaseOf(path))} \cap Copied

WholeFile(path) == files[path].kept = files[path].places

Closed(S) ==
    \A p \in S : WholeFile(p) /\ (BaseOf(p) = None \/ \E c \in Bases(p) : RightOne(p, c) /\ c \in S)

Provided == UNION {S \in SUBSET Copied : Closed(S)}

LEMMA ProvidedIs ==
    ASSUME NEW path \in Copied
    PROVE  (path \in Provided) <=>
              WholeFile(path) /\ (BaseOf(path) = None \/ \E c \in Bases(path) : RightOne(path, c) /\ c \in Provided)
<1>1. PICK U : U = Provided
  OBVIOUS
<1>2. ASSUME path \in U
      PROVE  WholeFile(path) /\ (BaseOf(path) = None \/ \E c \in Bases(path) : RightOne(path, c) /\ c \in U)
  <2>1. PICK S \in SUBSET Copied : Closed(S) /\ path \in S
    BY <1>1, <1>2 DEF Provided
  <2>2. S \subseteq U
    BY <1>1, <2>1 DEF Provided
  <2> QED BY <2>1, <2>2 DEF Closed
<1>3. ASSUME WholeFile(path), BaseOf(path) = None PROVE path \in U
  <2>1. Closed({path})
    BY <1>3 DEF Closed
  <2> QED BY <1>1, <2>1 DEF Provided
<1>4. ASSUME WholeFile(path), NEW c \in Bases(path), RightOne(path, c), c \in U PROVE path \in U
  <2>1. PICK S \in SUBSET Copied : Closed(S) /\ c \in S
    BY <1>1, <1>4 DEF Provided
  <2>2. PICK T : T = S \cup {path}
    OBVIOUS
  <2>3. Closed(T)
    BY <1>4, <2>1, <2>2 DEF Closed
  <2>4. T \in SUBSET Copied /\ path \in T
    BY <2>1, <2>2
  <2> QED BY <1>1, <2>3, <2>4 DEF Provided
<1> QED BY <1>1, <1>2, <1>3, <1>4

LEMMA CompleteIs ==
    ASSUME NEW path \in Copied, Complete(path)
    PROVE  BaseOf(path) = None \/ \E c \in Bases(path) : RightOne(path, c) /\ Complete(c)
<1> DEFINE Body(is, p) ==
               LET f == files[p]
                   base == f.disk.base
               IN /\ f.kept = f.places
                  /\ base = None \/ \E c \in {Beside(p, base), Pointed(base)} \cap Copied :
                         files[c].n = base.disk /\ files[c].version = base.version /\ is[c]
           complete == CHOOSE complete : complete = [p \in Copied |->
               LET f == files[p]
                   base == f.disk.base
               IN /\ f.kept = f.places
                  /\ base = None \/ \E c \in {Beside(p, base), Pointed(base)} \cap Copied :
                         files[c].n = base.disk /\ files[c].version = base.version /\ complete[c]]
           is == [p \in Copied |-> p \in Provided]
<1>1. ASSUME NEW p \in Copied PROVE is[p] = Body(is, p)
  <2>1. (p \in Provided) <=>
           WholeFile(p) /\ (BaseOf(p) = None \/ \E c \in Bases(p) : RightOne(p, c) /\ c \in Provided)
    BY ProvidedIs
  <2>2. \A c \in Copied : is[c] <=> c \in Provided
    OBVIOUS
  <2>3. Body(is, p) <=> WholeFile(p) /\ (BaseOf(p) = None \/ \E c \in Bases(p) : RightOne(p, c) /\ is[c])
    BY DEF WholeFile, BaseOf, Bases, RightOne
  <2>4. \A c \in Bases(p) : c \in Copied
    BY DEF Bases
  <2>5. is[p] <=> Body(is, p)
    <3> HIDE DEF is, Body
    <3> QED BY <2>1, <2>2, <2>3, <2>4
  <2>6. is[p] \in BOOLEAN /\ Body(is, p) \in BOOLEAN
    OBVIOUS
  <2> QED BY <2>5, <2>6
<1>2. is = [p \in Copied |-> Body(is, p)]
  <2> HIDE DEF Body
  <2> QED BY <1>1
<1>3. complete = [p \in Copied |-> Body(complete, p)]
  <2> HIDE DEF is
  <2> QED BY <1>2
<1>4. \A p : Complete(p) = complete[p]
  BY DEF Complete
<1> HIDE DEF complete
<1>5. complete[path] = Body(complete, path)
  BY <1>3
<1>6. complete[path]
  BY <1>4
<1>7. BaseOf(path) = None \/ \E c \in Bases(path) : RightOne(path, c) /\ complete[c]
  BY <1>5, <1>6 DEF BaseOf, Bases, RightOne
<1> QED BY <1>4, <1>7

(* What a file that is needed itself needs: files of the disks below, and   *)
(* the wrong ones that lie in "base" where it looks first.                  *)
Astray(path, r) == kind \notin Qcow /\ path[1] = "here" /\ r[1] = "base"

Near(path, R) ==
    /\ path[1] = "base" => \A r \in R : r[1] = "base"
    /\ \A r \in R : files[r].n <= files[path].n \/ Astray(path, r)

Nearer(path, R) ==
    /\ path[1] = "base" => \A r \in R : r[1] = "base"
    /\ \A r \in R : files[r].n < files[path].n \/ Astray(path, r)

Needed(path) == path \in Copied /\ Complete(path) /\ ~Raw(files[path].n)

HasNear(open, path) == \E R : Suffices(open, path, R) /\ Near(path, R)

LEMMA RightIsTaken ==
    ASSUME HostInv, CutShort = {}, NEW path \in Copied, NEW c \in Copied, BaseOf(path) # None, RightOne(path, c)
    PROVE  Verdict(path, c) = "" /\ (~OverRaw(path) => ~Raw(files[c].n) /\ ~Foreign(c))
<1>1. OverRaw(path) => Verdict(path, c) = ""
  BY DEF Verdict
<1>2. ASSUME ~OverRaw(path) PROVE ~Raw(files[c].n)
  BY <1>2 DEF OverRaw, RightOne, Raw
<1>3. ASSUME ~OverRaw(path) PROVE ~Foreign(c)
  BY <1>2, <1>3, WholeHolds DEF Foreign
<1>4. IsBase(files[c], BaseOf(path))
  <2>1. kind \in {"VHD", "VHDX", "VMDK", "QCOW", "QCOWX"}
    BY HostAssumption DEF HostInv, DisksKept
  <2> QED BY <2>1 DEF RightOne, IsBase, HasUniqueId, HasDataWriteGuid, HasContentId
<1>5. ASSUME ~OverRaw(path) PROVE Verdict(path, c) = ""
  BY <1>3, <1>4, <1>5 DEF Verdict
<1> QED BY <1>1, <1>2, <1>3, <1>5

LEMMA NearerIf ==
    ASSUME HostInv, CopiesInv, NEW path \in Copied, NEW c \in Copied, BaseOf(path) # None,
           files[c].n = BaseOf(path).disk, path[1] = "base" => c[1] = "base",
           NEW R, R \subseteq Copied, Near(c, R)
    PROVE  Nearer(path, R) /\ path \notin R
<1>1. files[path].n \in Nat /\ files[c].n \in Nat /\ files[c].n < files[path].n
  BY BaseIsBelow
<1>2. path[1] \in {"here", "base"}
  BY DEF CopiesInv, Paths, Folders
<1>3. ASSUME NEW r \in R PROVE files[r].n < files[path].n \/ Astray(path, r)
  <2>1. files[r].n \in Nat
    BY BaseIsBelow
  <2>2. CASE files[r].n <= files[c].n
    <3>1. PICK a, b, d : a = files[r].n /\ b = files[c].n /\ d = files[path].n
      OBVIOUS
    <3>2. a \in Nat /\ b \in Nat /\ d \in Nat /\ a <= b /\ b < d
      BY <1>1, <2>1, <2>2, <3>1
    <3>3. a < d
      BY ONLY <3>2
    <3> QED BY <3>1, <3>3
  <2>3. CASE Astray(c, r)
    BY <1>2, <2>3 DEF Astray
  <2> QED BY <2>2, <2>3 DEF Near
<1>4. path[1] = "base" => \A r \in R : r[1] = "base"
  BY DEF Near
<1>5. ~(files[path].n < files[path].n) /\ ~Astray(path, path)
  <2>1. ~(files[path].n < files[path].n)
    BY <1>1
  <2> QED BY <2>1 DEF Astray
<1>6. path \notin R
  BY <1>3, <1>5
<1> QED BY <1>3, <1>4, <1>6 DEF Nearer

(* The right base of a file that is needed.                                 *)
LEMMA RightIsTame ==
    ASSUME HostInv, CopiesInv, CutShort = {}, NEW open, NEW path \in Copied, BaseOf(path) # None,
           NEW i \in 1..2, NEW c \in Copied, c = Candidate(path, i), RightOne(path, c),
           ~Raw(files[c].n) => HasNear(open, c)
    PROVE  \E R : Tame(open, path, c, R) /\ Nearer(path, R)
<1>1. path[1] = "base" => c[1] = "base"
  BY CandidateIs
<1>2. files[c].n = BaseOf(path).disk
  BY DEF RightOne
<1>3. CASE OverRaw(path)
  <2>1. files[c].n \in Nat
    BY BaseIsBelow
  <2>2. files[c].n <= files[c].n
    BY ONLY <2>1
  <2>3. Near(c, {c})
    BY <2>2 DEF Near
  <2>4. {c} \subseteq Copied
    OBVIOUS
  <2>5. Nearer(path, {c}) /\ path \notin {c}
    BY <1>1, <1>2, <2>3, <2>4, NearerIf
  <2>6. Tame(open, path, c, {c})
    BY <1>3, <2>5, TameByItself
  <2> QED BY <2>5, <2>6
<1>4. CASE ~OverRaw(path)
  <2>1. ~Raw(files[c].n)
    BY <1>4, RightIsTaken
  <2>2. PICK R : Suffices(open, c, R) /\ Near(c, R)
    BY <2>1 DEF HasNear
  <2>3. R \subseteq Copied /\ IsFiniteSet(R) /\ c \in R
    BY <2>2 DEF Suffices
  <2>4. Nearer(path, R) /\ path \notin R
    BY <1>1, <1>2, <2>2, <2>3, NearerIf
  <2>5. Tame(open, path, c, R)
    BY <2>2, <2>3, <2>4 DEF Tame
  <2> QED BY <2>4, <2>5
<1> QED BY <1>3, <1>4

(* The first candidate of a file in "here" that is needed, when it is not   *)
(* the right one: it is passed over by what opens it, of other files or of  *)
(* those that files needed before this one need.                            *)
OthersOpen(open) ==
    \A q \in Copied : ~Complete(q) /\ ~Raw(files[q].n) => Opening(open, MaxParents, q, {}) = ""

Before(path, q) ==
    IF path[1] = "base" THEN q[1] = "base" /\ files[q].n < files[path].n
    ELSE q[1] = "base" \/ files[q].n < files[path].n

NearBefore(open, path) == \A q : Needed(q) /\ Before(path, q) => HasNear(open, q)

Led(path, c) == IF kind \in Qcow THEN files[c].n = BaseOf(path).disk ELSE c[1] = "base"

LEMMA FirstIsLed ==
    ASSUME CopiesInv, NEW path \in Copied, NEW c \in Copied, c = Candidate(path, 1), kind \in Qcow => Named
    PROVE  Led(path, c)
<1>1. CASE kind \in Qcow
  <2>1. c[2] = BaseOf(path).disk
    <3>1. 1 \in 1..2
      OBVIOUS
    <3> QED BY <3>1, CandidateIs
  <2> QED BY <1>1, <2>1 DEF Led, Named
<1>2. CASE kind \notin Qcow
  <2>1. c = Pointed(BaseOf(path))
    BY <1>2 DEF Candidate, Candidates
  <2> QED BY <1>2, <2>1 DEF Led, Pointed
<1> QED BY <1>1, <1>2

LEMMA LedIsNearer ==
    ASSUME HostInv, CopiesInv, NEW path \in Copied, path[1] = "here", NEW c \in Copied, BaseOf(path) # None,
           Led(path, c), NEW R, R \subseteq Copied, Near(c, R) \/ LiesBy(c, R), kind \in Qcow => Named
    PROVE  Nearer(path, R) /\ path \notin R
<1>1. CASE kind \in Qcow
  <2>1. Near(c, R)
    BY <1>1 DEF Near, LiesBy
  <2>2. files[c].n = BaseOf(path).disk
    BY <1>1 DEF Led
  <2>3. path[1] = "base" => c[1] = "base"
    OBVIOUS
  <2> QED BY <2>1, <2>2, <2>3, NearerIf
<1>2. CASE kind \notin Qcow
  <2>1. c[1] = "base"
    BY <1>2 DEF Led
  <2>2. \A r \in R : r[1] = "base"
    BY <2>1 DEF Near, LiesBy
  <2> QED BY <1>2, <2>2 DEF Nearer, Astray
<1> QED BY <1>1, <1>2

LEMMA OtherIsTame ==
    ASSUME HostInv, CopiesInv, NEW open, Opens(open, MaxParents), NEW path \in Copied, path[1] = "here",
           BaseOf(path) # None, NEW c \in Copied, c = Candidate(path, 1), kind \in Qcow => Named,
           OthersOpen(open), NearBefore(open, path)
    PROVE  \E R : Tame(open, path, c, R) /\ Nearer(path, R)
<1>1. Led(path, c)
  BY FirstIsLed
<1>2. CASE OverRaw(path) \/ Foreign(c)
  <2>1. files[c].n <= files[c].n
    <3>1. files[c].n \in Nat
      BY BaseIsBelow
    <3> QED BY ONLY <3>1
  <2>2. Near(c, {c}) /\ {c} \subseteq Copied
    BY <2>1 DEF Near
  <2>3. Nearer(path, {c}) /\ path \notin {c}
    BY <1>1, <2>2, LedIsNearer
  <2>4. Tame(open, path, c, {c})
    BY <1>2, <2>3, TameByItself
  <2> QED BY <2>3, <2>4
<1>3. CASE ~OverRaw(path) /\ ~Foreign(c)
  <2>1. \E R : Suffices(open, c, R) /\ (Near(c, R) \/ LiesBy(c, R))
    <3>1. ~Raw(files[c].n)
      BY <1>1, <1>3 DEF Led, OverRaw, Raw
    <3>2. CASE Complete(c)
      <4>1. c[1] = "base" \/ files[c].n < files[path].n
        BY <1>1, BaseIsBelow DEF Led
      <4>2. Needed(c) /\ Before(path, c)
        BY <3>1, <3>2, <4>1 DEF Needed, Before
      <4> QED BY <4>2 DEF NearBefore, HasNear
    <3>3. CASE ~Complete(c)
      <4>1. Opening(open, MaxParents, c, {}) = ""
        BY <3>1, <3>3 DEF OthersOpen
      <4>2. MaxParents \in 0..MaxParents
        BY ChainAssumption
      <4>3. NeedsFew(open, MaxParents, c, {})
        BY <4>2, AllAlwaysNeedFew DEF AllNeedFew
      <4> QED BY <4>1, <4>3 DEF NeedsFew
    <3> QED BY <3>2, <3>3
  <2>2. PICK R : Suffices(open, c, R) /\ (Near(c, R) \/ LiesBy(c, R))
    BY <2>1
  <2>3. R \subseteq Copied /\ IsFiniteSet(R) /\ c \in R
    BY <2>2 DEF Suffices
  <2>4. Nearer(path, R) /\ path \notin R
    BY <1>1, <2>2, <2>3, LedIsNearer
  <2>5. Tame(open, path, c, R)
    BY <2>2, <2>3, <2>4 DEF Tame
  <2> QED BY <2>4, <2>5
<1> QED BY <1>2, <1>3

(* A file that is needed opens by files near it, when those before it do.   *)
LEMMA NeededHasNear ==
    ASSUME HostInv, CopiesInv, CutShort = {}, NEW open, Opens(open, MaxParents), NEW path, Needed(path),
           kind \in Qcow => Named, path[1] = "base" \/ OthersOpen(open), NearBefore(open, path)
    PROVE  HasNear(open, path)
<1>1. path \in Copied /\ Complete(path) /\ HoldsItself(files[path])
  BY WholeHolds DEF Needed
<1>2. path[1] \in {"here", "base"}
  BY <1>1 DEF CopiesInv, Paths, Folders
<1>3. files[path].n <= files[path].n /\ \A r \in Copied : files[r].n \in Nat
  <2>1. \A r \in Copied : files[r].n \in Nat
    BY BaseIsBelow
  <2>2. files[path].n \in Nat
    BY <1>1, <2>1
  <2>3. files[path].n <= files[path].n
    BY ONLY <2>2
  <2> QED BY <2>1, <2>3
<1>4. CASE BaseOf(path) = None
  <2>1. Suffices(open, path, {path})
    BY <1>1, <1>4, StandsAlone
  <2>2. Near(path, {path})
    BY <1>3 DEF Near
  <2> QED BY <2>1, <2>2 DEF HasNear
<1>5. CASE BaseOf(path) # None
  <2>1. PICK c \in Bases(path) : RightOne(path, c) /\ Complete(c)
    BY <1>1, <1>5, CompleteIs
  <2>2. c \in Copied /\ (c = Candidate(path, 1) \/ c = Candidate(path, 2))
    BY <2>1 DEF Bases, Candidate, Candidates
  <2>3. ASSUME ~Raw(files[c].n) PROVE HasNear(open, c)
    <3>1. files[c].n < files[path].n
      BY <1>1, <1>5, <2>1, BaseIsBelow DEF RightOne
    <3>2. path[1] = "base" => c[1] = "base"
      BY <2>1 DEF Bases, Beside, Pointed
    <3>3. Needed(c) /\ Before(path, c)
      BY <2>1, <2>2, <2>3, <3>1, <3>2 DEF Needed, Before
    <3> QED BY <3>3 DEF NearBefore
  <2>4. Verdict(path, c) = ""
    BY <1>1, <1>5, <2>1, <2>2, RightIsTaken
  <2>5. ASSUME NEW i \in 1..2, c = Candidate(path, i)
        PROVE  \E R : Tame(open, path, c, R) /\ Nearer(path, R)
    <3>1. RightOne(path, c)
      BY <2>1
    <3> QED BY <1>1, <1>5, <2>2, <2>3, <2>5, <3>1, RightIsTame
  <2>6. \E R1, R2 : OneIsTaken(open, path, R1, R2) /\ Nearer(path, R1) /\ Nearer(path, R2)
    <3>1. 1 \in 1..2 /\ 2 \in 1..2
      BY ONLY TRUE
    <3>2. Nearer(path, {}) /\ IsFiniteSet({})
      BY FS_EmptySet DEF Nearer
    <3>3. CASE c = Candidate(path, 1)
      <4>1. PICK R1 : Tame(open, path, c, R1) /\ Nearer(path, R1)
        BY <2>5, <3>1, <3>3
      <4>2. OneIsTaken(open, path, R1, {})
        BY <2>4, <3>2, <3>3, <4>1 DEF OneIsTaken
      <4> QED BY <3>2, <4>1, <4>2
    <3>4. CASE c # Candidate(path, 1)
      <4>1. c = Candidate(path, 2)
        BY <2>2, <3>4
      <4>2. path[1] = "here"
        <5>1. ASSUME path[1] = "base" PROVE Candidate(path, 1) = Candidate(path, 2)
          BY <5>1 DEF Candidate, Candidates, Beside, Pointed
        <5> QED BY <1>2, <3>4, <4>1, <5>1
      <4>3. PICK d : d = Candidate(path, 1)
        OBVIOUS
      <4>4. \E R1 : Tame(open, path, d, R1) /\ Nearer(path, R1)
        <5>1. CASE d \notin Copied
          <6>1. Tame(open, path, d, {})
            BY <3>2, <5>1 DEF Tame
          <6> QED BY <3>2, <6>1
        <5>2. CASE d \in Copied
          <6>1. OthersOpen(open)
            BY <4>2
          <6> QED BY <1>1, <1>5, <4>2, <4>3, <5>2, <6>1, OtherIsTame
        <5> QED BY <5>1, <5>2
      <4>5. PICK R1 : Tame(open, path, d, R1) /\ Nearer(path, R1)
        BY <4>4
      <4>6. PICK R2 : Tame(open, path, c, R2) /\ Nearer(path, R2)
        BY <2>5, <3>1, <4>1
      <4>7. R2 \subseteq Copied /\ IsFiniteSet(R2) /\ path \notin R2
        BY <4>6 DEF Tame
      <4>8. OneIsTaken(open, path, R1, R2)
        BY <2>4, <4>1, <4>3, <4>5, <4>6, <4>7 DEF OneIsTaken
      <4> QED BY <4>5, <4>6, <4>8
    <3> QED BY <3>3, <3>4
  <2>7. PICK R1, R2 : OneIsTaken(open, path, R1, R2) /\ Nearer(path, R1) /\ Nearer(path, R2)
    BY <2>6
  <2>8. PICK R : R = {path} \cup (R1 \cup R2)
    OBVIOUS
  <2>9. Suffices(open, path, R)
    BY <1>1, <1>5, <2>7, <2>8, StandsOver
  <2>10. Near(path, R)
    <3>1. ASSUME NEW r \in R PROVE files[r].n <= files[path].n \/ Astray(path, r)
      <4>1. CASE r = path
        BY <1>3, <4>1
      <4>2. CASE r # path
        <5>1. files[r].n < files[path].n \/ Astray(path, r)
          BY <2>7, <2>8, <4>2 DEF Nearer
        <5>2. files[r].n \in Nat /\ files[path].n \in Nat
          BY <1>1, <1>3, <2>9 DEF Suffices
        <5>3. files[r].n < files[path].n => files[r].n <= files[path].n
          BY ONLY <5>2
        <5> QED BY <5>1, <5>3
      <4> QED BY <4>1, <4>2
    <3>2. path[1] = "base" => \A r \in R : r[1] = "base"
      BY <2>7, <2>8 DEF Nearer
    <3> QED BY <3>1, <3>2 DEF Near
  <2> QED BY <2>9, <2>10 DEF HasNear
<1> QED BY <1>4, <1>5

(* So each does: those of "base" first, and the rest over them.             *)
LEMMA LowestHasNear ==
    ASSUME HostInv, CopiesInv, CutShort = {}, NEW open, Opens(open, MaxParents), kind \in Qcow => Named,
           NEW P, \A q \in P : Needed(q) /\ (q[1] = "base" \/ OthersOpen(open)),
           \A q \in P : \A r : Needed(r) /\ Before(q, r) => r \in P \/ HasNear(open, r),
           \A q \in P : \A r \in P : Before(q, r) => files[r].n < files[q].n
    PROVE  \A q \in P : HasNear(open, q)
<1> DEFINE S == {files[q].n : q \in {p \in P : ~HasNear(open, p)}}
<1>1. SUFFICES ASSUME S # {} PROVE FALSE
  OBVIOUS
<1>2. \A q \in P : files[q].n \in Nat
  BY BaseIsBelow DEF Needed
<1>3. PICK m \in S : \A i \in S : m <= i
  <2>1. S \subseteq Nat
    BY <1>2
  <2> QED BY <1>1, <2>1, LeastOf
<1>4. PICK q \in P : m = files[q].n /\ ~HasNear(open, q)
  BY <1>3
<1>5. ASSUME NEW r, Needed(r), Before(q, r), ~HasNear(open, r) PROVE FALSE
  <2>1. r \in P /\ files[r].n < files[q].n
    BY <1>5
  <2>2. files[r].n \in S
    BY <1>5, <2>1
  <2>3. files[q].n <= files[r].n
    BY <1>3, <1>4, <2>2
  <2>4. files[q].n \in Nat /\ files[r].n \in Nat
    BY <1>2, <2>1
  <2> QED BY ONLY <2>1, <2>3, <2>4
<1>6. NearBefore(open, q)
  BY <1>5 DEF NearBefore
<1>7. HasNear(open, q)
  <2>1. Needed(q) /\ (q[1] = "base" \/ OthersOpen(open))
    BY <1>4
  <2> QED BY <1>6, <2>1, NeededHasNear
<1> QED BY <1>4, <1>7

LEMMA AllHaveNear ==
    ASSUME HostInv, CopiesInv, CutShort = {}, NEW open, Opens(open, MaxParents), kind \in Qcow => Named,
           OthersOpen(open), NEW path, Needed(path)
    PROVE  HasNear(open, path)
<1>1. PICK Based : Based = {q \in Copied : Needed(q) /\ q[1] = "base"}
  OBVIOUS
<1>2. \A q \in Based : HasNear(open, q)
  <2>1. \A q \in Based : Needed(q) /\ (q[1] = "base" \/ OthersOpen(open))
    BY <1>1
  <2>2. \A q \in Based : \A r : Needed(r) /\ Before(q, r) => r \in Based \/ HasNear(open, r)
    BY <1>1 DEF Before, Needed
  <2>3. \A q \in Based : \A r \in Based : Before(q, r) => files[r].n < files[q].n
    BY <1>1 DEF Before
  <2> QED BY <2>1, <2>2, <2>3, LowestHasNear
<1>3. PICK Here : Here = {q \in Copied : Needed(q) /\ q[1] # "base"}
  OBVIOUS
<1>4. \A q \in Here : HasNear(open, q)
  <2>1. \A q \in Here : Needed(q) /\ (q[1] = "base" \/ OthersOpen(open))
    BY <1>3
  <2>2. \A q \in Here : \A r : Needed(r) /\ Before(q, r) => r \in Here \/ HasNear(open, r)
    BY <1>1, <1>2, <1>3 DEF Needed
  <2>3. \A q \in Here : \A r \in Here : Before(q, r) => files[r].n < files[q].n
    BY <1>3 DEF Before
  <2> QED BY <2>1, <2>2, <2>3, LowestHasNear
<1> QED BY <1>1, <1>2, <1>3, <1>4 DEF Needed

(* A disk whose files are all in reach and whole is opened and read through *)
(* to the end (_vhd_open_parent, _vmdk_open_parent, _vhdx_open_parent),     *)
(* where no more files lie about than may be opened over each other, the    *)
(* first and _VIRTUAL_MAX_PARENTS.                                          *)
THEOREM WhatIsThereIsAlwaysRead == MaxFiles <= MaxParents + 1 => (ChainSpec => []WhatIsThereIsRead)
<1> SUFFICES ASSUME MaxFiles <= MaxParents + 1 PROVE ChainSpec => []WhatIsThereIsRead
  OBVIOUS
<1>1. /\ MaxFiles \in Nat /\ MaxParents \in Nat /\ MaxFiles <= MaxParents + 1
      /\ MaxParents \in 0..MaxParents
  BY HostAssumption, ChainAssumption
<1>2. HostInv /\ CopiesInv => WhatIsThereIsRead
  <2> DEFINE open == CHOOSE open : open = [left \in 0..MaxParents |-> OpenOver(left, open[left - 1])]
  <2>1. Opens(open, MaxParents)
    <3>1. \E o : Opens(o, MaxParents)
      BY OpensExist, ChainAssumption
    <3> QED BY <3>1 DEF Opens
  <2>2. \A path : Open(path).refused = Opening(open, MaxParents, path, {})
    BY DEF Open, Opening
  <2> HIDE DEF open
  <2> SUFFICES ASSUME HostInv, CopiesInv, CutShort = {}, kind \in Qcow => Named,
                      \A q \in Copied : ~Needed(q) /\ ~Raw(files[q].n) => Open(q).refused = "",
                      NEW path \in Copied, Needed(path)
               PROVE  /\ Open(path).refused = ""
                      /\ \A b \in DOMAIN files[path].disk.view : \A s \in Sectors :
                            ReadSector(Open(path).chain, b, s) # Unread
    BY DEF WhatIsThereIsRead, Needed, Named
  <2>3. OthersOpen(open)
    BY <2>2 DEF OthersOpen, Needed
  <2>4. PICK R : Suffices(open, path, R)
    <3>1. HasNear(open, path)
      BY <2>1, <2>3, AllHaveNear
    <3> QED BY <3>1 DEF HasNear
  <2>5. Cardinality(R) <= MaxParents + 1
    <3>1. R \subseteq Copied /\ IsFiniteSet(Copied) /\ Cardinality(Copied) <= MaxFiles
      BY <2>4 DEF Suffices, CopiesInv
    <3>2. IsFiniteSet(R) /\ Cardinality(R) <= Cardinality(Copied)
      BY <3>1, FS_Subset
    <3>3. Cardinality(R) \in Nat /\ Cardinality(Copied) \in Nat
      BY <3>1, <3>2, FS_CardinalityType
    <3>4. PICK r, k : r = Cardinality(R) /\ k = Cardinality(Copied)
      OBVIOUS
    <3>5. r \in Nat /\ k \in Nat /\ r <= k /\ k <= MaxFiles
      BY <3>1, <3>2, <3>3, <3>4
    <3>6. r <= MaxParents + 1
      BY ONLY <1>1, <3>5
    <3> QED BY ONLY <3>4, <3>6
  <2>6. Open(path).refused = ""
    <3>1. {} \in SUBSET Copied /\ {} \cap R = {}
      OBVIOUS
    <3>2. Opening(open, MaxParents, path, {}) = ""
      BY <1>1, <2>4, <2>5, <3>1 DEF Suffices
    <3> QED BY <2>2, <3>2
  <2>7. PICK chain : chain = Open(path).chain
    OBVIOUS
  <2>8. Linked(path, chain)
    BY <2>6, <2>7, OpenAnswers DEF Answers
  <2>9. ASSUME NEW b \in DOMAIN files[path].disk.view, NEW s \in Sectors
        PROVE  ReadSector(Open(path).chain, b, s) # Unread
    <3>1. PICK f : f = files[path]
      OBVIOUS
    <3>2. DOMAIN f.disk.view = 1..Len(f.disk.table) /\ Len(f.disk.table) \in Nat
      BY <3>1, FileIs
    <3>3. PICK n \in Nat : n = Len(f.disk.table)
      BY <3>2
    <3>4. b \in 1..n
      BY <3>1, <3>2, <3>3
    <3>5. b \in Nat \ {0}
      BY ONLY n \in Nat, <3>4
    <3>6. ReadSector(chain, b, s) # Unread
      BY <2>8, <3>5, SectorIsRead
    <3> QED BY ONLY <2>7, <3>6
  <2> QED BY <2>6, <2>9
<1> QED BY <1>2, HostKept, CopiesKept, PTL

-----------------------------------------------------------------------------
(* The log of a VHDX.                                                       *)

-----------------------------------------------------------------------------
(* What the writer of a VHDX keeps.  Where the i-th entry lies, sector by   *)
(* sector, and whether it is all there.                                     *)
Count == Len(entries)
Base == Len(hist) - Len(entries)

Issued(i) == entries[i].state = "issued"
Done(i) == entries[i].state = "done"
Where(i, k) == At(entries[i].from + k)
Said(i, k) == IF k = 0 THEN entries[i].head ELSE entries[i].head.sum[k]
OnMedium(i) == \A k \in 0..(entries[i].head.len - 1) : ring[Where(i, k)] = Said(i, k)
Reaches(l) == \A i \in 1..l : Issued(i) => OnMedium(i)

Tables == [Blocks -> Nat]

(* An entry: what its head says of the table it makes of the one before.    *)
HeadKept(head, i) ==
    /\ head.kind = "loge" /\ head.guid = session /\ head.seq = i
    /\ head.flushed \in Nat /\ head.last \in Nat /\ head.flushed <= stable
    /\ \/ head.len = 1 /\ head.sum = <<>> /\ head.desc = {}
       \/ /\ head.len = 2
          /\ \E p \in 0..head.last : head.sum = <<[kind |-> "data", seq |-> i, place |-> p]>>

Makes(head, old, new) ==
    \A b \in Blocks :
        /\ new[b] = IF b \in head.zero THEN 0 ELSE IF b \in head.desc THEN head.sum[1].place ELSE old[b]
        /\ new[b] <= head.last

EntryKept(e, i) ==
    /\ HeadKept(e.head, i)
    /\ e.from \in Nat /\ e.first \in 1..i
    /\ e.head.tail = At(entries[e.first].from)
    /\ e.state \in {"issued", "flushed", "applied", "done"}
    /\ e.table = hist[Base + i]
    /\ Makes(e.head, hist[Base + i - 1], e.table)
    /\ e.state = "done" => e.head.last <= stable
    /\ e.state = "applied" => e.head.last <= extended

EntriesKept == \A i \in 1..Count : EntryKept(entries[i], i)

(* The entries follow one another, and are flushed, put into the table and  *)
(* done with in order; what is before the first that one names is done.     *)
InOrder ==
    \A i \in 1..Count :
        /\ i = 1 => entries[i].from = 0
        /\ i > 1 => /\ entries[i].from = entries[i - 1].from + entries[i - 1].head.len
                    /\ entries[i - 1].first <= entries[i].first
        /\ \A j \in 1..(i - 1) :
              /\ Issued(j) => Issued(i)
              /\ entries[i].state \in {"applied", "done"} => Done(j)
              /\ j < entries[i].first => Done(j)

(* The log has room for those that must stay.                               *)
Room == \A i \in Kept..Count : Logged <= entries[i].from + LogSectors

(* What is on the medium, or will be.                                       *)
RingKept ==
    \A x \in Ring :
        /\ ring[x].kind \in {"blank", "loge", "data"}
        /\ ring[x].kind = "loge" =>
              /\ ring[x].guid \in 1..session
              /\ ring[x].guid = session => \E i \in 1..Count : x = Where(i, 0) /\ ring[x] = entries[i].head

Writing(to, at, what) == [to |-> to, at |-> at, what |-> what]

Landing(i, k) == Issued(i) /\ Writing("ring", Where(i, k), Said(i, k)) \in pending

LogLanded ==
    \A i \in Kept..Count : \A k \in 0..(entries[i].head.len - 1) :
        ring[Where(i, k)] = Said(i, k) \/ Landing(i, k)

(* The table has what is done, and what is being applied or will.           *)
LastDone(i) == (i = 0 \/ Done(i)) /\ (i = Count \/ ~Done(i + 1))

BatKept ==
    /\ \A i \in 0..Count : LastDone(i) =>
          \A b \in Blocks :
              \/ bat[b] = hist[Base + i][b]
                 /\ (i < Count /\ entries[i + 1].state = "applied" =>
                        \/ hist[Base + i + 1][b] = bat[b]
                        \/ Writing("bat", b, hist[Base + i + 1][b]) \in pending)
              \/ i < Count /\ entries[i + 1].state = "applied" /\ bat[b] = hist[Base + i + 1][b]

SizeKept ==
    /\ stable <= size /\ stable <= extended
    /\ extended <= size \/ Writing("size", 0, extended) \in pending

RingWrite(w) == \E i \in 1..Count : Issued(i) /\ \E k \in 0..(entries[i].head.len - 1) : w = Writing("ring", Where(i, k), Said(i, k))
BatWrite(w) == \E i \in 1..Count : entries[i].state = "applied" /\ \E b \in Blocks : w = Writing("bat", b, hist[Base + i][b])
SizeWrite(w) == \E n \in Nat : w = Writing("size", 0, n)

HistKept ==
    /\ Count < Len(hist)
    /\ \A i, j \in 1..Len(hist) : hist[i] = hist[j] => i = j
    /\ \A b \in Blocks : hist[Base][b] <= stable /\ hist[Len(hist)][b] <= places

(* The header that is current says which log there is, if any; another is   *)
(* written over the other one.                                              *)
Newest(h, guid) == headers[h].ok /\ headers[h].guid = guid /\ headers[3 - h].seq < headers[h].seq

Turning(old, new) ==
    \E h \in 1..2 :
        \/ pending = {} /\ Newest(h, new)
        \/ /\ Newest(h, old)
           /\ pending = {Writing("header", 3 - h, [seq |-> headers[h].seq + 1, guid |-> new, ok |-> TRUE])}

AllDone == \A i \in 1..Count : Done(i)

PhaseKept ==
    /\ phase # "closed" => session > 0
    /\ \/ phase = "closed" /\ AllDone /\ pending = {} /\ \E h \in 1..2 : Newest(h, 0)
       \/ phase = "opening" /\ entries = <<>> /\ Turning(0, session)
       \/ phase = "closing" /\ AllDone /\ Turning(session, 0)
       \/ /\ phase = "open" /\ \E h \in 1..2 : Newest(h, session)
          /\ \A w \in pending : RingWrite(w) \/ BatWrite(w) \/ SizeWrite(w)

(* What is known to be safe, and what a reader was shown, is still there.   *)
SafeKept == safe \in 1..Len(hist) /\ \A i \in 1..Count : Issued(i) => safe < Base + i

ShownKept == shown > 0 /\ \E l \in 0..Count : shown <= Base + l /\ Reaches(l)

Heads == [kind : {"loge"}, guid : Nat, seq : Nat, len : {1, 2}, tail : Nat, flushed : Nat, last : Nat,
          zero : SUBSET Blocks, desc : SUBSET Blocks, sum : Seq([kind : {"data"}, seq : Nat, place : Nat])]
Entries == [from : Nat, head : Heads, first : Nat, table : Tables,
            state : {"issued", "flushed", "applied", "done"}]

HeaderRecords == [seq : Nat, guid : Nat, ok : BOOLEAN]

LogTypes ==
    /\ entries \in Seq(Entries) /\ hist \in Seq(Tables) /\ bat \in Tables
    /\ {size, extended, stable, places, session, safe, shown} \subseteq Nat
    /\ headers \in Seq(HeaderRecords) /\ Len(headers) = 2
    /\ DOMAIN ring = Ring

LogInv ==
    /\ LogTypes /\ EntriesKept /\ InOrder /\ Room
    /\ RingKept /\ LogLanded /\ BatKept /\ SizeKept /\ HistKept /\ PhaseKept /\ SafeKept /\ ShownKept

-----------------------------------------------------------------------------
(* Places in a ring.                                                        *)
LEMMA RingSize == LogSectors \in Nat /\ LogSectors > 1
  BY VhdxAssumption

LEMMA Round == \A n \in Nat \ {0} : \A x \in Nat : x % n \in 0..(n - 1) /\ x = n * (x \div n) + (x % n) /\ x \div n \in Nat
  OBVIOUS

LEMMA AtIsIn == \A x \in Nat : At(x) \in Ring
  BY RingSize DEF At, Ring

LEMMA RoundApart ==
    ASSUME NEW n \in Nat \ {0}, NEW a \in Nat, NEW b \in Nat, a < b, b < a + n
    PROVE  a % n # b % n
<1>1. SUFFICES ASSUME a % n = b % n PROVE FALSE
  OBVIOUS
<1>2. PICK q, p, r : q = a \div n /\ p = b \div n /\ r = a % n
  OBVIOUS
<1>3. a = n * q + r /\ b = n * p + r /\ q \in Nat /\ p \in Nat /\ r \in 0..(n - 1)
  BY <1>1, <1>2, Round
<1>4. b - a = n * (p - q)
  BY <1>3
<1>5. CASE p <= q
  <2>1. n * (p - q) <= 0
    BY <1>3, <1>5
  <2> QED BY <1>4, <2>1
<1>6. CASE p > q
  <2>1. n * (p - q) >= n
    BY <1>3, <1>6
  <2> QED BY <1>4, <2>1
<1> QED BY <1>3, <1>5, <1>6

LEMMA RoundOnce ==
    ASSUME NEW n \in Nat \ {0}, NEW x \in 0..(n - 1), NEW k \in 0..n
    PROVE  (x + k) % n = IF x + k < n THEN x + k ELSE x + k - n
<1>1. PICK y : y = x + k
  OBVIOUS
<1>2. y \in Nat /\ y < 2 * n
  BY <1>1
<1>3. y % n \in 0..(n - 1) /\ y = n * (y \div n) + (y % n) /\ y \div n \in Nat
  BY <1>2, Round
<1>4. PICK q, r : q = y \div n /\ r = y % n
  OBVIOUS
<1>5. q \in Nat /\ r \in 0..(n - 1) /\ y = n * q + r
  BY <1>3, <1>4
<1>6. CASE q = 0
  BY <1>1, <1>4, <1>5, <1>6
<1>7. CASE q = 1
  BY <1>1, <1>4, <1>5, <1>7
<1>8. CASE q > 1
  <2>1. n * q >= 2 * n
    BY <1>5, <1>8
  <2> QED BY <1>2, <1>5, <2>1
<1> QED BY <1>5, <1>6, <1>7, <1>8

LEMMA RoundAgain ==
    ASSUME NEW n \in Nat \ {0}, NEW x \in Nat, NEW k \in 0..n
    PROVE  ((x % n) + k) % n = (x + k) % n
<1>1. PICK q, r : q = x \div n /\ r = x % n
  OBVIOUS
<1>2. r \in 0..(n - 1) /\ x = n * q + r /\ q \in Nat
  BY <1>1, Round
<1>3. PICK z : z = (r + k) % n
  OBVIOUS
<1>4. z = IF r + k < n THEN r + k ELSE r + k - n
  BY <1>2, <1>3, RoundOnce
<1>5. PICK p : p = IF r + k < n THEN q ELSE q + 1
  OBVIOUS
<1>6. p \in Nat /\ z \in 0..(n - 1) /\ x + k = n * p + z
  BY <1>2, <1>4, <1>5
<1>7. PICK y \in Nat : y = x + k
  OBVIOUS
<1>8. PICK a, b : a = y \div n /\ b = y % n
  OBVIOUS
<1>9. a \in Nat /\ b \in 0..(n - 1) /\ x + k = n * a + b
  <2>1. a \in Nat /\ b \in 0..(n - 1) /\ y = n * a + b
    BY <1>8, Round
  <2> QED BY <1>7, <2>1
<1>10. a = p
  <2>1. n * a + b = n * p + z
    BY <1>6, <1>9
  <2>2. CASE a < p
    <3>1. n * a + n <= n * p
      BY <1>6, <1>9, <2>2
    <3> QED BY <1>6, <1>9, <2>1, <3>1
  <2>3. CASE a > p
    <3>1. n * p + n <= n * a
      BY <1>6, <1>9, <2>3
    <3> QED BY <1>6, <1>9, <2>1, <3>1
  <2> QED BY <1>6, <1>9, <2>2, <2>3
<1>11. b = z
  BY <1>6, <1>9, <1>10
<1> QED BY <1>8, <1>1, <1>3, <1>7, <1>11

LEMMA AtAgain ==
    ASSUME NEW x \in Nat, NEW k \in 0..LogSectors
    PROVE  At(At(x) + k) = At(x + k)
<1>1. LogSectors \in Nat \ {0}
  BY RingSize
<1> QED BY <1>1, RoundAgain DEF At

LEMMA AtOnce ==
    ASSUME NEW x \in Ring, NEW k \in 0..LogSectors
    PROVE  At(x + k) = IF x + k < LogSectors THEN x + k ELSE x + k - LogSectors
<1>1. LogSectors \in Nat \ {0} /\ x \in 0..(LogSectors - 1)
  BY RingSize DEF Ring
<1> QED BY <1>1, RoundOnce DEF At

-----------------------------------------------------------------------------
(* What an entry and its head are.                                          *)
LEMMA EntryIs ==
    ASSUME LogTypes, EntriesKept, NEW i \in 1..Count
    PROVE  /\ entries[i] \in Entries /\ entries[i].head \in Heads /\ EntryKept(entries[i], i)
           /\ entries[i].from \in Nat /\ entries[i].first \in 1..i /\ entries[i].head.len \in 1..2
           /\ entries[i].head.last \in Nat /\ i \in Nat /\ Count \in Nat
<1>1. Count \in Nat /\ entries[i] \in Entries /\ i \in Nat
  BY DEF LogTypes, Count
<1>2. PICK e \in Entries : e = entries[i]
  BY <1>1
<1>3. PICK head \in Heads : head = e.head
  BY DEF Entries
<1>4. head.len \in {1, 2} /\ head.last \in Nat
  BY DEF Heads
<1>5. EntryKept(e, i)
  BY <1>2 DEF EntriesKept
<1>6. e.from \in Nat /\ e.first \in 1..i
  BY <1>5 DEF EntryKept
<1> QED BY <1>1, <1>2, <1>3, <1>4, <1>5, <1>6

LEMMA NextFrom ==
    ASSUME LogTypes, EntriesKept, InOrder, NEW i \in 1..Count, i < Count
    PROVE  /\ i + 1 \in 1..Count /\ entries[i + 1].from = entries[i].from + entries[i].head.len
           /\ entries[i].first <= entries[i + 1].first
<1>1. i + 1 \in 1..Count /\ i + 1 > 1 /\ (i + 1) - 1 = i
  BY EntryIs
<1> QED BY <1>1 DEF InOrder

(* Of two entries the later begins where the earlier ends or after it.      *)
LEMMA FromGrows ==
    ASSUME LogTypes, EntriesKept, InOrder, NEW i \in 1..Count, NEW j \in 1..Count
    PROVE  /\ i < j => entries[i].from + entries[i].head.len <= entries[j].from
           /\ i <= j => entries[i].first <= entries[j].first /\ entries[i].from <= entries[j].from
<1> DEFINE Good(m) == /\ i < m => entries[i].from + entries[i].head.len <= entries[m].from
                      /\ entries[i].first <= entries[m].first /\ entries[i].from <= entries[m].from
           S == {m \in i..Count : ~Good(m)}
<1>1. Count \in Nat /\ i \in Nat
  BY EntryIs
<1>2. SUFFICES S = {}
  <2> HIDE DEF Good
  <2>1. ASSUME i <= j PROVE Good(j)
    <3>1. j \in i..Count
      BY <1>1, <2>1
    <3> QED BY <1>2, <3>1
  <2>2. i < j => i <= j
    BY <1>1
  <2> QED BY <2>1, <2>2 DEF Good
<1>3. SUFFICES ASSUME S # {} PROVE FALSE
  OBVIOUS
<1>4. PICK m \in S : \A x \in S : m <= x
  <2>1. S \subseteq Nat
    BY <1>1
  <2> HIDE DEF S
  <2> QED BY <1>3, <2>1, LeastOf
<1>5. m \in i..Count /\ m \in 1..Count /\ ~Good(m)
  BY <1>1, <1>4
<1>6. m # i
  <2>1. PICK x, y : x = entries[i].first /\ y = entries[i].from
    OBVIOUS
  <2>2. x \in Nat /\ y \in Nat
    <3>1. entries[i].first \in 1..i /\ entries[i].from \in Nat
      BY EntryIs
    <3> QED BY <1>1, <2>1, <3>1
  <2>3. x <= x /\ y <= y /\ ~(i < i)
    BY <1>1, <2>2
  <2> QED BY <1>5, <2>1, <2>3
<1>7. PICK k : k = m - 1
  OBVIOUS
<1>8. k \in i..Count /\ k \in 1..Count /\ k < Count /\ k + 1 = m /\ ~(m <= k)
  BY <1>1, <1>5, <1>6, <1>7
<1>9. Good(k)
  BY <1>4, <1>8
<1>10. /\ entries[m].from = entries[k].from + entries[k].head.len
       /\ entries[k].first <= entries[m].first
  BY <1>8, NextFrom
<1>11. PICK fi, fk, fm, li, lk, si, sk, sm :
          /\ fi = entries[i].from /\ fk = entries[k].from /\ fm = entries[m].from
          /\ li = entries[i].head.len /\ lk = entries[k].head.len
          /\ si = entries[i].first /\ sk = entries[k].first /\ sm = entries[m].first
  OBVIOUS
<1>12. fi \in Nat /\ fk \in Nat /\ fm \in Nat /\ li \in 1..2 /\ lk \in 1..2 /\ si \in Nat /\ sk \in Nat /\ sm \in Nat
  <2>1. \A x \in 1..Count : entries[x].from \in Nat /\ entries[x].head.len \in 1..2 /\ entries[x].first \in Nat
    <3> SUFFICES ASSUME NEW x \in 1..Count
                 PROVE  entries[x].from \in Nat /\ entries[x].head.len \in 1..2 /\ entries[x].first \in Nat
      OBVIOUS
    <3>1. entries[x].from \in Nat /\ entries[x].head.len \in 1..2 /\ entries[x].first \in 1..x /\ x \in Nat
      BY EntryIs
    <3> QED BY <3>1
  <2> QED BY <1>5, <1>8, <1>11, <2>1
<1>13. /\ (i < k => fi + li <= fk) /\ si <= sk /\ fi <= fk /\ fm = fk + lk /\ sk <= sm
       /\ (k = i => fi = fk /\ li = lk)
  BY <1>9, <1>10, <1>11
<1>14. (i < m => fi + li <= fm) /\ si <= sm /\ fi <= fm
  <2>1. si <= sm /\ fi <= fm
    BY <1>12, <1>13
  <2>2. fi + li <= fm
    BY <1>1, <1>8, <1>12, <1>13
  <2> QED BY <2>1, <2>2
<1>15. Good(m)
  BY <1>11, <1>14
<1> QED BY <1>5, <1>15

(* Which entries must stay.                                                 *)
LEMMA KeptIs ==
    ASSUME LogTypes, EntriesKept, InOrder
    PROVE  /\ Kept \in Nat \ {0} /\ (Count > 0 => Kept <= Count)
           /\ (\A i \in 1..Count : Issued(i)) => Kept = 1
           /\ \A i \in 1..Count : IF Issued(i) THEN Kept <= i ELSE entries[i].first <= Kept
           /\ \A i \in 1..Count : ~Issued(i) => \E f \in i..Count : ~Issued(f) /\ Kept = entries[f].first
<1> DEFINE flushed == {i \in 1..Len(entries) : entries[i].state # "issued"}
<1>1. Count \in Nat /\ Count = Len(entries)
  BY DEF LogTypes, Count
<1>2. Kept = IF flushed = {} THEN 1 ELSE entries[Max(flushed)].first
  BY DEF Kept
<1>3. flushed = {i \in 1..Count : ~Issued(i)}
  BY <1>1 DEF Issued
<1> HIDE DEF flushed
<1>4. CASE flushed = {}
  <2>1. \A i \in 1..Count : Issued(i)
    BY <1>3, <1>4
  <2>2. Kept = 1
    BY <1>2, <1>4
  <2> QED BY <1>1, <2>1, <2>2
<1>5. CASE flushed # {}
  <2>1. PICK f : f = Max(flushed)
    OBVIOUS
  <2>2. f \in flushed /\ \A x \in flushed : x <= f
    <3>1. flushed \subseteq Nat /\ \A x \in flushed : x <= Count
      BY <1>1, <1>3
    <3> QED BY <1>1, <1>5, <2>1, <3>1, GreatestOf
  <2>3. f \in 1..Count /\ ~Issued(f) /\ Kept = entries[f].first
    BY <1>2, <1>3, <1>5, <2>1, <2>2
  <2>4. Kept \in 1..f
    BY <2>3, EntryIs
  <2>5. ASSUME NEW i \in 1..Count
        PROVE  /\ IF Issued(i) THEN Kept <= i ELSE entries[i].first <= Kept
               /\ ~Issued(i) => f \in i..Count
    <3>1. CASE Issued(i)
      <4>1. f < i
        <5>1. i # f
          BY <2>3, <3>1
        <5>2. ASSUME i < f PROVE FALSE
          <6>1. i \in 1..(f - 1)
            BY <1>1, <2>3, <5>2
          <6> QED BY <2>3, <3>1, <6>1 DEF InOrder
        <5> QED BY <1>1, <2>3, <5>1, <5>2
      <4>2. Kept <= i
        BY <1>1, <2>3, <2>4, <4>1
      <4> QED BY <3>1, <4>2
    <3>2. CASE ~Issued(i)
      <4>1. i \in flushed
        BY <1>3, <3>2
      <4>2. i <= f
        BY <2>2, <4>1
      <4>3. entries[i].first <= Kept
        BY <2>3, <4>2, FromGrows
      <4>4. f \in i..Count
        BY <1>1, <2>3, <4>2
      <4> QED BY <3>2, <4>3, <4>4
    <3> QED BY <3>1, <3>2
  <2>6. Kept \in Nat \ {0} /\ Kept <= Count
    BY <1>1, <2>3, <2>4
  <2> QED BY <2>3, <2>5, <2>6
<1> QED BY <1>4, <1>5

LEMMA LoggedIs ==
    ASSUME LogTypes, EntriesKept
    PROVE  /\ Logged = IF Count = 0 THEN 0 ELSE entries[Count].from + entries[Count].head.len
           /\ Logged \in Nat
<1>1. Count \in Nat /\ Count = Len(entries)
  BY DEF LogTypes, Count
<1>2. entries = <<>> <=> Count = 0
  BY <1>1 DEF LogTypes
<1>3. Last(entries) = entries[Count]
  BY <1>1 DEF Last
<1>4. CASE Count = 0
  BY <1>2, <1>4 DEF Logged
<1>5. CASE Count # 0
  <2>1. Count \in 1..Count
    BY <1>1, <1>5
  <2>2. PICK x, y : x = entries[Count].from /\ y = entries[Count].head.len
    OBVIOUS
  <2>3. x \in Nat /\ y \in 1..2
    BY <2>1, <2>2, EntryIs
  <2>4. Logged = x + y
    BY <1>2, <1>3, <1>5, <2>2 DEF Logged
  <2>5. x + y \in Nat
    BY <2>3
  <2> QED BY <1>5, <2>2, <2>4, <2>5
<1> QED BY <1>4, <1>5

(* No two sectors of entries that must stay lie at one place.               *)
Sector(i, k) == i \in Kept..Count /\ k \in 0..(entries[i].head.len - 1)

LEMMA SectorsApart ==
    ASSUME LogTypes, EntriesKept, InOrder, Room, NEW i, NEW k, Sector(i, k), NEW j, NEW m, Sector(j, m),
           i < j \/ (i = j /\ k < m)
    PROVE  Where(i, k) # Where(j, m)
<1>1. Kept \in Nat \ {0} /\ Count \in Nat
  BY KeptIs DEF LogTypes, Count
<1>2. i \in 1..Count /\ j \in 1..Count
  BY <1>1 DEF Sector
<1>3. PICK a, b, li, lj, lc, fc, x, y : /\ a = entries[i].from /\ b = entries[j].from
                    /\ li = entries[i].head.len /\ lj = entries[j].head.len
                    /\ fc = entries[Count].from /\ lc = entries[Count].head.len
                    /\ x = a + k /\ y = b + m
  OBVIOUS
<1>4. a \in Nat /\ b \in Nat /\ li \in 1..2 /\ lj \in 1..2 /\ fc \in Nat /\ lc \in 1..2
  <2>1. \A z \in 1..Count : entries[z].from \in Nat /\ entries[z].head.len \in 1..2
    BY EntryIs
  <2>2. Count \in 1..Count
    BY <1>1, <1>2
  <2> QED BY <1>2, <1>3, <2>1, <2>2
<1>5. k \in 0..(li - 1) /\ m \in 0..(lj - 1)
  BY <1>3 DEF Sector
<1>6. (i < j => a + li <= b) /\ (i = j => a = b) /\ (j < Count => b + lj <= fc) /\ (j = Count => b = fc /\ lj = lc)
  <2>1. Count \in 1..Count
    BY <1>1, <1>2
  <2>2. i < j => a + li <= b
    BY <1>2, <1>3, FromGrows
  <2>3. j < Count => b + lj <= fc
    BY <1>2, <1>3, <2>1, FromGrows
  <2> QED BY <1>3, <2>2, <2>3
<1>7. fc + lc <= a + LogSectors
  <2>1. Logged <= entries[i].from + LogSectors
    BY DEF Room, Sector
  <2>2. Logged = fc + lc
    BY <1>1, <1>2, <1>3, LoggedIs
  <2> QED BY <1>3, <2>1, <2>2
<1>8. x \in Nat /\ y \in Nat /\ x < y /\ y < x + LogSectors
  <2>1. j < Count \/ j = Count
    BY <1>1, <1>2
  <2>2. b + lj <= fc + lc
    BY <1>4, <1>6, <2>1
  <2>3. LogSectors \in Nat
    BY RingSize
  <2>4. x < y
    <3>1. CASE i < j
      BY <1>3, <1>4, <1>5, <1>6, <3>1
    <3>2. CASE i = j /\ k < m
      <4>1. a = b
        BY <1>6, <3>2
      <4> QED BY <1>3, <1>4, <1>5, <3>2, <4>1
    <3> QED BY <3>1, <3>2
  <2>5. x \in Nat /\ y \in Nat /\ y < x + LogSectors
    BY <1>3, <1>4, <1>5, <1>7, <2>2, <2>3
  <2> QED BY <2>4, <2>5
<1>9. x % LogSectors # y % LogSectors
  <2>1. LogSectors \in Nat \ {0}
    BY RingSize
  <2> QED BY <1>8, <2>1, RoundApart
<1> QED BY <1>3, <1>9 DEF Where, At

LEMMA SectorsApartIf ==
    ASSUME LogTypes, EntriesKept, InOrder, Room, NEW i, NEW k, Sector(i, k), NEW j, NEW m, Sector(j, m),
           Where(i, k) = Where(j, m)
    PROVE  i = j /\ k = m
<1>1. Kept \in Nat \ {0} /\ Count \in Nat
  BY KeptIs DEF LogTypes, Count
<1>2. i \in 1..Count /\ j \in 1..Count
  BY <1>1 DEF Sector
<1>3. \A z \in 1..Count : entries[z].head.len \in 1..2
  BY EntryIs
<1>4. k \in Nat /\ m \in Nat
  BY <1>2, <1>3 DEF Sector
<1>5. ~(i < j) /\ ~(i = j /\ k < m)
  BY SectorsApart
<1>6. ~(j < i) /\ ~(j = i /\ m < k)
  BY SectorsApart
<1>7. i = j
  BY <1>2, <1>5, <1>6
<1>8. ~(k < m) /\ ~(m < k)
  BY <1>5, <1>6, <1>7
<1> QED BY <1>4, <1>7, <1>8

LEMMA WhereIsIn ==
    ASSUME LogTypes, EntriesKept, NEW i \in 1..Count, NEW k \in 0..(entries[i].head.len - 1)
    PROVE  Where(i, k) \in Ring
<1>1. PICK a, l : a = entries[i].from /\ l = entries[i].head.len
  OBVIOUS
<1>2. a \in Nat /\ l \in 1..2
  BY <1>1, EntryIs
<1>3. a + k \in Nat
  BY <1>1, <1>2
<1> QED BY <1>1, <1>3, AtIsIn DEF Where

-----------------------------------------------------------------------------
(* Each step of the writer keeps all that.                                  *)
LEMMA EntriesStay ==
    ASSUME LogTypes, LogTypes', EntriesKept, UNCHANGED <<entries, hist, session>>,
           stable <= stable', extended <= extended'
    PROVE  EntriesKept'
<1>1. Count' = Count /\ Base' = Base
  BY DEF Count, Base
<1>2. {stable, stable', extended, extended'} \subseteq Nat
  BY DEF LogTypes
<1>3. ASSUME NEW i \in 1..Count PROVE EntryKept(entries[i], i)'
  <2>1. EntryKept(entries[i], i)
    BY DEF EntriesKept
  <2>2. PICK e : e = entries[i] /\ e' = e
    OBVIOUS
  <2>3. PICK head \in Heads : head = entries[i].head
    BY EntryIs
  <2>4. head.flushed \in Nat /\ head.last \in Nat
    BY DEF Heads
  <2>5. HeadKept(head, i) /\ HeadKept(head, i)'
    <3>1. HeadKept(head, i)
      BY <2>1, <2>3 DEF EntryKept
    <3> QED BY <1>2, <2>4, <3>1 DEF HeadKept
  <2>6. HeadKept(entries[i].head, i)'
    BY <2>3, <2>5
  <2>7. /\ entries[i].state = "done" => entries[i].head.last <= stable'
        /\ entries[i].state = "applied" => entries[i].head.last <= extended'
    BY <1>2, <2>1, <2>3, <2>4 DEF EntryKept
  <2>8. /\ Makes(entries[i].head, hist[Base + i - 1], entries[i].table)'
        /\ (entries[i].table = hist[Base + i])'
    BY <1>1, <2>1 DEF EntryKept, Makes
  <2> QED BY <2>1, <2>6, <2>7, <2>8 DEF EntryKept
<1> QED BY <1>1, <1>3 DEF EntriesKept

LEMMA OrderStays ==
    ASSUME entries' = entries
    PROVE  /\ InOrder => InOrder'
           /\ Room => Room'
           /\ Count' = Count /\ Kept' = Kept /\ Logged' = Logged
           /\ \A i, k : Where(i, k)' = Where(i, k) /\ Said(i, k)' = Said(i, k)
           /\ \A i : Issued(i)' = Issued(i) /\ Done(i)' = Done(i) /\ LastDone(i)' = LastDone(i)
<1>1. Count' = Count /\ Kept' = Kept /\ Logged' = Logged
  BY DEF Count, Kept, Logged
<1>2. \A i : Issued(i)' = Issued(i) /\ Done(i)' = Done(i)
  BY DEF Issued, Done
<1>3. \A i, k : Where(i, k)' = Where(i, k) /\ Said(i, k)' = Said(i, k)
  BY DEF Where, Said, At
<1>4. Room => Room'
  BY <1>1 DEF Room
<1>5. InOrder => InOrder'
  BY <1>1, <1>2 DEF InOrder
<1>6. \A i : LastDone(i)' = LastDone(i)
  BY <1>1, <1>2 DEF LastDone
<1> QED BY <1>1, <1>2, <1>3, <1>4, <1>5, <1>6

LEMMA RingStays ==
    ASSUME UNCHANGED <<ring, entries, hist, session, safe>>
    PROVE  /\ RingKept => RingKept'
           /\ SafeKept => SafeKept'
           /\ UNCHANGED shown /\ ShownKept => ShownKept'
<1>1. /\ Count' = Count
      /\ \A i, k : Where(i, k)' = Where(i, k) /\ Said(i, k)' = Said(i, k)
      /\ \A i : Issued(i)' = Issued(i)
  BY OrderStays
<1>2. Base' = Base
  BY DEF Base
<1>3. RingKept => RingKept'
  BY <1>1 DEF RingKept
<1>4. SafeKept => SafeKept'
  BY <1>1, <1>2 DEF SafeKept
<1>5. \A i : OnMedium(i)' = OnMedium(i)
  BY <1>1 DEF OnMedium
<1>6. \A l : Reaches(l)' = Reaches(l)
  BY <1>1, <1>5 DEF Reaches
<1>7. UNCHANGED shown /\ ShownKept => ShownKept'
  BY <1>1, <1>2, <1>6 DEF ShownKept
<1> QED BY <1>3, <1>4, <1>7

LEMMA LogStays ==
    ASSUME UNCHANGED <<ring, entries>>,
           \A at, what : Writing("ring", at, what) \in pending => Writing("ring", at, what) \in pending'
    PROVE  LogLanded => LogLanded'
<1>1. /\ Count' = Count /\ Kept' = Kept
      /\ \A i, k : Where(i, k)' = Where(i, k) /\ Said(i, k)' = Said(i, k)
      /\ \A i : Issued(i)' = Issued(i)
  BY OrderStays
<1>2. \A i, k : Landing(i, k) => Landing(i, k)'
  <2>1. \A to, at, what : Writing(to, at, what)' = Writing(to, at, what)
    BY DEF Writing
  <2> QED BY <1>1, <2>1 DEF Landing
<1> QED BY <1>1, <1>2 DEF LogLanded

LEMMA BatStays ==
    ASSUME UNCHANGED <<bat, entries, hist>>,
           \A at, what : Writing("bat", at, what) \in pending => Writing("bat", at, what) \in pending'
    PROVE  BatKept => BatKept'
<1>1. Count' = Count /\ Base' = Base /\ \A i : LastDone(i)' = LastDone(i)
  BY OrderStays DEF Base
<1>2. SUFFICES ASSUME BatKept, NEW i \in 0..Count, LastDone(i), NEW b \in Blocks
               PROVE  \/ bat[b] = hist[Base + i][b]
                         /\ (i < Count /\ entries[i + 1].state = "applied" =>
                                \/ hist[Base + i + 1][b] = bat[b]
                                \/ Writing("bat", b, hist[Base + i + 1][b]) \in pending')
                      \/ i < Count /\ entries[i + 1].state = "applied" /\ bat[b] = hist[Base + i + 1][b]
  BY <1>1 DEF BatKept, Writing
<1>3. \/ bat[b] = hist[Base + i][b]
         /\ (i < Count /\ entries[i + 1].state = "applied" =>
                \/ hist[Base + i + 1][b] = bat[b]
                \/ Writing("bat", b, hist[Base + i + 1][b]) \in pending)
      \/ i < Count /\ entries[i + 1].state = "applied" /\ bat[b] = hist[Base + i + 1][b]
  BY <1>2 DEF BatKept
<1> QED BY <1>3

LEMMA WritesStay ==
    ASSUME UNCHANGED <<ring, bat, entries, hist>>,
           \A to, at, what : to \in {"ring", "bat"} /\ Writing(to, at, what) \in pending => Writing(to, at, what) \in pending'
    PROVE  /\ LogLanded => LogLanded'
           /\ BatKept => BatKept'
<1>1. LogLanded => LogLanded'
  BY LogStays
<1>2. BatKept => BatKept'
  BY BatStays
<1> QED BY <1>1, <1>2

LEMMA HistStays ==
    ASSUME LogTypes, LogTypes', UNCHANGED <<entries, hist, places>>, stable <= stable'
    PROVE  HistKept => HistKept'
<1>1. Count' = Count /\ Base' = Base
  BY DEF Count, Base
<1>2. {stable, stable'} \subseteq Nat /\ Count \in Nat /\ Len(hist) \in Nat
  BY DEF LogTypes, Count
<1>3. ASSUME HistKept, NEW b \in Blocks PROVE hist[Base][b] <= stable'
  <2>1. hist[Base][b] <= stable
    BY <1>3 DEF HistKept
  <2>2. hist[Base] \in Tables
    <3>1. Base \in 1..Len(hist)
      BY <1>2, <1>3 DEF HistKept, Base, Count
    <3> QED BY <3>1 DEF LogTypes
  <2>3. hist[Base][b] \in Nat
    BY <2>2 DEF Tables
  <2> QED BY <1>2, <2>1, <2>3
<1> QED BY <1>1, <1>3 DEF HistKept

LEMMA ExtendKeeps == LogInv /\ Extend /\ UNCHANGED shown => LogInv'
<1> SUFFICES ASSUME LogInv, Extend, UNCHANGED shown PROVE LogInv'
  OBVIOUS
<1>1. /\ UNCHANGED <<ring, bat, size, headers, entries, session, phase, places, stable, hist, safe, shown>>
      /\ extended' = extended + 1 /\ phase = "open"
      /\ pending' = pending \cup {Writing("size", 0, extended + 1)}
  BY DEF Extend, Writing
<1>2. LogTypes /\ LogTypes'
  BY <1>1 DEF LogInv, LogTypes
<1>3. extended \in Nat /\ extended' \in Nat /\ stable \in Nat
  BY <1>2 DEF LogTypes
<1>4. EntriesKept'
  BY <1>1, <1>2, <1>3, EntriesStay DEF LogInv
<1>5. InOrder' /\ Room' /\ RingKept' /\ SafeKept' /\ ShownKept'
  BY <1>1, OrderStays, RingStays DEF LogInv
<1>6. LogLanded' /\ BatKept'
  <2>1. pending \subseteq pending'
    BY <1>1
  <2> QED BY <1>1, <2>1, WritesStay DEF LogInv
<1>7. SizeKept'
  <2>1. stable <= size /\ stable <= extended
    BY DEF LogInv, SizeKept
  <2>2. stable <= extended'
    BY <1>1, <1>3, <2>1
  <2>3. Writing("size", 0, extended)' \in pending'
    BY <1>1 DEF Writing
  <2> QED BY <1>1, <2>1, <2>2, <2>3 DEF SizeKept
<1>8. HistKept'
  <2>1. stable <= stable'
    BY <1>1, <1>3
  <2> QED BY <1>1, <1>2, <2>1, HistStays DEF LogInv
<1>9. PhaseKept'
  <2>1. \A w : (RingWrite(w) => RingWrite(w)') /\ (BatWrite(w) => BatWrite(w)') /\ (SizeWrite(w) => SizeWrite(w)')
    <3>1. /\ Count' = Count /\ Base' = Base
          /\ \A i, k : Where(i, k)' = Where(i, k) /\ Said(i, k)' = Said(i, k)
          /\ \A i : Issued(i)' = Issued(i)
      BY <1>1, OrderStays DEF Base
    <3> QED BY <1>1, <3>1 DEF RingWrite, BatWrite, SizeWrite, Writing
  <2>2. SizeWrite(Writing("size", 0, extended + 1))
    BY <1>3 DEF SizeWrite
  <2>3. /\ session > 0 /\ \E h \in 1..2 : Newest(h, session)
        /\ \A w \in pending : RingWrite(w) \/ BatWrite(w) \/ SizeWrite(w)
    BY <1>1 DEF LogInv, PhaseKept
  <2>4. \A w \in pending' : (RingWrite(w) \/ BatWrite(w) \/ SizeWrite(w))'
    BY <1>1, <2>1, <2>2, <2>3
  <2>5. \E h \in 1..2 : Newest(h, session)'
    BY <1>1, <2>3 DEF Newest
  <2> QED BY <1>1, <2>3, <2>4, <2>5 DEF PhaseKept
<1> QED BY <1>2, <1>4, <1>5, <1>6, <1>7, <1>8, <1>9 DEF LogInv

(* The header that is current, and the one that is written over the other.  *)
LEMMA HeadersAre ==
    ASSUME LogTypes, NEW h \in 1..2
    PROVE  /\ 3 - h \in 1..2 /\ 3 - (3 - h) = h /\ 3 - h # h
           /\ headers[h] \in HeaderRecords
<1>1. headers \in Seq(HeaderRecords) /\ Len(headers) = 2
  BY DEF LogTypes
<1>2. headers[h] \in HeaderRecords
  BY <1>1
<1> QED BY <1>2

LEMMA HeaderWritten ==
    ASSUME LogTypes, NEW h \in 1..2, NEW old, Newest(h, old), NEW guid, WriteHeader(guid)
    PROVE  pending' = {Writing("header", 3 - h, [seq |-> headers[h].seq + 1, guid |-> guid, ok |-> TRUE])}
<1>1. 3 - h \in 1..2 /\ 3 - h # h /\ headers[3 - h].seq < headers[h].seq
  BY HeadersAre DEF Newest
<1>2. headers[h].seq \in Nat /\ headers[3 - h].seq \in Nat
  BY <1>1, HeadersAre DEF HeaderRecords
<1>3. \A i \in 1..2 : i = h \/ i = 3 - h
  OBVIOUS
<1>4. PICK S : S = {headers[i].seq : i \in 1..2}
  OBVIOUS
<1>5. S \subseteq Nat /\ S # {} /\ headers[h].seq \in S /\ \A x \in S : x <= headers[h].seq
  BY <1>1, <1>2, <1>3, <1>4
<1>6. Max(S) \in S /\ \A x \in S : x <= Max(S)
  BY <1>2, <1>5, GreatestOf
<1>7. Max(S) = headers[h].seq
  <2>1. PICK m, s : m = Max(S) /\ s = headers[h].seq
    OBVIOUS
  <2>2. m \in Nat /\ s \in Nat /\ m <= s /\ s <= m
    BY <1>2, <1>5, <1>6, <2>1
  <2>3. m = s
    BY ONLY <2>2
  <2> QED BY ONLY <2>1, <2>3
<1>8. PICK c : c = CHOOSE i \in 1..2 : headers[i].seq # headers[h].seq
  OBVIOUS
<1>9. c = 3 - h
  <2>1. \E i \in 1..2 : headers[i].seq # headers[h].seq
    BY <1>1, <1>2
  <2>2. c \in 1..2 /\ headers[c].seq # headers[h].seq
    BY <1>8, <2>1
  <2> QED BY <1>3, <2>2
<1> QED BY <1>4, <1>7, <1>8, <1>9 DEF WriteHeader, Writing

LEMMA HeaderTornKeeps == LogInv /\ HeaderTorn /\ UNCHANGED shown => LogInv'
<1> SUFFICES ASSUME LogInv, HeaderTorn, UNCHANGED shown PROVE LogInv'
  OBVIOUS
<1>1. PICK w \in pending : /\ w.to = "header" /\ headers[w.at].ok
                           /\ headers' = [headers EXCEPT ![w.at].ok = FALSE]
  BY DEF HeaderTorn
<1>2. UNCHANGED <<ring, bat, size, entries, session, phase, places, extended, stable, hist, safe, shown, pending>>
  BY DEF HeaderTorn
<1>3. LogTypes
  BY DEF LogInv
<1>4. phase \in {"opening", "closing"} /\ \E old, new : Turning(old, new) /\ pending # {}
  <2>1. ~(RingWrite(w) \/ BatWrite(w) \/ SizeWrite(w))
    BY <1>1 DEF RingWrite, BatWrite, SizeWrite, Writing
  <2> QED BY <2>1 DEF LogInv, PhaseKept
<1>5. ASSUME NEW old, NEW new, Turning(old, new)
      PROVE  Turning(old, new)' /\ headers' \in Seq(HeaderRecords) /\ Len(headers') = 2
  <2>1. PICK h \in 1..2 : /\ Newest(h, old)
           /\ pending = {Writing("header", 3 - h, [seq |-> headers[h].seq + 1, guid |-> new, ok |-> TRUE])}
    BY <1>1, <1>5 DEF Turning
  <2>2. w.at = 3 - h
    BY <1>1, <2>1 DEF Writing
  <2>3. 3 - h \in 1..2 /\ 3 - h # h /\ headers[3 - h] \in HeaderRecords
    BY <1>3, HeadersAre
  <2>4. headers \in Seq(HeaderRecords) /\ Len(headers) = 2
    BY <1>3 DEF LogTypes
  <2>5. headers' = [headers EXCEPT ![3 - h] = [@ EXCEPT !.ok = FALSE]]
    BY <1>1, <2>2
  <2>6. PICK x : x = [headers[3 - h] EXCEPT !.ok = FALSE]
    OBVIOUS
  <2>7. x \in HeaderRecords /\ x.seq = headers[3 - h].seq
    BY <2>3, <2>6 DEF HeaderRecords
  <2>8. headers' = [headers EXCEPT ![3 - h] = x]
    BY <2>5, <2>6
  <2>9. /\ headers' \in Seq(HeaderRecords) /\ Len(headers') = 2
        /\ headers'[h] = headers[h] /\ headers'[3 - h] = x
    <3>1. PICK o : o = 3 - h
      OBVIOUS
    <3>2. o \in 1..2 /\ o # h /\ headers' = [headers EXCEPT ![o] = x]
      BY <2>3, <2>8, <3>1
    <3>3. headers' \in Seq(HeaderRecords) /\ Len(headers') = 2 /\ headers'[h] = headers[h] /\ headers'[o] = x
      <4>1. PICK q \in Seq(HeaderRecords) : q = headers
        BY <2>4
      <4>2. x \in HeaderRecords /\ Len(q) = 2 /\ o \in 1..2 /\ h \in 1..2 /\ o # h /\ headers' = [q EXCEPT ![o] = x]
        BY <2>4, <2>7, <3>2, <4>1
      <4>3. headers' \in Seq(HeaderRecords) /\ Len(headers') = 2
        BY ONLY q \in Seq(HeaderRecords), <4>2
      <4>4. headers'[h] = q[h] /\ headers'[o] = x
        BY ONLY q \in Seq(HeaderRecords), <4>2
      <4> QED BY <4>1, <4>3, <4>4
    <3> QED BY <3>1, <3>3
  <2>10. Newest(h, old)'
    BY <2>1, <2>7, <2>9 DEF Newest
  <2>11. pending' = {Writing("header", 3 - h, [seq |-> headers'[h].seq + 1, guid |-> new, ok |-> TRUE])}
    BY <1>2, <2>1, <2>9
  <2>12. Turning(old, new)'
    BY <2>10, <2>11 DEF Turning, Writing
  <2> QED BY <2>9, <2>12
<1>6. LogTypes'
  <2>1. headers' \in Seq(HeaderRecords) /\ Len(headers') = 2
    BY <1>4, <1>5
  <2> QED BY <1>2, <1>3, <2>1 DEF LogTypes
<1>7. EntriesKept'
  <2>1. stable <= stable' /\ extended <= extended'
    BY <1>2, <1>3 DEF LogTypes
  <2> QED BY <1>2, <1>3, <1>6, <2>1, EntriesStay DEF LogInv
<1>8. InOrder' /\ Room' /\ RingKept' /\ SafeKept' /\ ShownKept'
  BY <1>2, OrderStays, RingStays DEF LogInv
<1>9. LogLanded' /\ BatKept'
  BY <1>2, WritesStay DEF LogInv
<1>10. SizeKept' /\ HistKept'
  <2>1. stable <= stable'
    BY <1>2, <1>3 DEF LogTypes
  <2>2. HistKept'
    BY <1>2, <1>3, <1>6, <2>1, HistStays DEF LogInv
  <2>3. SizeKept'
    BY <1>2 DEF LogInv, SizeKept, Writing
  <2> QED BY <2>2, <2>3
<1>11. PhaseKept'
  <2>1. AllDone => AllDone'
    BY <1>2, OrderStays DEF AllDone
  <2>2. CASE phase = "opening"
    <3>1. entries = <<>> /\ Turning(0, session) /\ session > 0
      BY <2>2 DEF LogInv, PhaseKept
    <3>2. Turning(0, session)'
      BY <1>2, <1>5, <3>1
    <3> QED BY <1>2, <2>2, <3>1, <3>2 DEF PhaseKept
  <2>3. CASE phase = "closing"
    <3>1. AllDone /\ Turning(session, 0) /\ session > 0
      BY <2>3 DEF LogInv, PhaseKept
    <3>2. Turning(session, 0)'
      BY <1>2, <1>5, <3>1
    <3> QED BY <1>2, <2>1, <2>3, <3>1, <3>2 DEF PhaseKept
  <2> QED BY <1>4, <2>2, <2>3
<1> QED BY <1>6, <1>7, <1>8, <1>9, <1>10, <1>11 DEF LogInv

LEMMA CloseKeeps == LogInv /\ Close /\ UNCHANGED shown => LogInv'
<1> SUFFICES ASSUME LogInv, Close, UNCHANGED shown PROVE LogInv'
  OBVIOUS
<1>1. /\ UNCHANGED <<ring, bat, size, headers, entries, session, places, extended, stable, hist, safe, shown>>
      /\ phase = "open" /\ phase' = "closing" /\ pending = {} /\ WriteHeader(0) /\ AllDone
  BY DEF Close, AllDone, Done, Count
<1>2. LogTypes /\ LogTypes'
  BY <1>1 DEF LogInv, LogTypes
<1>3. EntriesKept'
  <2>1. stable <= stable' /\ extended <= extended'
    BY <1>1, <1>2 DEF LogTypes
  <2> QED BY <1>1, <1>2, <2>1, EntriesStay DEF LogInv
<1>4. InOrder' /\ Room' /\ RingKept' /\ SafeKept' /\ ShownKept'
  BY <1>1, OrderStays, RingStays DEF LogInv
<1>5. LogLanded' /\ BatKept'
  BY <1>1, WritesStay DEF LogInv
<1>6. SizeKept' /\ HistKept'
  <2>1. stable <= stable'
    BY <1>1, <1>2 DEF LogTypes
  <2>2. HistKept'
    BY <1>1, <1>2, <2>1, HistStays DEF LogInv
  <2>3. SizeKept'
    BY <1>1 DEF LogInv, SizeKept, Writing
  <2> QED BY <2>2, <2>3
<1>7. PhaseKept'
  <2>1. PICK h \in 1..2 : Newest(h, session)
    BY <1>1 DEF LogInv, PhaseKept
  <2>2. pending' = {Writing("header", 3 - h, [seq |-> headers[h].seq + 1, guid |-> 0, ok |-> TRUE])}
    BY <1>1, <1>2, <2>1, HeaderWritten
  <2>3. Turning(session, 0)'
    BY <1>1, <2>1, <2>2 DEF Turning, Newest, Writing
  <2>4. AllDone' /\ session > 0
    BY <1>1, OrderStays DEF AllDone, LogInv, PhaseKept
  <2> QED BY <1>1, <2>3, <2>4 DEF PhaseKept
<1> QED BY <1>2, <1>3, <1>4, <1>5, <1>6, <1>7 DEF LogInv

(* When all entries are done the table is the last, and all of it is in the *)
(* file.                                                                    *)
LEMMA TablesAre ==
    ASSUME LogTypes, HistKept, NEW i \in 0..Count
    PROVE  /\ Base + i \in 1..Len(hist) /\ Base \in Nat \ {0} /\ Base + Count = Len(hist) /\ Count \in Nat
           /\ hist[Base + i] \in Tables /\ \A b \in Blocks : hist[Base + i][b] \in Nat
<1>1. Count \in Nat /\ Len(hist) \in Nat /\ Count < Len(hist) /\ Base = Len(hist) - Count
  BY DEF LogTypes, HistKept, Count, Base
<1>2. Base + i \in 1..Len(hist) /\ Base \in Nat \ {0} /\ Base + Count = Len(hist)
  BY <1>1
<1>3. hist[Base + i] \in Tables
  BY <1>2 DEF LogTypes
<1> QED BY <1>1, <1>2, <1>3 DEF Tables

LEMMA DoneIsThere ==
    ASSUME LogTypes, EntriesKept, HistKept, SizeKept, NEW i \in 0..Count, i = 0 \/ Done(i), NEW b \in Blocks
    PROVE  hist[Base + i][b] <= stable
<1>1. CASE i = 0
  <2>1. Base + 0 = Base
    BY TablesAre
  <2> QED BY <1>1, <2>1 DEF HistKept
<1>2. CASE i # 0
  <2>1. i \in 1..Count /\ Done(i)
    BY <1>2
  <2>2. EntryKept(entries[i], i) /\ entries[i].head.last \in Nat
    BY <2>1, EntryIs
  <2>3. entries[i].head.last <= stable /\ hist[Base + i][b] <= entries[i].head.last
    BY <2>1, <2>2 DEF EntryKept, Done, Makes
  <2>4. hist[Base + i][b] \in Nat /\ stable \in Nat
    BY TablesAre DEF LogTypes
  <2>5. PICK x, y, z : x = hist[Base + i][b] /\ y = entries[i].head.last /\ z = stable
    OBVIOUS
  <2>6. x \in Nat /\ y \in Nat /\ z \in Nat /\ x <= y /\ y <= z
    BY <2>2, <2>3, <2>4, <2>5
  <2>7. x <= z
    BY ONLY <2>6
  <2> QED BY ONLY <2>5, <2>7
<1> QED BY <1>1, <1>2

LEMMA AllDoneIs ==
    ASSUME LogTypes, EntriesKept, HistKept, SizeKept, BatKept, AllDone, NEW b \in Blocks
    PROVE  bat[b] = hist[Len(hist)][b] /\ hist[Len(hist)][b] <= stable
<1>1. Count \in 0..Count /\ Count \in Nat /\ Base + Count = Len(hist)
  <2>1. Count \in Nat
    BY DEF LogTypes, Count
  <2>2. Count \in 0..Count
    BY <2>1
  <2> QED BY <2>2, TablesAre
<1>2. Count = 0 \/ Done(Count)
  BY <1>1 DEF AllDone
<1>3. LastDone(Count)
  BY <1>2 DEF LastDone
<1>4. bat[b] = hist[Base + Count][b]
  BY <1>1, <1>3 DEF BatKept
<1>5. hist[Base + Count][b] <= stable
  BY <1>1, <1>2, DoneIsThere
<1> QED BY <1>1, <1>4, <1>5

LEMMA OpenKeeps == LogInv /\ OpenToWrite /\ UNCHANGED shown => LogInv'
<1> SUFFICES ASSUME LogInv, OpenToWrite, UNCHANGED shown PROVE LogInv'
  OBVIOUS
<1>1. /\ UNCHANGED <<ring, bat, size, headers, places, extended, stable, hist, safe, shown>>
      /\ phase = "closed" /\ phase' = "opening" /\ session' = session + 1 /\ entries' = <<>> /\ WriteHeader(session')
  BY DEF OpenToWrite
<1>2. AllDone /\ pending = {} /\ \E h \in 1..2 : Newest(h, 0)
  BY <1>1 DEF LogInv, PhaseKept
<1>3. LogTypes /\ EntriesKept /\ HistKept /\ SizeKept /\ BatKept /\ SafeKept /\ RingKept /\ ShownKept
  BY DEF LogInv
<1>4. Count' = 0 /\ Len(hist) \in Nat /\ Base' = Len(hist)
  BY <1>1, <1>3 DEF Count, Base, LogTypes
<1>5. LogTypes'
  <2>1. session' \in Nat
    BY <1>1, <1>3 DEF LogTypes
  <2>2. entries' \in Seq(Entries)
    BY <1>1
  <2>3. {size', extended', stable', places', safe', shown'} \subseteq Nat
    BY <1>1, <1>3 DEF LogTypes
  <2>4. /\ hist' \in Seq(Tables) /\ bat' \in Tables
        /\ headers' \in Seq(HeaderRecords) /\ Len(headers') = 2 /\ DOMAIN ring' = Ring
    BY <1>1, <1>3 DEF LogTypes
  <2> QED BY <2>1, <2>2, <2>3, <2>4 DEF LogTypes
<1>6. EntriesKept' /\ InOrder'
  BY <1>4 DEF EntriesKept, InOrder
<1>7. Room' /\ LogLanded'
  <2>1. Kept' = 1
    BY <1>1 DEF Kept
  <2> QED BY <1>4, <2>1 DEF Room, LogLanded
<1>8. RingKept'
  <2>1. session \in Nat
    BY <1>3 DEF LogTypes
  <2> QED BY <1>1, <1>3, <2>1 DEF RingKept
<1>9. BatKept' /\ HistKept'
  <2>1. \A b \in Blocks : bat[b] = hist[Len(hist)][b] /\ hist[Len(hist)][b] <= stable
    BY <1>2, <1>3, AllDoneIs
  <2>2. BatKept'
    <3>1. \A i \in 0..0 : i = 0
      OBVIOUS
    <3>2. Base' + 0 = Len(hist)
      BY <1>4
    <3> QED BY <1>1, <1>4, <2>1, <3>1, <3>2 DEF BatKept
  <2>3. 0 < Len(hist)
    <3>1. Count \in Nat
      BY <1>3 DEF LogTypes, Count
    <3> QED BY <1>3, <1>4, <3>1 DEF HistKept
  <2>4. HistKept'
    BY <1>1, <1>3, <1>4, <2>1, <2>3 DEF HistKept
  <2> QED BY <2>2, <2>4
<1>10. SizeKept'
  BY <1>1, <1>2, <1>3 DEF SizeKept, Writing
<1>11. SafeKept' /\ ShownKept'
  <2>1. SafeKept'
    BY <1>1, <1>3, <1>4 DEF SafeKept
  <2>2. PICK l \in 0..Count : shown <= Base + l
    BY <1>3 DEF ShownKept
  <2>3. Base + l \in 1..Len(hist) /\ shown \in Nat
    BY <1>3, TablesAre DEF LogTypes
  <2>4. shown <= Base' + 0 /\ 0 \in 0..0
    BY <1>4, <2>2, <2>3
  <2>5. Reaches(0)'
    BY DEF Reaches
  <2> QED BY <1>1, <1>3, <1>4, <2>1, <2>4, <2>5 DEF ShownKept
<1>12. PhaseKept'
  <2>1. PICK h \in 1..2 : Newest(h, 0)
    BY <1>2
  <2>2. pending' = {Writing("header", 3 - h, [seq |-> headers[h].seq + 1, guid |-> session', ok |-> TRUE])}
    BY <1>1, <1>3, <2>1, HeaderWritten
  <2>3. Turning(0, session)'
    BY <1>1, <2>1, <2>2 DEF Turning, Newest, Writing
  <2>4. session' > 0
    BY <1>1, <1>3 DEF LogTypes
  <2> QED BY <1>1, <2>3, <2>4 DEF PhaseKept
<1> QED BY <1>5, <1>6, <1>7, <1>8, <1>9, <1>10, <1>11, <1>12 DEF LogInv

(* A write that reaches the medium.                                         *)
LEMMA OpenStays ==
    ASSUME LogTypes, UNCHANGED <<entries, hist, session, phase, headers>>, phase = "open", pending' \subseteq pending, PhaseKept
    PROVE  PhaseKept'
<1>1. \A w : (RingWrite(w) => RingWrite(w)') /\ (BatWrite(w) => BatWrite(w)') /\ (SizeWrite(w) => SizeWrite(w)')
  <2>1. /\ Count' = Count /\ Base' = Base
        /\ \A i, k : Where(i, k)' = Where(i, k) /\ Said(i, k)' = Said(i, k)
        /\ \A i : Issued(i)' = Issued(i)
    BY OrderStays DEF Base
  <2> QED BY <2>1 DEF RingWrite, BatWrite, SizeWrite, Writing
<1>2. /\ session > 0 /\ \E h \in 1..2 : Newest(h, session)
      /\ \A w \in pending : RingWrite(w) \/ BatWrite(w) \/ SizeWrite(w)
  BY DEF PhaseKept
<1>3. \A w \in pending' : (RingWrite(w) \/ BatWrite(w) \/ SizeWrite(w))'
  BY <1>1, <1>2
<1>4. \E h \in 1..2 : Newest(h, session)'
  BY <1>2 DEF Newest
<1> QED BY <1>2, <1>3, <1>4 DEF PhaseKept

Landed(w) ==
    /\ w \in pending /\ pending' = pending \ {w}
    /\ UNCHANGED <<entries, session, phase, places, extended, stable, hist, safe, shown>>

LEMMA StaysWhenLanded ==
    ASSUME LogInv, LogTypes', NEW w, Landed(w)
    PROVE  EntriesKept' /\ InOrder' /\ Room' /\ HistKept' /\ SafeKept'
<1>1. UNCHANGED <<entries, session, places, extended, stable, hist, safe>>
  BY DEF Landed
<1>2. LogTypes /\ stable <= stable' /\ extended <= extended'
  BY <1>1 DEF LogInv, LogTypes
<1>3. EntriesKept'
  BY <1>1, <1>2, EntriesStay DEF LogInv
<1>4. InOrder' /\ Room' /\ Count' = Count /\ \A i : Issued(i)' = Issued(i)
  BY <1>1, OrderStays DEF LogInv
<1>5. HistKept'
  BY <1>1, <1>2, HistStays DEF LogInv
<1>6. SafeKept'
  BY <1>1, <1>4 DEF SafeKept, LogInv, Base
<1> QED BY <1>3, <1>4, <1>5, <1>6

LEMMA LandSizeKeeps ==
    ASSUME LogInv, NEW w, Landed(w), phase = "open", SizeWrite(w),
           UNCHANGED <<ring, bat, headers>>, size' = Max({size, w.what})
    PROVE  LogInv'
<1>1. PICK n \in Nat : w = Writing("size", 0, n)
  BY DEF SizeWrite
<1>2. w.what = n
  BY <1>1 DEF Writing
<1>3. LogTypes /\ size \in Nat /\ extended \in Nat /\ stable \in Nat
  BY DEF LogInv, LogTypes
<1>4. size' \in Nat /\ size <= size' /\ n <= size'
  <2>1. PICK S : S = {size, n}
    OBVIOUS
  <2>2. S \subseteq Nat /\ S # {} /\ \A x \in S : x <= size + n
    BY <1>3, <2>1
  <2>3. size + n \in Nat
    BY <1>3
  <2>4. Max(S) \in S /\ \A x \in S : x <= Max(S)
    BY <2>2, <2>3, GreatestOf
  <2> QED BY <1>2, <2>1, <2>2, <2>4
<1>5. LogTypes'
  BY <1>3, <1>4 DEF LogTypes, Landed
<1>6. EntriesKept' /\ InOrder' /\ Room' /\ HistKept' /\ SafeKept'
  BY <1>5, StaysWhenLanded
<1>7. RingKept' /\ ShownKept'
  BY RingStays DEF LogInv, Landed
<1>8. LogLanded' /\ BatKept'
  <2>1. \A to, at, what : to \in {"ring", "bat"} => Writing(to, at, what) # w
    BY <1>1 DEF Writing
  <2> QED BY <2>1, WritesStay DEF LogInv, Landed
<1>9. SizeKept'
  <2>1. stable <= size /\ stable <= extended /\ (extended <= size \/ Writing("size", 0, extended) \in pending)
    BY DEF LogInv, SizeKept
  <2>2. stable <= size'
    BY <1>3, <1>4, <2>1
  <2>3. extended <= size' \/ (Writing("size", 0, extended) \in pending /\ Writing("size", 0, extended) # w)
    <3>1. extended <= size => extended <= size'
      BY <1>3, <1>4
    <3>2. Writing("size", 0, extended) = w => n = extended
      BY <1>1 DEF Writing
    <3> QED BY <1>4, <2>1, <3>1, <3>2
  <2> QED BY <2>1, <2>2, <2>3 DEF SizeKept, Writing, Landed
<1>10. PhaseKept'
  BY <1>3, OpenStays DEF LogInv, Landed
<1> QED BY <1>5, <1>6, <1>7, <1>8, <1>9, <1>10 DEF LogInv

LEMMA LandHeaderKeeps ==
    ASSUME LogInv, NEW w, Landed(w), w.to = "header", UNCHANGED <<ring, bat, size>>,
           headers' = [headers EXCEPT ![w.at] = w.what]
    PROVE  LogInv'
<1>1. w \in pending /\ LogTypes
  BY DEF LogInv, Landed
<1>2. phase \in {"opening", "closing"}
  <2>1. ~(RingWrite(w) \/ BatWrite(w) \/ SizeWrite(w))
    BY DEF RingWrite, BatWrite, SizeWrite, Writing
  <2> QED BY <1>1, <2>1 DEF LogInv, PhaseKept
<1>3. ASSUME NEW old, NEW new, Turning(old, new), new \in Nat
      PROVE  Turning(old, new)' /\ headers' \in Seq(HeaderRecords) /\ Len(headers') = 2 /\ pending = {w}
  <2>1. PICK h \in 1..2 : /\ Newest(h, old)
           /\ pending = {Writing("header", 3 - h, [seq |-> headers[h].seq + 1, guid |-> new, ok |-> TRUE])}
    BY <1>1, <1>3 DEF Turning
  <2>2. PICK o : o = 3 - h
    OBVIOUS
  <2>3. PICK x : x = [seq |-> headers[h].seq + 1, guid |-> new, ok |-> TRUE]
    OBVIOUS
  <2>4. w.at = o /\ w.what = x /\ pending = {w}
    <3>1. pending = {Writing("header", o, x)}
      BY <2>1, <2>2, <2>3
    <3>2. w = Writing("header", o, x)
      BY <1>1, <3>1
    <3> QED BY <3>1, <3>2 DEF Writing
  <2>5. o \in 1..2 /\ o # h /\ 3 - o = h /\ headers[h] \in HeaderRecords
    BY <1>1, <2>2, HeadersAre
  <2>6. /\ x \in HeaderRecords /\ x.seq = headers[h].seq + 1 /\ x.guid = new /\ x.ok /\ headers[h].seq < x.seq
    <3>1. headers[h].seq \in Nat
      BY <2>5 DEF HeaderRecords
    <3>2. headers[h].seq + 1 \in Nat /\ headers[h].seq < headers[h].seq + 1
      BY <3>1
    <3> QED BY <1>3, <2>4, <2>3, <3>2 DEF HeaderRecords
  <2>7. PICK q \in Seq(HeaderRecords) : q = headers /\ Len(q) = 2
    BY <1>1 DEF LogTypes
  <2>8. headers' = [q EXCEPT ![o] = x]
    BY <2>4, <2>7
  <2>9. o \in 1..2 /\ h \in 1..2 /\ o # h /\ x \in HeaderRecords /\ Len(q) = 2 /\ headers' = [q EXCEPT ![o] = x]
    BY <2>5, <2>6, <2>7, <2>8
  <2>10. headers' \in Seq(HeaderRecords) /\ Len(headers') = 2
    BY ONLY q \in Seq(HeaderRecords), <2>9
  <2>11. headers'[h] = q[h] /\ headers'[o] = x
    BY ONLY q \in Seq(HeaderRecords), <2>9
  <2>12. headers'[h] = headers[h] /\ headers'[o] = x
    BY <2>7, <2>11
  <2>13. Newest(o, new)'
    BY <2>5, <2>6, <2>12 DEF Newest
  <2>14. pending' = {}
    BY <2>4 DEF Landed
  <2>15. Turning(old, new)'
    BY <2>5, <2>13, <2>14 DEF Turning
  <2> QED BY <2>4, <2>15, <2>10
<1>4. Turning(0, session) \/ Turning(session, 0)
  BY <1>2 DEF LogInv, PhaseKept
<1>5. session \in Nat /\ 0 \in Nat
  BY <1>1 DEF LogTypes
<1>6. headers' \in Seq(HeaderRecords) /\ Len(headers') = 2 /\ pending = {w}
  BY <1>3, <1>4, <1>5
<1>7. LogTypes'
  BY <1>1, <1>6 DEF LogTypes, Landed
<1>8. EntriesKept' /\ InOrder' /\ Room' /\ HistKept' /\ SafeKept'
  BY <1>7, StaysWhenLanded
<1>9. RingKept' /\ ShownKept'
  BY RingStays DEF LogInv, Landed
<1>10. \A to, at, what : to # "header" => Writing(to, at, what) \notin pending
  BY <1>6 DEF Writing
<1>11. LogLanded' /\ BatKept'
  BY <1>10, WritesStay DEF LogInv, Landed
<1>12. SizeKept'
  <2>1. stable <= size /\ stable <= extended /\ extended <= size
    BY <1>10 DEF LogInv, SizeKept
  <2> QED BY <2>1 DEF SizeKept, Landed
<1>13. PhaseKept'
  <2>1. AllDone => AllDone'
    BY OrderStays DEF AllDone, Landed
  <2>2. CASE phase = "opening"
    <3>1. entries = <<>> /\ Turning(0, session) /\ session > 0
      BY <2>2 DEF LogInv, PhaseKept
    <3>2. Turning(0, session)'
      BY <1>3, <1>5, <3>1 DEF Landed
    <3> QED BY <2>2, <3>1, <3>2 DEF PhaseKept, Landed
  <2>3. CASE phase = "closing"
    <3>1. AllDone /\ Turning(session, 0) /\ session > 0
      BY <2>3 DEF LogInv, PhaseKept
    <3>2. Turning(session, 0)'
      BY <1>3, <1>5, <3>1 DEF Landed
    <3> QED BY <2>1, <2>3, <3>1, <3>2 DEF PhaseKept, Landed
  <2> QED BY <1>2, <2>2, <2>3
<1> QED BY <1>7, <1>8, <1>9, <1>11, <1>12, <1>13 DEF LogInv

LEMMA IssuedMustStay ==
    ASSUME LogTypes, EntriesKept, InOrder, NEW i \in 1..Count, Issued(i), NEW k \in 0..(entries[i].head.len - 1)
    PROVE  Sector(i, k)
<1>1. Kept <= i /\ Kept \in Nat \ {0} /\ Count \in Nat
  BY KeptIs DEF LogTypes, Count
<1> QED BY <1>1 DEF Sector

LEMMA SectorSaidIs ==
    ASSUME LogTypes, EntriesKept, NEW i \in 1..Count, NEW k \in 0..(entries[i].head.len - 1)
    PROVE  /\ k = 0 => Said(i, k) = entries[i].head
           /\ k # 0 => Said(i, k).kind = "data" /\ Said(i, k).seq = i
           /\ entries[i].head.kind = "loge" /\ entries[i].head.guid = session /\ entries[i].head.seq = i
<1>1. PICK head : head = entries[i].head
  OBVIOUS
<1>2. head.len \in 1..2 /\ HeadKept(head, i)
  BY <1>1, EntryIs DEF EntryKept
<1>3. head.kind = "loge" /\ head.guid = session /\ head.seq = i
  BY <1>2 DEF HeadKept
<1>4. ASSUME k # 0 PROVE Said(i, k).kind = "data" /\ Said(i, k).seq = i
  <2>1. k = 1 /\ head.len = 2
    BY <1>1, <1>2, <1>4
  <2>2. PICK p \in 0..head.last : head.sum = <<[kind |-> "data", seq |-> i, place |-> p]>>
    <3>1. ~(head.len = 1)
      BY <2>1
    <3> QED BY <1>2, <3>1 DEF HeadKept
  <2>3. Said(i, k) = head.sum[1]
    BY <1>1, <2>1 DEF Said
  <2> QED BY <2>2, <2>3
<1> QED BY <1>1, <1>3, <1>4 DEF Said

LEMMA LandRingKeeps ==
    ASSUME LogInv, NEW w, Landed(w), phase = "open", RingWrite(w),
           UNCHANGED <<bat, size, headers>>, ring' = [ring EXCEPT ![w.at] = w.what]
    PROVE  LogInv'
<1>1. LogTypes /\ EntriesKept /\ InOrder /\ Room /\ RingKept /\ LogLanded /\ ShownKept
  BY DEF LogInv
<1>2. PICK i \in 1..Count : Issued(i) /\ \E k \in 0..(entries[i].head.len - 1) : w = Writing("ring", Where(i, k), Said(i, k))
  BY DEF RingWrite
<1>3. PICK k \in 0..(entries[i].head.len - 1) : w = Writing("ring", Where(i, k), Said(i, k))
  BY <1>2
<1>4. PICK at, what : at = Where(i, k) /\ what = Said(i, k)
  OBVIOUS
<1>5. w = Writing("ring", at, what) /\ w.at = at /\ w.what = what
  BY <1>3, <1>4 DEF Writing
<1>6. at \in Ring /\ Sector(i, k) /\ DOMAIN ring = Ring
  BY <1>1, <1>2, <1>4, WhereIsIn, IssuedMustStay DEF LogTypes
<1>7. ring' = [ring EXCEPT ![at] = what]
  BY <1>5
<1>8. DOMAIN ring' = Ring /\ ring'[at] = what /\ \A x \in Ring : x # at => ring'[x] = ring[x]
  BY <1>6, <1>7
<1>9. LogTypes'
  BY <1>1, <1>8 DEF LogTypes, Landed
<1>10. EntriesKept' /\ InOrder' /\ Room' /\ HistKept' /\ SafeKept'
  BY <1>9, StaysWhenLanded
<1>11. /\ Count' = Count /\ Kept' = Kept
       /\ \A j, m : Where(j, m)' = Where(j, m) /\ Said(j, m)' = Said(j, m)
       /\ \A j : Issued(j)' = Issued(j)
  BY OrderStays DEF Landed
<1>12. ASSUME NEW j, NEW m, Sector(j, m)
       PROVE  /\ Where(j, m) = at => ring'[Where(j, m)] = Said(j, m)
              /\ Where(j, m) # at => ring'[Where(j, m)] = ring[Where(j, m)]
  <2>1. Where(j, m) = at => j = i /\ m = k
    BY <1>1, <1>4, <1>6, <1>12, SectorsApartIf
  <2>2. j \in 1..Count /\ m \in 0..(entries[j].head.len - 1)
    <3>1. Kept \in Nat \ {0} /\ Count \in Nat
      BY <1>1, KeptIs DEF LogTypes, Count
    <3> QED BY <1>12, <3>1 DEF Sector
  <2>3. Where(j, m) \in Ring
    BY <1>1, <2>2, WhereIsIn
  <2> QED BY <1>4, <1>8, <2>1, <2>3
<1>13. RingKept'
  <2> SUFFICES ASSUME NEW x \in Ring
               PROVE  /\ ring'[x].kind \in {"blank", "loge", "data"}
                      /\ ring'[x].kind = "loge" =>
                            /\ ring'[x].guid \in 1..session
                            /\ ring'[x].guid = session => \E j \in 1..Count : x = Where(j, 0) /\ ring'[x] = entries[j].head
    BY <1>11 DEF RingKept, Landed
  <2>1. CASE x # at
    BY <1>1, <1>8, <2>1 DEF RingKept
  <2>2. CASE x = at /\ k = 0
    <3>1. what = entries[i].head /\ what.kind = "loge" /\ what.guid = session
      BY <1>1, <1>4, <2>2, SectorSaidIs
    <3>2. session \in 1..session
      BY <1>1 DEF LogInv, PhaseKept, LogTypes
    <3> QED BY <1>4, <1>8, <2>2, <3>1, <3>2
  <2>3. CASE x = at /\ k # 0
    <3>1. what.kind = "data"
      BY <1>1, <1>4, <2>3, SectorSaidIs
    <3> QED BY <1>8, <2>3, <3>1
  <2> QED BY <2>1, <2>2, <2>3
<1>14. LogLanded'
  <2> SUFFICES ASSUME NEW j \in Kept..Count, NEW m \in 0..(entries[j].head.len - 1)
               PROVE  ring'[Where(j, m)] = Said(j, m) \/ Landing(j, m)'
    BY <1>11 DEF LogLanded, Landed
  <2>1. Sector(j, m)
    BY DEF Sector
  <2>2. CASE Where(j, m) = at
    BY <1>12, <2>1, <2>2
  <2>3. CASE Where(j, m) # at
    <3>1. ring[Where(j, m)] = Said(j, m) \/ Landing(j, m)
      BY <1>1 DEF LogLanded
    <3>2. Landing(j, m) => Landing(j, m)'
      <4>1. Writing("ring", Where(j, m), Said(j, m)) # w
        BY <1>5, <2>3 DEF Writing
      <4> QED BY <1>11, <4>1 DEF Landing, Landed, Writing
    <3> QED BY <1>12, <2>1, <2>3, <3>1, <3>2
  <2> QED BY <2>2, <2>3
<1>15. ShownKept'
  <2>1. PICK l \in 0..Count : shown <= Base + l /\ Reaches(l)
    BY <1>1 DEF ShownKept
  <2>2. ASSUME NEW j \in 1..l, Issued(j) PROVE OnMedium(j)'
    <3>1. j \in 1..Count
      BY <1>1, <2>1 DEF LogTypes, Count
    <3>2. OnMedium(j)
      BY <2>1, <2>2 DEF Reaches
    <3>3. ASSUME NEW m \in 0..(entries[j].head.len - 1) PROVE ring'[Where(j, m)] = Said(j, m)
      <4>1. Sector(j, m)
        BY <1>1, <2>2, <3>1, IssuedMustStay
      <4>2. ring[Where(j, m)] = Said(j, m)
        BY <3>2 DEF OnMedium
      <4> QED BY <1>12, <4>1, <4>2
    <3> QED BY <1>11, <3>3 DEF OnMedium, Landed
  <2>3. Reaches(l)'
    BY <1>11, <2>2 DEF Reaches
  <2>4. shown' = shown /\ Base' = Base
    BY DEF Landed, Base
  <2> QED BY <1>1, <1>11, <2>1, <2>3, <2>4 DEF ShownKept
<1>16. BatKept'
  <2>1. \A b, v : Writing("bat", b, v) # w
    BY <1>5 DEF Writing
  <2> QED BY <2>1, BatStays DEF LogInv, Landed
<1>17. SizeKept'
  <2>1. Writing("size", 0, extended) # w
    BY <1>5 DEF Writing
  <2> QED BY <2>1 DEF LogInv, SizeKept, Landed, Writing
<1>18. PhaseKept'
  BY <1>1, OpenStays DEF LogInv, Landed
<1> QED BY <1>9, <1>10, <1>13, <1>14, <1>15, <1>16, <1>17, <1>18 DEF LogInv

(* OnMedium is one entry that is being put into the table, and it comes after  *)
(* the last that is done.                                                   *)
LEMMA AppliedIsNext ==
    ASSUME LogTypes, EntriesKept, InOrder, NEW i \in 1..Count, entries[i].state \in {"applied", "flushed"},
           \A m \in 1..(i - 1) : Done(m), NEW j \in 0..Count, LastDone(j)
    PROVE  j + 1 = i
<1>1. Count \in Nat /\ i \in Nat /\ j \in Nat /\ ~Done(i)
  BY DEF LogTypes, Count, Done
<1>2. ASSUME i <= j PROVE FALSE
  <2>1. j \in 1..Count /\ Done(j) /\ i # j
    BY <1>1, <1>2 DEF LastDone
  <2>2. i \in 1..(j - 1) /\ entries[j].state \in {"applied", "done"}
    BY <1>1, <1>2, <2>1 DEF Done
  <2> QED BY <1>1, <2>1, <2>2 DEF InOrder
<1>3. ASSUME j + 1 < i PROVE FALSE
  <2>1. j + 1 \in 1..(i - 1) /\ j # Count
    BY <1>1, <1>3
  <2> QED BY <2>1 DEF LastDone
<1> QED BY <1>1, <1>2, <1>3

LEMMA LandBatKeeps ==
    ASSUME LogInv, NEW w, Landed(w), phase = "open", BatWrite(w),
           UNCHANGED <<ring, size, headers>>, bat' = [bat EXCEPT ![w.at] = w.what]
    PROVE  LogInv'
<1>1. LogTypes /\ EntriesKept /\ InOrder /\ BatKept /\ HistKept
  BY DEF LogInv
<1>2. PICK i \in 1..Count : entries[i].state = "applied" /\ \E b \in Blocks : w = Writing("bat", b, hist[Base + i][b])
  BY DEF BatWrite
<1>3. PICK c \in Blocks : w = Writing("bat", c, hist[Base + i][c])
  BY <1>2
<1>4. w.at = c /\ w.what = hist[Base + i][c]
  BY <1>3 DEF Writing
<1>5. Base + i \in 1..Len(hist) /\ Base \in Nat /\ hist[Base + i] \in Tables /\ Count \in Nat
  <2>1. i \in 0..Count
    OBVIOUS
  <2> QED BY <1>1, <2>1, TablesAre
<1>6. bat' \in Tables /\ bat'[c] = hist[Base + i][c] /\ \A b \in Blocks : b # c => bat'[b] = bat[b]
  <2>1. bat \in Tables
    BY <1>1 DEF LogTypes
  <2> QED BY <1>4, <1>5, <2>1 DEF Tables
<1>7. LogTypes'
  BY <1>1, <1>6 DEF LogTypes, Landed
<1>8. EntriesKept' /\ InOrder' /\ Room' /\ HistKept' /\ SafeKept'
  BY <1>7, StaysWhenLanded
<1>9. RingKept' /\ ShownKept'
  BY RingStays DEF LogInv, Landed
<1>10. LogLanded'
  <2>1. \A at, v : Writing("ring", at, v) # w
    BY <1>3 DEF Writing
  <2> QED BY <2>1, LogStays DEF LogInv, Landed
<1>11. BatKept'
  <2>1. Count' = Count /\ Base' = Base /\ \A j : LastDone(j)' = LastDone(j)
    BY OrderStays DEF Base, Landed
  <2>2. SUFFICES ASSUME NEW j \in 0..Count, LastDone(j), NEW b \in Blocks
               PROVE  \/ bat'[b] = hist[Base + j][b]
                         /\ (j < Count /\ entries[j + 1].state = "applied" =>
                                \/ hist[Base + j + 1][b] = bat'[b]
                                \/ Writing("bat", b, hist[Base + j + 1][b]) \in pending')
                      \/ j < Count /\ entries[j + 1].state = "applied" /\ bat'[b] = hist[Base + j + 1][b]
    BY <2>1 DEF BatKept, Writing, Landed
  <2>3. \A m \in 1..(i - 1) : Done(m)
    BY <1>1, <1>2 DEF InOrder
  <2>4. j + 1 = i
    BY <1>1, <1>2, <2>2, <2>3, AppliedIsNext
  <2>5. j < Count /\ Base + j + 1 = Base + i
    BY <1>5, <2>4
  <2>6. CASE b = c
    <3>1. bat'[b] = hist[Base + j + 1][b] /\ entries[j + 1].state = "applied"
      BY <1>2, <1>6, <2>4, <2>5, <2>6
    <3> QED BY <2>5, <3>1
  <2>7. CASE b # c
    <3>1. \/ bat[b] = hist[Base + j][b]
             /\ (j < Count /\ entries[j + 1].state = "applied" =>
                    \/ hist[Base + j + 1][b] = bat[b]
                    \/ Writing("bat", b, hist[Base + j + 1][b]) \in pending)
          \/ j < Count /\ entries[j + 1].state = "applied" /\ bat[b] = hist[Base + j + 1][b]
      BY <1>1, <2>2 DEF BatKept
    <3>2. bat'[b] = bat[b]
      BY <1>6, <2>7
    <3>3. \A v : Writing("bat", b, v) # w
      BY <1>3, <2>7 DEF Writing
    <3>4. \A v : Writing("bat", b, v) \in pending => Writing("bat", b, v) \in pending'
      BY <3>3 DEF Landed
    <3> QED BY <3>1, <3>2, <3>4
  <2> QED BY <2>6, <2>7
<1>12. SizeKept'
  <2>1. Writing("size", 0, extended) # w
    BY <1>3 DEF Writing
  <2> QED BY <2>1 DEF LogInv, SizeKept, Landed, Writing
<1>13. PhaseKept'
  BY <1>1, OpenStays DEF LogInv, Landed
<1> QED BY <1>7, <1>8, <1>9, <1>10, <1>11, <1>12, <1>13 DEF LogInv

LEMMA LandKeeps == LogInv /\ Land /\ UNCHANGED shown => LogInv'
<1> SUFFICES ASSUME LogInv, Land, UNCHANGED shown PROVE LogInv'
  OBVIOUS
<1>1. PICK w \in pending :
        /\ pending' = pending \ {w}
        /\ ring' = IF w.to = "ring" THEN [ring EXCEPT ![w.at] = w.what] ELSE ring
        /\ bat' = IF w.to = "bat" THEN [bat EXCEPT ![w.at] = w.what] ELSE bat
        /\ size' = IF w.to = "size" THEN Max({size, w.what}) ELSE size
        /\ headers' = IF w.to = "header" THEN [headers EXCEPT ![w.at] = w.what] ELSE headers
  BY DEF Land
<1>2. UNCHANGED <<entries, session, phase, places, extended, stable, hist, safe, shown>>
  BY DEF Land
<1>3. Landed(w)
  BY <1>1, <1>2 DEF Landed
<1>4. w.to = "header" \/ (phase = "open" /\ (RingWrite(w) \/ BatWrite(w) \/ SizeWrite(w)))
  <2>1. \A h, x : Writing("header", h, x).to = "header"
    BY DEF Writing
  <2>2. \A old, new : Turning(old, new) => w.to = "header"
    BY <2>1 DEF Turning
  <2> QED BY <2>2 DEF LogInv, PhaseKept
<1>5. CASE w.to = "header"
  BY <1>1, <1>3, <1>5, LandHeaderKeeps
<1>6. CASE phase = "open" /\ RingWrite(w)
  <2>1. w.to = "ring"
    BY <1>6 DEF RingWrite, Writing
  <2> QED BY <1>1, <1>3, <1>6, <2>1, LandRingKeeps
<1>7. CASE phase = "open" /\ BatWrite(w)
  <2>1. w.to = "bat"
    BY <1>7 DEF BatWrite, Writing
  <2> QED BY <1>1, <1>3, <1>7, <2>1, LandBatKeeps
<1>8. CASE phase = "open" /\ SizeWrite(w)
  <2>1. w.to = "size"
    BY <1>8 DEF SizeWrite, Writing
  <2> QED BY <1>1, <1>3, <1>8, <2>1, LandSizeKeeps
<1> QED BY <1>4, <1>5, <1>6, <1>7, <1>8

(* A step that changes no more of the entries than their states.            *)
SameButState ==
    /\ Count' = Count /\ hist' = hist
    /\ \A i \in 1..Count :
          /\ entries'[i].from = entries[i].from /\ entries'[i].head = entries[i].head
          /\ entries'[i].first = entries[i].first /\ entries'[i].table = entries[i].table

LEMMA AlikeIs ==
    ASSUME LogTypes, LogTypes', EntriesKept, SameButState
    PROVE  /\ Base' = Base
           /\ \A i \in 1..Count : \A k : Where(i, k)' = Where(i, k) /\ Said(i, k)' = Said(i, k)
           /\ Logged' = Logged
<1>1. Base' = Base
  BY DEF Base, SameButState, Count
<1>2. \A i \in 1..Count : \A k : Where(i, k)' = Where(i, k) /\ Said(i, k)' = Said(i, k)
  BY DEF SameButState, Where, Said, At
<1>3. Count \in Nat /\ Count' = Count /\ Len(entries) = Count /\ Len(entries') = Count
  BY DEF SameButState, LogTypes, Count
<1>4. /\ entries = <<>> <=> Count = 0
      /\ entries' = <<>> <=> Count = 0
  BY <1>3 DEF LogTypes
<1>5. Last(entries) = entries[Count] /\ Last(entries') = entries'[Count]
  BY <1>3 DEF Last
<1>6. Count # 0 => entries'[Count].from = entries[Count].from /\ entries'[Count].head = entries[Count].head
  BY <1>3 DEF SameButState
<1>7. Logged' = Logged
  BY <1>4, <1>5, <1>6 DEF Logged
<1> QED BY <1>1, <1>2, <1>7

LEMMA AlikeKept ==
    ASSUME LogTypes, LogTypes', EntriesKept, SameButState, session' = session, stable <= stable',
           \A i \in 1..Count :
              /\ entries'[i].state \in {"issued", "flushed", "applied", "done"}
              /\ entries'[i].state = "done" => entries[i].head.last <= stable'
              /\ entries'[i].state = "applied" => entries[i].head.last <= extended'
    PROVE  EntriesKept'
<1>1. Count' = Count /\ Base' = Base
  BY AlikeIs DEF SameButState
<1>2. ASSUME NEW i \in 1..Count PROVE EntryKept(entries[i], i)'
  <2>1. EntryKept(entries[i], i)
    BY DEF EntriesKept
  <2>2. /\ entries'[i].from = entries[i].from /\ entries'[i].head = entries[i].head
        /\ entries'[i].first = entries[i].first /\ entries'[i].table = entries[i].table
    BY DEF SameButState
  <2>3. PICK head \in Heads : head = entries[i].head
    BY EntryIs
  <2>4. head.flushed \in Nat /\ head.last \in Nat /\ stable \in Nat /\ stable' \in Nat
    BY DEF Heads, LogTypes
  <2>5. HeadKept(head, i)'
    <3>1. HeadKept(head, i)
      BY <2>1, <2>3 DEF EntryKept
    <3>2. head.flushed <= stable'
      <4>1. head.flushed <= stable
        BY <3>1 DEF HeadKept
      <4> QED BY <2>4, <4>1
    <3> QED BY <3>1, <3>2 DEF HeadKept
  <2>6. HeadKept(entries[i].head, i)'
    BY <2>2, <2>3, <2>5
  <2>7. Makes(entries[i].head, hist[Base + i - 1], entries[i].table)' /\ (entries[i].table = hist[Base + i])'
    <3>1. hist' = hist
      BY DEF SameButState
    <3> QED BY <1>1, <2>1, <2>2, <3>1 DEF EntryKept, Makes
  <2>8. (entries[i].head.tail = At(entries[entries[i].first].from))'
    <3>1. entries[i].first \in 1..Count
      <4>1. entries[i].first \in 1..i /\ Count \in Nat
        BY EntryIs
      <4> QED BY <4>1
    <3>2. entries'[entries[i].first].from = entries[entries[i].first].from
      BY <3>1 DEF SameButState
    <3> QED BY <2>1, <2>2, <3>2 DEF EntryKept, At
  <2> QED BY <2>1, <2>2, <2>3, <2>6, <2>7, <2>8 DEF EntryKept
<1> QED BY <1>1, <1>2 DEF EntriesKept

(* The oldest flushed entry goes into the table.                            *)
LEMMA ApplyKeeps == LogInv /\ Apply /\ UNCHANGED shown => LogInv'
<1> SUFFICES ASSUME LogInv, Apply, UNCHANGED shown PROVE LogInv'
  OBVIOUS
<1>1. PICK i \in 1..Count :
        /\ entries[i].state = "flushed" /\ \A j \in 1..(i - 1) : Done(j)
        /\ extended >= entries[i].head.last
        /\ pending' = pending \cup {Writing("bat", b, entries[i].table[b]) : b \in {b \in Blocks : entries[i].table[b] # bat[b]}}
        /\ entries' = [entries EXCEPT ![i].state = "applied"]
  BY DEF Apply, Count, Done, Writing
<1>2. UNCHANGED <<ring, bat, size, headers, session, phase, places, extended, stable, hist, safe, shown>>
  BY DEF Apply
<1>3. LogTypes /\ EntriesKept /\ InOrder /\ Room /\ BatKept /\ HistKept /\ PhaseKept
  BY DEF LogInv
<1>4. Count \in Nat /\ entries \in Seq(Entries) /\ Len(entries) = Count
  BY <1>3 DEF LogTypes, Count
<1>5. /\ entries' \in Seq(Entries) /\ Len(entries') = Count
      /\ entries'[i] = [entries[i] EXCEPT !.state = "applied"]
      /\ \A j \in 1..Count : j # i => entries'[j] = entries[j]
  <2>1. PICK e : e = [entries[i] EXCEPT !.state = "applied"]
    OBVIOUS
  <2>2. e \in Entries
    <3>1. entries[i] \in Entries
      BY <1>4
    <3> QED BY <2>1, <3>1 DEF Entries
  <2>3. entries' = [entries EXCEPT ![i] = e]
    BY <1>1, <2>1
  <2>4. PICK q \in Seq(Entries) : q = entries
    BY <1>4
  <2>5. e \in Entries /\ i \in 1..Len(q) /\ Len(q) = Count /\ entries' = [q EXCEPT ![i] = e]
    BY <1>4, <2>2, <2>3, <2>4
  <2>6. entries' \in Seq(Entries) /\ Len(entries') = Count
    BY ONLY q \in Seq(Entries), <2>5
  <2>7. entries'[i] = e /\ \A j \in 1..Count : j # i => entries'[j] = q[j]
    BY ONLY q \in Seq(Entries), <2>5
  <2> QED BY <2>1, <2>4, <2>6, <2>7
<1>6. LogTypes'
  BY <1>2, <1>3, <1>5 DEF LogTypes
<1>7. Count' = Count /\ entries'[i].state = "applied"
  <2>1. entries[i] \in Entries
    BY <1>4
  <2> QED BY <1>5, <2>1 DEF Count, Entries
<1>8. \A j \in 1..Count : (Issued(j)' <=> Issued(j)) /\ (Done(j)' <=> Done(j)) /\ (entries[j].state = "applied" => entries'[j].state = "applied")
  BY <1>1, <1>5, <1>7 DEF Issued, Done
<1>9. SameButState
  <2>1. ASSUME NEW j \in 1..Count
        PROVE  /\ entries'[j].from = entries[j].from /\ entries'[j].head = entries[j].head
               /\ entries'[j].first = entries[j].first /\ entries'[j].table = entries[j].table
    <3>1. CASE j # i
      BY <1>5, <3>1
    <3>2. CASE j = i
      <4>1. PICK e \in Entries : e = entries[i]
        BY <1>4
      <4>2. entries'[i] = [e EXCEPT !.state = "applied"]
        BY <1>5, <4>1
      <4> QED BY <3>2, <4>1, <4>2 DEF Entries
    <3> QED BY <3>1, <3>2
  <2> QED BY <1>2, <1>7, <2>1 DEF SameButState
<1>10. /\ Base' = Base /\ Logged' = Logged
       /\ \A j \in 1..Count : \A k : Where(j, k)' = Where(j, k) /\ Said(j, k)' = Said(j, k)
  BY <1>3, <1>6, <1>9, AlikeIs
<1>11. EntriesKept'
  <2>1. stable <= stable'
    BY <1>2, <1>3 DEF LogTypes
  <2>2. \A j \in 1..Count :
            /\ entries'[j].state \in {"issued", "flushed", "applied", "done"}
            /\ entries'[j].state = "done" => entries[j].head.last <= stable'
            /\ entries'[j].state = "applied" => entries[j].head.last <= extended'
    <3>1. ASSUME NEW j \in 1..Count, j = i
          PROVE  entries'[j].state = "applied" /\ entries[j].head.last <= extended'
      <4>1. extended \in Nat /\ entries[i].head.last \in Nat
        BY <1>3, EntryIs DEF LogTypes
      <4> QED BY <1>1, <1>2, <1>7, <3>1, <4>1
    <3>2. ASSUME NEW j \in 1..Count, j # i
          PROVE  /\ entries'[j].state \in {"issued", "flushed", "applied", "done"}
                 /\ entries'[j].state = "done" => entries[j].head.last <= stable'
                 /\ entries'[j].state = "applied" => entries[j].head.last <= extended'
      <4>1. EntryKept(entries[j], j) /\ entries'[j] = entries[j]
        BY <1>3, <1>5, <3>2 DEF EntriesKept
      <4> QED BY <1>2, <4>1 DEF EntryKept
    <3> QED BY <3>1, <3>2
  <2> QED BY <1>2, <1>3, <1>6, <1>9, <2>1, <2>2, AlikeKept
<1>12. Kept' = Kept
  <2>1. {j \in 1..Len(entries') : entries'[j].state # "issued"} = {j \in 1..Len(entries) : entries[j].state # "issued"}
    BY <1>4, <1>5, <1>8 DEF Issued
  <2>2. PICK S : S = {j \in 1..Len(entries) : entries[j].state # "issued"}
    OBVIOUS
  <2>3. Kept = IF S = {} THEN 1 ELSE entries[Max(S)].first
    BY <2>2 DEF Kept
  <2>4. Kept' = IF S = {} THEN 1 ELSE entries'[Max(S)].first
    BY <2>1, <2>2 DEF Kept
  <2>5. S # {} => Max(S) \in 1..Count
    <3>1. S \subseteq 1..Count /\ S \subseteq Nat /\ \A x \in S : x <= Count
      BY <1>4, <2>2
    <3>2. S # {} => Max(S) \in S
      BY <1>4, <3>1, GreatestOf
    <3> QED BY <3>1, <3>2
  <2> QED BY <1>9, <2>3, <2>4, <2>5 DEF SameButState
<1>13. InOrder'
  <2> SUFFICES ASSUME NEW j \in 1..Count
               PROVE  /\ j = 1 => entries'[j].from = 0
                      /\ j > 1 => /\ entries'[j].from = entries'[j - 1].from + entries'[j - 1].head.len
                                  /\ entries'[j - 1].first <= entries'[j].first
                      /\ \A m \in 1..(j - 1) :
                            /\ Issued(m)' => Issued(j)'
                            /\ entries'[j].state \in {"applied", "done"} => Done(m)'
                            /\ m < entries'[j].first => Done(m)'
    BY <1>7 DEF InOrder
  <2>1. /\ entries'[j].from = entries[j].from /\ entries'[j].head = entries[j].head
        /\ entries'[j].first = entries[j].first
    BY <1>9 DEF SameButState
  <2>2. \A m \in 1..(j - 1) : m \in 1..Count
    BY <1>4
  <2>3. j > 1 => /\ j - 1 \in 1..Count
                 /\ entries'[j - 1].from = entries[j - 1].from /\ entries'[j - 1].head = entries[j - 1].head
                 /\ entries'[j - 1].first = entries[j - 1].first
    <3>1. j > 1 => j - 1 \in 1..Count
      BY <1>4
    <3> QED BY <1>9, <3>1 DEF SameButState
  <2>4. /\ j = 1 => entries'[j].from = 0
        /\ j > 1 => /\ entries'[j].from = entries'[j - 1].from + entries'[j - 1].head.len
                    /\ entries'[j - 1].first <= entries'[j].first
    <3>1. /\ j = 1 => entries[j].from = 0
          /\ j > 1 => /\ entries[j].from = entries[j - 1].from + entries[j - 1].head.len
                      /\ entries[j - 1].first <= entries[j].first
      BY <1>3 DEF InOrder
    <3> QED BY <2>1, <2>3, <3>1
  <2>5. ASSUME NEW m \in 1..(j - 1)
        PROVE  /\ Issued(m)' => Issued(j)'
               /\ entries'[j].state \in {"applied", "done"} => Done(m)'
               /\ m < entries'[j].first => Done(m)'
    <3>1. /\ Issued(m) => Issued(j)
          /\ entries[j].state \in {"applied", "done"} => Done(m)
          /\ m < entries[j].first => Done(m)
      BY <1>3 DEF InOrder
    <3>2. m \in 1..Count
      BY <2>2
    <3>3. entries'[j].state \in {"applied", "done"} => Done(m)
      <4>1. CASE j = i
        BY <1>1, <4>1
      <4>2. CASE j # i
        BY <1>5, <3>1, <4>2
      <4> QED BY <4>1, <4>2
    <3> QED BY <1>8, <2>1, <3>1, <3>2, <3>3
  <2> QED BY <2>4, <2>5
<1>14. Room'
  <2>1. Kept \in Nat \ {0}
    BY <1>3, KeptIs
  <2>2. \A j \in Kept..Count : entries'[j].from = entries[j].from
    <3>1. \A j \in Kept..Count : j \in 1..Count
      BY <1>4, <2>1
    <3> QED BY <1>9, <3>1 DEF SameButState
  <2> QED BY <1>3, <1>7, <1>10, <1>12, <2>2 DEF Room
<1>15. RingKept'
  <2>1. \A j \in 1..Count : entries'[j].head = entries[j].head /\ Where(j, 0)' = Where(j, 0)
    BY <1>9, <1>10 DEF SameButState
  <2> QED BY <1>2, <1>7, <2>1 DEF LogInv, RingKept
<1>16. LogLanded'
  <2>1. Kept \in Nat \ {0}
    BY <1>3, KeptIs
  <2> SUFFICES ASSUME NEW j \in Kept..Count, NEW k \in 0..(entries'[j].head.len - 1)
               PROVE  (ring[Where(j, k)] = Said(j, k) \/ Landing(j, k))'
    BY <1>7, <1>12 DEF LogLanded
  <2>2. j \in 1..Count /\ entries'[j].head = entries[j].head
    <3>1. j \in 1..Count
      BY <1>4, <2>1
    <3> QED BY <1>9, <3>1 DEF SameButState
  <2>3. ring[Where(j, k)] = Said(j, k) \/ Landing(j, k)
    BY <2>2 DEF LogInv, LogLanded
  <2>4. Landing(j, k) => Landing(j, k)'
    BY <1>1, <1>8, <1>10, <2>2 DEF Landing, Writing
  <2> QED BY <1>2, <1>10, <2>2, <2>3, <2>4
<1>17. BatKept'
  <2>1. \A j \in 0..Count : LastDone(j)' => LastDone(j)
    <3>1. \A j \in 0..Count : (j # 0 => j \in 1..Count) /\ (j # Count => j + 1 \in 1..Count)
      BY <1>4
    <3> QED BY <1>7, <1>8, <3>1 DEF LastDone
  <2> SUFFICES ASSUME NEW j \in 0..Count, LastDone(j), NEW b \in Blocks
               PROVE  \/ bat[b] = hist[Base + j][b]
                         /\ (j < Count /\ entries'[j + 1].state = "applied" =>
                                \/ hist[Base + j + 1][b] = bat[b]
                                \/ Writing("bat", b, hist[Base + j + 1][b]) \in pending')
                      \/ j < Count /\ entries'[j + 1].state = "applied" /\ bat[b] = hist[Base + j + 1][b]
    BY <1>2, <1>7, <1>10, <2>1 DEF BatKept, Writing
  <2>2. j + 1 = i
    BY <1>1, <1>3, AppliedIsNext
  <2>3. entries[j + 1].state # "applied"
    BY <1>1, <2>2
  <2>4. bat[b] = hist[Base + j][b]
    BY <1>3, <2>3 DEF BatKept
  <2>5. entries[i].table = hist[Base + i] /\ Base + j + 1 = Base + i
    <3>1. EntryKept(entries[i], i)
      BY <1>3 DEF EntriesKept
    <3>2. Base \in Nat
      BY <1>3, TablesAre
    <3> QED BY <1>4, <2>2, <3>1, <3>2 DEF EntryKept
  <2>6. hist[Base + j + 1][b] = bat[b] \/ Writing("bat", b, hist[Base + j + 1][b]) \in pending'
    BY <1>1, <2>5
  <2> QED BY <2>4, <2>6
<1>18. SizeKept'
  BY <1>1, <1>2 DEF LogInv, SizeKept, Writing
<1>19. HistKept'
  BY <1>2, <1>3, <1>7, <1>10 DEF HistKept
<1>20. SafeKept'
  BY <1>2, <1>7, <1>8, <1>10 DEF LogInv, SafeKept
<1>21. ShownKept'
  <2>1. PICK l \in 0..Count : shown <= Base + l /\ Reaches(l)
    BY DEF LogInv, ShownKept
  <2>2. ASSUME NEW j \in 1..l, Issued(j)' PROVE OnMedium(j)'
    <3>1. j \in 1..Count
      BY <1>4, <2>1
    <3>2. OnMedium(j)
      BY <1>8, <2>1, <2>2, <3>1 DEF Reaches
    <3>3. entries'[j].head = entries[j].head
      BY <1>9, <3>1 DEF SameButState
    <3> QED BY <1>2, <1>10, <3>1, <3>2, <3>3 DEF OnMedium
  <2>3. Reaches(l)'
    BY <2>2 DEF Reaches
  <2> QED BY <1>2, <1>7, <1>10, <2>1, <2>3 DEF LogInv, ShownKept
<1>22. PhaseKept'
  <2>1. ~AllDone /\ entries # <<>>
    BY <1>1, <1>4 DEF AllDone, Done
  <2>2. /\ session > 0 /\ phase = "open" /\ \E h \in 1..2 : Newest(h, session)
        /\ \A w \in pending : RingWrite(w) \/ BatWrite(w) \/ SizeWrite(w)
    BY <1>3, <2>1 DEF PhaseKept
  <2>3. \A w : RingWrite(w) => RingWrite(w)'
    <3> SUFFICES ASSUME NEW w, RingWrite(w) PROVE RingWrite(w)'
      OBVIOUS
    <3>1. PICK j \in 1..Count : Issued(j) /\ \E k \in 0..(entries[j].head.len - 1) : w = Writing("ring", Where(j, k), Said(j, k))
      BY DEF RingWrite
    <3>2. Issued(j)' /\ entries'[j].head = entries[j].head
      BY <1>8, <1>9, <3>1 DEF SameButState
    <3>3. \E k \in 0..(entries'[j].head.len - 1) : w = Writing("ring", Where(j, k), Said(j, k))'
      BY <1>10, <3>1, <3>2 DEF Writing
    <3> QED BY <1>7, <3>2, <3>3 DEF RingWrite
  <2>4. \A w : (BatWrite(w) => BatWrite(w)') /\ (SizeWrite(w) => SizeWrite(w)')
    BY <1>2, <1>7, <1>8, <1>10 DEF BatWrite, SizeWrite, Writing
  <2>5. \A b \in Blocks : \A w : w = Writing("bat", b, entries[i].table[b]) => BatWrite(w)'
    <3>1. entries[i].table = hist[Base + i]
      BY <1>3 DEF EntriesKept, EntryKept
    <3> QED BY <1>2, <1>7, <1>10, <3>1 DEF BatWrite, Writing
  <2>6. \A w \in pending' : (RingWrite(w) \/ BatWrite(w) \/ SizeWrite(w))'
    BY <1>1, <2>2, <2>3, <2>4, <2>5
  <2>7. \E h \in 1..2 : Newest(h, session)'
    BY <1>2, <2>2 DEF Newest
  <2> QED BY <1>2, <2>2, <2>6, <2>7 DEF PhaseKept
<1> QED BY <1>6, <1>11, <1>13, <1>14, <1>15, <1>16, <1>17, <1>18, <1>19, <1>20, <1>21, <1>22 DEF LogInv

(* The medium has all that it was given.                                    *)
LEMMA FlushKeeps == LogInv /\ Flush /\ UNCHANGED shown => LogInv'
<1> SUFFICES ASSUME LogInv, Flush, UNCHANGED shown PROVE LogInv'
  OBVIOUS
<1>1. /\ pending = {} /\ pending' = {}
      /\ phase' = CASE phase = "opening" -> "open" [] phase = "closing" -> "closed" [] OTHER -> phase
      /\ entries' = [i \in 1..Len(entries) |->
                      [entries[i] EXCEPT !.state =
                          CASE @ = "issued" -> "flushed" [] @ = "applied" -> "done" [] OTHER -> @]]
      /\ stable' = extended /\ safe' = Len(hist)
      /\ UNCHANGED <<ring, bat, size, headers, session, places, extended, hist, shown>>
  BY DEF Flush
<1>2. LogTypes /\ EntriesKept /\ InOrder /\ Room /\ BatKept /\ HistKept /\ PhaseKept /\ SizeKept
  BY DEF LogInv
<1>3. Count \in Nat /\ entries \in Seq(Entries) /\ Len(entries) = Count
  BY <1>2 DEF LogTypes, Count
<1>4. ASSUME NEW i \in 1..Count
      PROVE  /\ entries'[i] \in Entries
             /\ entries'[i].from = entries[i].from /\ entries'[i].head = entries[i].head
             /\ entries'[i].first = entries[i].first /\ entries'[i].table = entries[i].table
             /\ entries'[i].state \in {"flushed", "done"}
             /\ Done(i)' <=> Done(i) \/ entries[i].state = "applied"
  <2>1. PICK e \in Entries : e = entries[i]
    BY <1>3
  <2>2. PICK s : s = CASE e.state = "issued" -> "flushed" [] e.state = "applied" -> "done" [] OTHER -> e.state
    OBVIOUS
  <2>3. entries'[i] = [e EXCEPT !.state = s]
    BY <1>1, <1>3, <2>1, <2>2
  <2>4. e.state \in {"issued", "flushed", "applied", "done"}
    BY DEF Entries
  <2>5. s \in {"flushed", "done"} /\ (s = "done" <=> e.state = "done" \/ e.state = "applied")
    BY <2>2, <2>4
  <2>6. entries'[i] \in Entries /\ entries'[i].state = s
    BY <2>3, <2>5 DEF Entries
  <2>7. /\ entries'[i].from = e.from /\ entries'[i].head = e.head
        /\ entries'[i].first = e.first /\ entries'[i].table = e.table
    BY <2>3 DEF Entries
  <2> QED BY <2>1, <2>5, <2>6, <2>7 DEF Done
<1>5. entries' \in Seq(Entries) /\ Len(entries') = Count
  <2>1. PICK f : f = entries'
    OBVIOUS
  <2>2. f = [i \in 1..Count |-> f[i]] /\ \A i \in 1..Count : f[i] \in Entries
    <3>1. DOMAIN f = 1..Count /\ f = [i \in DOMAIN f |-> f[i]]
      BY <1>1, <1>3, <2>1
    <3> QED BY <1>4, <2>1, <3>1
  <2>3. f \in Seq(Entries) /\ Len(f) = Count
    BY ONLY <1>3, <2>2
  <2> QED BY <2>1, <2>3
<1>6. LogTypes'
  <2>1. Len(hist) \in Nat /\ extended \in Nat
    BY <1>2 DEF LogTypes
  <2> QED BY <1>1, <1>2, <1>5, <2>1 DEF LogTypes
<1>7. Count' = Count
  BY <1>5 DEF Count
<1>8. SameButState
  BY <1>1, <1>4, <1>7 DEF SameButState
<1>9. /\ Base' = Base /\ Logged' = Logged
       /\ \A j \in 1..Count : \A k : Where(j, k)' = Where(j, k) /\ Said(j, k)' = Said(j, k)
  BY <1>2, <1>6, <1>8, AlikeIs
<1>10. stable \in Nat /\ extended \in Nat /\ stable <= extended
  BY <1>2 DEF LogTypes, SizeKept
<1>11. EntriesKept'
  <2>1. ASSUME NEW j \in 1..Count
        PROVE  /\ entries'[j].state \in {"issued", "flushed", "applied", "done"}
               /\ entries'[j].state = "done" => entries[j].head.last <= stable'
               /\ entries'[j].state = "applied" => entries[j].head.last <= extended'
    <3>1. entries'[j].state \in {"flushed", "done"}
      BY <1>4
    <3>2. ASSUME entries'[j].state = "done" PROVE entries[j].head.last <= stable'
      <4>1. entries[j].state \in {"done", "applied"}
        BY <1>4, <3>2 DEF Done
      <4>2. EntryKept(entries[j], j) /\ entries[j].head.last \in Nat
        BY <1>2, EntryIs
      <4>3. entries[j].head.last <= stable \/ entries[j].head.last <= extended
        BY <4>1, <4>2 DEF EntryKept
      <4> QED BY <1>1, <1>10, <4>2, <4>3
    <3> QED BY <3>1, <3>2
  <2>2. stable <= stable'
    BY <1>1, <1>10
  <2> QED BY <1>1, <1>2, <1>6, <1>8, <2>1, <2>2, AlikeKept
<1>12. \A j \in 1..Count : ~Issued(j)' /\ (Done(j) => Done(j)')
  BY <1>4 DEF Issued
<1>13. InOrder'
  <2> SUFFICES ASSUME NEW j \in 1..Count
               PROVE  /\ j = 1 => entries'[j].from = 0
                      /\ j > 1 => /\ entries'[j].from = entries'[j - 1].from + entries'[j - 1].head.len
                                  /\ entries'[j - 1].first <= entries'[j].first
                      /\ \A m \in 1..(j - 1) :
                            /\ Issued(m)' => Issued(j)'
                            /\ entries'[j].state \in {"applied", "done"} => Done(m)'
                            /\ m < entries'[j].first => Done(m)'
    BY <1>7 DEF InOrder
  <2>1. /\ entries'[j].from = entries[j].from /\ entries'[j].head = entries[j].head
        /\ entries'[j].first = entries[j].first
    BY <1>4
  <2>2. \A m \in 1..(j - 1) : m \in 1..Count
    BY <1>3
  <2>3. j > 1 => /\ entries'[j - 1].from = entries[j - 1].from /\ entries'[j - 1].head = entries[j - 1].head
                 /\ entries'[j - 1].first = entries[j - 1].first
    <3>1. j > 1 => j - 1 \in 1..Count
      BY <1>3
    <3> QED BY <1>4, <3>1
  <2>4. /\ j = 1 => entries'[j].from = 0
        /\ j > 1 => /\ entries'[j].from = entries'[j - 1].from + entries'[j - 1].head.len
                    /\ entries'[j - 1].first <= entries'[j].first
    <3>1. /\ j = 1 => entries[j].from = 0
          /\ j > 1 => /\ entries[j].from = entries[j - 1].from + entries[j - 1].head.len
                      /\ entries[j - 1].first <= entries[j].first
      BY <1>2 DEF InOrder
    <3> QED BY <2>1, <2>3, <3>1
  <2>5. ASSUME NEW m \in 1..(j - 1)
        PROVE  /\ Issued(m)' => Issued(j)'
               /\ entries'[j].state \in {"applied", "done"} => Done(m)'
               /\ m < entries'[j].first => Done(m)'
    <3>1. /\ entries[j].state \in {"applied", "done"} => Done(m)
          /\ m < entries[j].first => Done(m)
      BY <1>2 DEF InOrder
    <3>2. m \in 1..Count
      BY <2>2
    <3>3. entries'[j].state \in {"applied", "done"} => entries[j].state \in {"applied", "done"}
      BY <1>4 DEF Done
    <3> QED BY <1>12, <2>1, <3>1, <3>2, <3>3
  <2> QED BY <2>4, <2>5
<1>14. Kept' \in Kept..Count \/ Count = 0
  <2>1. CASE Count # 0
    <3>1. Count \in 1..Count
      BY <1>3, <2>1
    <3>2. Kept' = entries[Count].first
      <4>1. {j \in 1..Len(entries') : entries'[j].state # "issued"} = 1..Count
        BY <1>5, <1>12 DEF Issued
      <4>2. Kept' = entries'[Max(1..Count)].first
        BY <3>1, <4>1 DEF Kept
      <4>3. Max(1..Count) = Count
        <5>1. 1..Count \subseteq Nat /\ 1..Count # {} /\ \A x \in 1..Count : x <= Count
          BY <1>3, <3>1
        <5>2. Max(1..Count) \in 1..Count /\ \A x \in 1..Count : x <= Max(1..Count)
          BY <1>3, <5>1, GreatestOf
        <5> QED BY <1>3, <3>1, <5>2
      <4> QED BY <1>4, <3>1, <4>2, <4>3
    <3>3. entries[Count].first \in 1..Count
      BY <1>2, <3>1, EntryIs
    <3>4. Kept <= entries[Count].first
      <4>1. CASE \A j \in 1..Count : Issued(j)
        <5>1. Kept = 1
          BY <1>2, <4>1, KeptIs
        <5> QED BY <1>3, <3>3, <5>1
      <4>2. CASE \E j \in 1..Count : ~Issued(j)
        <5>1. PICK j \in 1..Count : ~Issued(j)
          BY <4>2
        <5>2. PICK f \in j..Count : Kept = entries[f].first
          BY <1>2, <5>1, KeptIs
        <5>3. f \in 1..Count /\ f <= Count
          BY <1>3, <5>1, <5>2
        <5>4. entries[f].first <= entries[Count].first
          BY <1>2, <3>1, <5>3, FromGrows
        <5> QED BY <5>2, <5>4
      <4> QED BY <4>1, <4>2
    <3>5. Kept \in Nat \ {0}
      BY <1>2, KeptIs
    <3> QED BY <1>3, <3>2, <3>3, <3>4, <3>5
  <2> QED BY <2>1
<1>15. \A j \in Kept'..Count : j \in Kept..Count /\ j \in 1..Count
  <2>1. Kept \in Nat \ {0}
    BY <1>2, KeptIs
  <2>2. CASE Kept' \in Kept..Count
    BY <1>3, <2>1, <2>2
  <2>3. CASE Count = 0
    <3>1. entries' = <<>>
      BY <1>5, <2>3
    <3>2. Kept' = 1
      BY <3>1 DEF Kept
    <3> QED BY <2>3, <3>2
  <2> QED BY <1>14, <2>2, <2>3
<1>16. Room'
  <2>1. \A j \in Kept'..Count : entries'[j].from = entries[j].from /\ Logged <= entries[j].from + LogSectors
    BY <1>2, <1>4, <1>15 DEF Room
  <2> QED BY <1>7, <1>9, <2>1 DEF Room
<1>17. RingKept'
  <2>1. \A j \in 1..Count : entries'[j].head = entries[j].head /\ Where(j, 0)' = Where(j, 0)
    BY <1>4, <1>9
  <2> QED BY <1>1, <1>7, <2>1 DEF LogInv, RingKept
<1>18. LogLanded'
  <2> SUFFICES ASSUME NEW j \in Kept'..Count, NEW k \in 0..(entries'[j].head.len - 1)
               PROVE  (ring[Where(j, k)] = Said(j, k))'
    BY <1>7 DEF LogLanded
  <2>1. j \in Kept..Count /\ j \in 1..Count /\ entries'[j].head = entries[j].head
    BY <1>4, <1>15
  <2>2. ring[Where(j, k)] = Said(j, k)
    BY <1>1, <2>1 DEF LogInv, LogLanded, Landing
  <2> QED BY <1>1, <1>9, <2>1, <2>2
<1>19. BatKept'
  <2> SUFFICES ASSUME NEW j \in 0..Count, LastDone(j)', NEW b \in Blocks
               PROVE  bat[b] = hist[Base + j][b] /\ ~(j < Count /\ entries'[j + 1].state = "applied")
    BY <1>1, <1>7, <1>9 DEF BatKept
  <2>1. /\ j # 0 => j \in 1..Count /\ j - 1 \in 0..Count /\ (j - 1) + 1 = j
        /\ j < Count => j + 1 \in 1..Count
        /\ j # Count => j < Count
    BY <1>3
  <2>2. ~(j < Count /\ entries'[j + 1].state = "applied")
    BY <1>4, <2>1
  <2>3. (j = 0 \/ Done(j)') /\ (j = Count \/ ~Done(j + 1)')
    BY <1>7 DEF LastDone
  <2>4. j = Count \/ (~Done(j + 1) /\ entries[j + 1].state # "applied")
    BY <1>4, <2>1, <2>3
  <2>5. CASE j = 0 \/ Done(j)
    <3>1. LastDone(j)
      BY <2>4, <2>5 DEF LastDone
    <3>2. ~(j < Count /\ entries[j + 1].state = "applied")
      BY <2>1, <2>4
    <3>3. bat[b] = hist[Base + j][b]
      BY <1>2, <3>1, <3>2 DEF BatKept
    <3> QED BY <2>2, <3>3
  <2>6. CASE j # 0 /\ ~Done(j)
    <3>1. j \in 1..Count /\ entries[j].state = "applied"
      BY <1>4, <2>1, <2>3, <2>6
    <3>2. j - 1 = 0 \/ Done(j - 1)
      <4>1. j - 1 # 0 => j - 1 \in 1..(j - 1)
        BY <1>3, <3>1
      <4> QED BY <1>2, <3>1, <4>1 DEF InOrder
    <3>3. PICK i \in 0..Count : i = j - 1
      BY <2>1, <2>6
    <3>4. i + 1 = j /\ i < Count /\ i # Count
      BY <1>3, <3>1, <3>3
    <3>5. LastDone(i)
      BY <2>6, <3>2, <3>3, <3>4 DEF LastDone
    <3>6. \/ bat[b] = hist[Base + i][b] /\ hist[Base + i + 1][b] = bat[b]
          \/ bat[b] = hist[Base + i + 1][b]
      BY <1>1, <1>2, <3>1, <3>4, <3>5 DEF BatKept
    <3>7. Base + i + 1 = Base + j
      <4>1. Base \in Nat
        BY <1>2, TablesAre
      <4> QED BY <3>4, <4>1
    <3> QED BY <2>2, <3>6, <3>7
  <2> QED BY <2>5, <2>6
<1>20. SizeKept'
  <2>1. extended <= size
    BY <1>1, <1>2 DEF SizeKept
  <2>2. extended <= extended
    BY <1>10
  <2> QED BY <1>1, <2>1, <2>2 DEF SizeKept
<1>21. HistKept'
  <2>1. \A b \in Blocks : hist[Base][b] <= stable'
    <3> SUFFICES ASSUME NEW b \in Blocks PROVE hist[Base][b] <= stable'
      OBVIOUS
    <3>1. 0 \in 0..Count
      BY <1>3
    <3>2. hist[Base + 0][b] \in Nat /\ Base + 0 = Base
      BY <1>2, <3>1, TablesAre
    <3>3. hist[Base][b] <= stable
      BY <1>2 DEF HistKept
    <3> QED BY <1>1, <1>10, <3>2, <3>3
  <2> QED BY <1>1, <1>2, <1>7, <1>9, <2>1 DEF HistKept
<1>22. SafeKept'
  <2>1. Len(hist) \in 1..Len(hist)
    <3>1. Len(hist) \in Nat /\ Count < Len(hist)
      BY <1>2 DEF LogTypes, HistKept
    <3> QED BY <1>3, <3>1
  <2> QED BY <1>1, <1>7, <1>12, <2>1 DEF SafeKept
<1>23. ShownKept'
  <2>1. PICK l \in 0..Count : shown <= Base + l /\ Reaches(l)
    BY DEF LogInv, ShownKept
  <2>2. \A j \in 1..l : j \in 1..Count
    BY <1>3, <2>1
  <2>3. Reaches(l)'
    BY <1>12, <2>2 DEF Reaches
  <2> QED BY <1>1, <1>7, <1>9, <2>1, <2>3 DEF LogInv, ShownKept
<1>24. PhaseKept'
  <2>1. \A old, new : Turning(old, new) => \E h \in 1..2 : Newest(h, new)'
    BY <1>1 DEF Turning, Newest
  <2>2. AllDone => AllDone'
    BY <1>7, <1>12 DEF AllDone
  <2>3. \A x : (\E h \in 1..2 : Newest(h, x)) => \E h \in 1..2 : Newest(h, x)'
    BY <1>1 DEF Newest
  <2>4. CASE phase = "closed" /\ AllDone /\ pending = {} /\ \E h \in 1..2 : Newest(h, 0)
    <3>1. phase' = "closed"
      BY <1>1, <2>4
    <3> QED BY <1>1, <2>2, <2>3, <2>4, <3>1 DEF PhaseKept
  <2>5. CASE phase = "opening" /\ Turning(0, session)
    <3>1. phase' = "open" /\ session' > 0
      BY <1>1, <1>2, <2>5 DEF PhaseKept
    <3>2. \E h \in 1..2 : Newest(h, session)'
      <4>1. PICK h \in 1..2 : pending = {} /\ Newest(h, session)
        BY <1>1, <2>5 DEF Turning
      <4> QED BY <1>1, <4>1 DEF Newest
    <3> QED BY <1>1, <3>1, <3>2 DEF PhaseKept
  <2>6. CASE phase = "closing" /\ AllDone /\ Turning(session, 0)
    <3>1. phase' = "closed"
      BY <1>1, <2>6
    <3> QED BY <1>1, <2>1, <2>2, <2>6, <3>1 DEF PhaseKept
  <2>7. CASE phase = "open" /\ \E h \in 1..2 : Newest(h, session)
    <3>1. phase' = "open" /\ session' > 0
      BY <1>1, <1>2, <2>7 DEF PhaseKept
    <3>2. \E h \in 1..2 : Newest(h, session)'
      BY <1>1, <2>7 DEF Newest
    <3> QED BY <1>1, <3>1, <3>2 DEF PhaseKept
  <2> QED BY <1>2, <2>4, <2>5, <2>6, <2>7 DEF PhaseKept
<1> QED BY <1>6, <1>11, <1>13, <1>16, <1>17, <1>18, <1>19, <1>20, <1>21, <1>22, <1>23, <1>24 DEF LogInv

(* The entry for a change of the table.                                     *)
LEMMA NeededFromIs ==
    ASSUME LogTypes, EntriesKept, InOrder
    PROVE  /\ NeededFrom \in 1..(Count + 1)
           /\ \A j \in 1..Count : j < NeededFrom => Done(j)
           /\ Count > 0 => entries[Count].first <= NeededFrom
<1>1. Count \in Nat /\ Len(entries) = Count
  BY DEF LogTypes, Count
<1>2. PICK open : open = {i \in 1..Len(entries) : entries[i].state # "done"}
  OBVIOUS
<1>3. open = {i \in 1..Count : ~Done(i)}
  BY <1>1, <1>2 DEF Done
<1>4. NeededFrom = IF open = {} THEN Count + 1 ELSE Min(open)
  BY <1>1, <1>2 DEF NeededFrom
<1>5. NeededFrom \in 1..(Count + 1) /\ \A j \in 1..Count : j < NeededFrom => Done(j)
  <2>1. CASE open = {}
    BY <1>1, <1>3, <1>4, <2>1
  <2>2. CASE open # {}
    <3>1. open \subseteq Nat
      BY <1>3
    <3>2. Min(open) \in open /\ \A y \in open : Min(open) <= y
      BY <2>2, <3>1, MinIsOne
    <3>3. Min(open) \in 1..Count
      BY <1>3, <3>2
    <3>4. ASSUME NEW j \in 1..Count, j < Min(open) PROVE Done(j)
      <4>1. ~(Min(open) <= j)
        BY <3>3, <3>4
      <4> QED BY <1>3, <3>2, <4>1
    <3> QED BY <1>1, <1>4, <2>2, <3>3, <3>4
  <2> QED BY <2>1, <2>2
<1>6. ASSUME Count > 0 PROVE entries[Count].first <= NeededFrom
  <2>1. Count \in 1..Count
    BY <1>1, <1>6
  <2>2. entries[Count].first \in 1..Count
    BY <2>1, EntryIs
  <2>3. PICK f, n : f = entries[Count].first /\ n = NeededFrom
    OBVIOUS
  <2>4. ASSUME n < f PROVE FALSE
    <3>1. n \in 1..Count /\ n \in 1..(Count - 1) /\ n < entries[Count].first
      BY <1>1, <1>5, <2>2, <2>3, <2>4
    <3>2. Done(n) /\ open # {}
      <4>1. Done(n)
        BY <2>1, <3>1 DEF InOrder
      <4>2. open # {}
        BY <1>1, <1>4, <2>3, <3>1
      <4> QED BY <4>1, <4>2
    <3>3. Min(open) \in open
      <4>1. open \subseteq Nat
        BY <1>3
      <4> QED BY <3>2, <4>1, MinIsOne
    <3> QED BY <1>3, <1>4, <2>3, <3>2, <3>3
  <2> QED BY <1>1, <1>5, <2>2, <2>3, <2>4
<1> QED BY <1>5, <1>6

(* What it is to log one.                                                   *)
Logging(head, data, table, first, blocks, new) ==
    /\ table = Changed(blocks, new)
    /\ data = IF new \in blocks THEN <<[kind |-> "data", seq |-> Count + 1, place |-> places + 1]>> ELSE <<>>
    /\ head = [kind |-> "loge", guid |-> session, seq |-> Count + 1, len |-> IF new \in blocks THEN 2 ELSE 1,
               tail |-> At(IF first > Count THEN Logged ELSE entries[first].from),
               flushed |-> stable, last |-> Max({places + (IF new \in blocks THEN 2 ELSE 1) - 1, stable}),
               zero |-> blocks \ {new}, desc |-> blocks \cap {new}, sum |-> data]
    /\ phase = "open" /\ table \notin Range(hist) /\ Used + head.len <= LogSectors
    /\ pending' = pending \cup
          {[to |-> "ring", at |-> At(Logged + i), what |-> (<<head>> \o data)[i + 1]] : i \in 0..(head.len - 1)}
    /\ entries' = Append(entries, [from |-> Logged, head |-> head, first |-> first,
                                   table |-> table, state |-> "issued"])
    /\ places' = places + head.len - 1
    /\ hist' = Append(hist, table)

LEMMA LogIs ==
    ASSUME NEW blocks, NEW new, Log(blocks, new)
    PROVE  /\ \E head, data, table : Logging(head, data, table, NeededFrom, blocks, new)
           /\ UNCHANGED <<ring, bat, size, headers, session, phase, extended, stable, safe>>
<1> DEFINE table == Changed(blocks, new)
           len == IF new \in blocks THEN 2 ELSE 1
           data == IF new \in blocks THEN <<[kind |-> "data", seq |-> Count + 1, place |-> places + 1]>> ELSE <<>>
           head == [kind |-> "loge", guid |-> session, seq |-> Count + 1, len |-> len,
                 tail |-> At(IF NeededFrom > Count THEN Logged ELSE entries[NeededFrom].from),
                 flushed |-> stable, last |-> Max({places + len - 1, stable}),
                 zero |-> blocks \ {new}, desc |-> blocks \cap {new}, sum |-> data]
<1>1. head.len = len
  OBVIOUS
<1>2. Logging(head, data, table, NeededFrom, blocks, new)
  BY <1>1 DEF Log, Logging, Count
<1> QED BY <1>2 DEF Log

LEMMA LoggedHead ==
    ASSUME LogInv, NEW head, NEW data, NEW table, NEW first, NEW blocks \in SUBSET Blocks, NEW new \in blocks \cup {0},
           Logging(head, data, table, first, blocks, new), first \in 1..(Count + 1)
    PROVE  /\ HeadKept(head, Count + 1) /\ Makes(head, hist[Len(hist)], table)
           /\ head \in Heads /\ table \in Tables
           /\ \A b \in Blocks : table[b] <= places'
           /\ head.tail = At(IF first > Count THEN Logged ELSE entries[first].from)
           /\ head.len \in 1..2 /\ head.sum = data /\ (head.len = 2 => Len(data) = 1)
           /\ places' \in Nat /\ places <= places'
<1>1. LogTypes /\ EntriesKept /\ HistKept
  BY DEF LogInv
<1>2. Count \in Nat /\ places \in Nat /\ stable \in Nat /\ session \in Nat /\ Len(hist) \in Nat /\ Count < Len(hist)
  BY <1>1 DEF LogTypes, Count, HistKept
<1>3. PICK len : len = IF new \in blocks THEN 2 ELSE 1
  OBVIOUS
<1>4. PICK last : last = Max({places + len - 1, stable})
  OBVIOUS
<1>5. last \in Nat /\ places + len - 1 <= last /\ stable <= last
  <2>1. PICK x : x = places + len - 1
    OBVIOUS
  <2>2. x \in Nat
    BY <1>2, <1>3, <2>1
  <2>3. PICK S : S = {x, stable}
    OBVIOUS
  <2>4. S \subseteq Nat /\ S # {} /\ \A y \in S : y <= x + stable
    BY <1>2, <2>2, <2>3
  <2>5. x + stable \in Nat
    BY <1>2, <2>2
  <2>6. Max(S) \in S /\ \A y \in S : y <= Max(S)
    BY <2>4, <2>5, GreatestOf
  <2> QED BY <1>4, <2>1, <2>3, <2>4, <2>6
<1>6. PICK tail : tail = At(IF first > Count THEN Logged ELSE entries[first].from)
  OBVIOUS
<1>7. tail \in Nat
  <2>1. Logged \in Nat
    BY <1>1, LoggedIs
  <2>2. ~(first > Count) => first \in 1..Count
    BY <1>2
  <2>3. ~(first > Count) => entries[first].from \in Nat
    BY <1>1, <2>2, EntryIs
  <2>4. (IF first > Count THEN Logged ELSE entries[first].from) \in Nat
    BY <2>1, <2>3
  <2> QED BY <1>6, <2>4, AtIsIn, RingSize DEF Ring
<1>8. head = [kind |-> "loge", guid |-> session, seq |-> Count + 1, len |-> len, tail |-> tail,
              flushed |-> stable, last |-> last, zero |-> blocks \ {new}, desc |-> blocks \cap {new}, sum |-> data]
  BY <1>3, <1>4, <1>6 DEF Logging
<1>9. /\ head.kind = "loge" /\ head.guid = session /\ head.seq = Count + 1 /\ head.len = len /\ head.tail = tail
      /\ head.flushed = stable /\ head.last = last /\ head.zero = blocks \ {new} /\ head.desc = blocks \cap {new}
      /\ head.sum = data
  BY <1>8
<1>10. data = IF new \in blocks THEN <<[kind |-> "data", seq |-> Count + 1, place |-> places + 1]>> ELSE <<>>
  BY DEF Logging
<1>11. new \in blocks => places + 1 \in 0..last
  BY <1>2, <1>3, <1>5
<1>12. HeadKept(head, Count + 1)
  <2>1. CASE new \in blocks
    <3>1. head.len = 2 /\ head.sum = <<[kind |-> "data", seq |-> Count + 1, place |-> places + 1]>>
      BY <1>3, <1>9, <1>10, <2>1
    <3>2. \E p \in 0..head.last : head.sum = <<[kind |-> "data", seq |-> Count + 1, place |-> p]>>
      BY <1>9, <1>11, <2>1, <3>1
    <3> QED BY <1>2, <1>5, <1>9, <3>1, <3>2 DEF HeadKept
  <2>2. CASE new \notin blocks
    <3>1. head.len = 1 /\ head.sum = <<>> /\ head.desc = {}
      BY <1>3, <1>9, <1>10, <2>2
    <3> QED BY <1>2, <1>5, <1>9, <3>1 DEF HeadKept
  <2> QED BY <2>1, <2>2
<1>13. head \in Heads
  <2>1. data \in Seq([kind : {"data"}, seq : Nat, place : Nat])
    <3>1. PICK x : x = [kind |-> "data", seq |-> Count + 1, place |-> places + 1]
      OBVIOUS
    <3>2. x \in [kind : {"data"}, seq : Nat, place : Nat]
      BY <1>2, <3>1
    <3>3. data = <<x>> \/ data = <<>>
      BY <1>10, <3>1
    <3>4. PICK R : R = [kind : {"data"}, seq : Nat, place : Nat]
      OBVIOUS
    <3>5. x \in R
      BY <3>2, <3>4
    <3>6. <<x>> \in Seq(R) /\ <<>> \in Seq(R)
      BY ONLY <3>5
    <3> QED BY <3>3, <3>4, <3>6
  <2>2. blocks \ {new} \in SUBSET Blocks /\ blocks \cap {new} \in SUBSET Blocks /\ len \in {1, 2} /\ Count + 1 \in Nat
    BY <1>2, <1>3
  <2> QED BY <1>2, <1>5, <1>7, <1>8, <2>1, <2>2 DEF Heads
<1>14. PICK old : old = hist[Len(hist)]
  OBVIOUS
<1>15. old \in Tables /\ \A b \in Blocks : old[b] \in Nat /\ old[b] <= places
  <2>1. Len(hist) \in 1..Len(hist)
    BY <1>2
  <2>2. old \in Tables
    BY <1>1, <1>14, <2>1 DEF LogTypes
  <2> QED BY <1>1, <1>14, <2>2 DEF Tables, HistKept
<1>16. table = [b \in Blocks |-> IF b \notin blocks THEN old[b] ELSE IF b = new THEN places + 1 ELSE 0]
  <2>1. Last(hist) = old
    BY <1>14 DEF Last
  <2> QED BY <2>1 DEF Logging, Changed
<1>17. places' = places + len - 1 /\ places' \in Nat /\ places <= places' /\ places' <= last
  <2>1. places' = places + len - 1
    BY <1>9 DEF Logging
  <2> QED BY <1>2, <1>3, <1>5, <2>1
<1>18. ASSUME NEW b \in Blocks
       PROVE  /\ table[b] = IF b \in head.zero THEN 0 ELSE IF b \in head.desc THEN head.sum[1].place ELSE old[b]
              /\ table[b] \in Nat /\ table[b] <= places'
  <2>1. CASE b \notin blocks
    <3>1. table[b] = old[b] /\ b \notin head.zero /\ b \notin head.desc
      BY <1>9, <1>16, <2>1
    <3>2. old[b] \in Nat /\ old[b] <= places
      BY <1>15
    <3>3. old[b] <= places'
      BY <1>2, <1>17, <3>2
    <3> QED BY <3>1, <3>2, <3>3
  <2>2. CASE b \in blocks /\ b = new
    <3>1. table[b] = places + 1 /\ b \notin head.zero /\ b \in head.desc
      BY <1>9, <1>16, <2>2
    <3>2. head.sum[1].place = places + 1
      BY <1>9, <1>10, <2>2
    <3>3. places + 1 \in Nat /\ places + 1 <= places'
      BY <1>2, <1>3, <1>17, <2>2
    <3> QED BY <3>1, <3>2, <3>3
  <2>3. CASE b \in blocks /\ b # new
    <3>1. table[b] = 0 /\ b \in head.zero
      BY <1>9, <1>16, <2>3
    <3> QED BY <1>17, <3>1
  <2> QED BY <2>1, <2>2, <2>3
<1>19. table \in Tables
  BY <1>16, <1>18 DEF Tables
<1>20. Makes(head, hist[Len(hist)], table)
  <2>1. ASSUME NEW b \in Blocks PROVE table[b] <= head.last
    <3>1. table[b] \in Nat /\ table[b] <= places'
      BY <1>18
    <3>2. table[b] <= last
      BY <1>5, <1>17, <3>1
    <3> QED BY <1>9, <3>2
  <2> QED BY <1>14, <1>18, <2>1 DEF Makes
<1>21. head.len \in 1..2 /\ (head.len = 2 => Len(data) = 1)
  BY <1>3, <1>9, <1>10
<1> QED BY <1>6, <1>9, <1>12, <1>13, <1>17, <1>18, <1>19, <1>20, <1>21

LEMMA JoinedSectors ==
    ASSUME NEW S, NEW h, NEW d \in Seq(S)
    PROVE  (<<h>> \o d)[1] = h /\ (Len(d) = 1 => (<<h>> \o d)[2] = d[1])
<1>1. PICK T : T = S \cup {h}
  OBVIOUS
<1>2. PICK s : s = <<h>>
  OBVIOUS
<1>3. s \in Seq(T) /\ Len(s) = 1 /\ s[1] = h
  BY <1>1, <1>2
<1>4. d \in Seq(T)
  BY <1>1
<1>5. Len(d) \in Nat
  OBVIOUS
<1>6. \A i \in 1..(Len(s) + Len(d)) : (s \o d)[i] = IF i <= Len(s) THEN s[i] ELSE d[i - Len(s)]
  <2>1. s \in Seq(T)
    BY <1>3
  <2> QED BY <1>4, <2>1, ConcatProperties
<1>7. (s \o d)[1] = s[1] /\ (Len(d) = 1 => (s \o d)[2] = d[1])
  BY <1>3, <1>5, <1>6
<1> QED BY <1>2, <1>3, <1>7

LEMMA LogKeeps == \A blocks \in SUBSET Blocks : \A new \in blocks \cup {0} : LogInv /\ Log(blocks, new) /\ UNCHANGED shown => LogInv'
<1> SUFFICES ASSUME NEW blocks \in SUBSET Blocks, NEW new \in blocks \cup {0}, LogInv, Log(blocks, new), UNCHANGED shown
             PROVE  LogInv'
  OBVIOUS
<1>1. LogTypes /\ EntriesKept /\ InOrder /\ Room /\ RingKept /\ LogLanded /\ BatKept /\ SizeKept /\ HistKept
      /\ PhaseKept /\ SafeKept /\ ShownKept
  BY DEF LogInv
<1>2. UNCHANGED <<ring, bat, size, headers, session, phase, extended, stable, safe, shown>>
  BY LogIs
<1>3. PICK head, data, table : Logging(head, data, table, NeededFrom, blocks, new)
  BY LogIs
<1>4. PICK first : first = NeededFrom
  OBVIOUS
<1>5. /\ first \in 1..(Count + 1) /\ \A j \in 1..Count : j < first => Done(j)
      /\ Count > 0 => entries[Count].first <= first
  BY <1>1, <1>4, NeededFromIs
<1>6. /\ HeadKept(head, Count + 1) /\ Makes(head, hist[Len(hist)], table)
      /\ head \in Heads /\ table \in Tables
      /\ \A b \in Blocks : table[b] <= places'
      /\ head.tail = At(IF first > Count THEN Logged ELSE entries[first].from)
      /\ head.len \in 1..2 /\ head.sum = data /\ (head.len = 2 => Len(data) = 1)
      /\ places' \in Nat /\ places <= places'
  BY <1>3, <1>4, <1>5, LoggedHead
<1>7. PICK n : n = Count + 1
  OBVIOUS
<1>8. /\ Count \in Nat /\ entries \in Seq(Entries) /\ Len(entries) = Count /\ Len(hist) \in Nat /\ hist \in Seq(Tables)
      /\ n \in Nat /\ n > 0 /\ Count < n /\ Count < Len(hist) /\ 1..n = 1..Count \cup {n} /\ 0..n = 0..Count \cup {n}
  BY <1>1, <1>7 DEF LogTypes, Count, HistKept
<1>9. Logged \in Nat /\ Logged = IF Count = 0 THEN 0 ELSE entries[Count].from + entries[Count].head.len
  BY <1>1, LoggedIs
<1>10. PICK e : e = [from |-> Logged, head |-> head, first |-> first, table |-> table, state |-> "issued"]
  OBVIOUS
<1>11. e \in Entries /\ e.from = Logged /\ e.head = head /\ e.first = first /\ e.table = table /\ e.state = "issued"
  <2>1. first \in Nat
    BY <1>5, <1>8
  <2> QED BY <1>6, <1>9, <1>10, <2>1 DEF Entries
<1>12. entries' = Append(entries, e) /\ hist' = Append(hist, table)
  BY <1>3, <1>4, <1>10 DEF Logging
<1>13. /\ entries' \in Seq(Entries) /\ Len(entries') = n /\ entries'[n] = e
       /\ \A j \in 1..Count : entries'[j] = entries[j]
  BY <1>7, <1>8, <1>11, <1>12
<1>14. /\ hist' \in Seq(Tables) /\ Len(hist') = Len(hist) + 1 /\ hist'[Len(hist) + 1] = table
       /\ \A j \in 1..Len(hist) : hist'[j] = hist[j]
  BY <1>6, <1>8, <1>12
<1>15. LogTypes'
  BY <1>1, <1>2, <1>6, <1>13, <1>14 DEF LogTypes
<1>16. Count' = n /\ Base' = Base /\ Base \in Nat \ {0} /\ Base + Count = Len(hist) /\ Base + n = Len(hist) + 1
  <2>1. Count' = n
    BY <1>13 DEF Count
  <2>2. Base = Len(hist) - Count /\ Base' = Len(hist') - n
    BY <1>13, <2>1 DEF Base, Count
  <2> QED BY <1>7, <1>8, <1>14, <2>1, <2>2
<1>17. \A j \in 1..Count : \A k : Where(j, k)' = Where(j, k) /\ Said(j, k)' = Said(j, k)
  BY <1>13 DEF Where, Said, At
<1>18. \A j \in 1..Count : (Issued(j)' <=> Issued(j)) /\ (Done(j)' <=> Done(j))
  BY <1>13 DEF Issued, Done
<1>19. Issued(n)' /\ ~Done(n)'
  BY <1>11, <1>13 DEF Issued, Done
<1>20. Kept' = Kept
  <2>1. {j \in 1..Len(entries') : entries'[j].state # "issued"} = {j \in 1..Len(entries) : entries[j].state # "issued"}
    <3>1. 1..Len(entries') = 1..Len(entries) \cup {n} /\ entries'[n].state = "issued"
      BY <1>8, <1>11, <1>13
    <3> QED BY <1>8, <1>13, <3>1
  <2>2. PICK S : S = {j \in 1..Len(entries) : entries[j].state # "issued"}
    OBVIOUS
  <2>3. Kept = IF S = {} THEN 1 ELSE entries[Max(S)].first
    BY <2>2 DEF Kept
  <2>4. Kept' = IF S = {} THEN 1 ELSE entries'[Max(S)].first
    BY <2>1, <2>2 DEF Kept
  <2>5. S # {} => Max(S) \in 1..Count
    <3>1. S \subseteq 1..Count /\ S \subseteq Nat /\ \A x \in S : x <= Count
      BY <1>8, <2>2
    <3>2. S # {} => Max(S) \in S
      BY <1>8, <3>1, GreatestOf
    <3> QED BY <3>1, <3>2
  <2> QED BY <1>13, <2>3, <2>4, <2>5
<1>21. Kept \in Nat \ {0} /\ (Count > 0 => Kept \in 1..Count) /\ (\A j \in Kept..Count : j \in 1..Count)
  <2>1. Kept \in Nat \ {0} /\ (Count > 0 => Kept <= Count)
    BY <1>1, KeptIs
  <2> QED BY <1>8, <2>1
<1>22. Logged' = Logged + head.len
  <2>1. entries' # <<>> /\ Last(entries') = e
    BY <1>8, <1>13 DEF Last
  <2> QED BY <1>11, <2>1 DEF Logged
<1>23. Logged + head.len <= LogSectors + (IF Count = 0 THEN 0 ELSE entries[Kept].from) /\ head.len <= LogSectors
  <2>1. Used + head.len <= LogSectors
    BY <1>3 DEF Logging
  <2>2. entries = <<>> <=> Count = 0
    BY <1>8
  <2>3. CASE Count = 0
    <3>1. Used = 0 /\ Logged = 0
      BY <1>9, <2>2, <2>3 DEF Used
    <3>2. LogSectors \in Nat
      BY RingSize
    <3> QED BY <1>6, <2>1, <2>3, <3>1, <3>2
  <2>4. CASE Count # 0
    <3>1. Used = Logged - entries[Kept].from
      BY <2>2, <2>4 DEF Used
    <3>2. PICK k, l, m, u : k = entries[Kept].from /\ l = Logged /\ m = head.len /\ u = Used
      OBVIOUS
    <3>3. k \in Nat /\ l \in Nat /\ m \in 1..2 /\ LogSectors \in Nat /\ LogSectors > 1
      <4>1. Kept \in 1..Count
        BY <1>8, <1>21, <2>4
      <4>2. k \in Nat
        BY <1>1, <3>2, <4>1, EntryIs
      <4> QED BY <1>6, <1>9, <3>2, <4>2, RingSize
    <3>4. u = l - k /\ u + m <= LogSectors
      BY <2>1, <3>1, <3>2
    <3>5. l + m <= LogSectors + k /\ m <= LogSectors
      BY ONLY <3>3, <3>4
    <3> QED BY <2>4, <3>2, <3>5
  <2> QED BY <2>3, <2>4
<1>24. EntriesKept'
  <2>1. ASSUME NEW j \in 1..Count PROVE EntryKept(entries[j], j)'
    <3>1. EntryKept(entries[j], j)
      BY <1>1 DEF EntriesKept
    <3>2. entries[j].first \in 1..Count /\ j \in Nat
      <4>1. entries[j].first \in 1..j
        BY <1>1, EntryIs
      <4> QED BY <1>8, <4>1
    <3>3. Base + j \in 1..Len(hist) /\ Base + j - 1 \in 1..Len(hist)
      BY <1>8, <1>16
    <3>4. entries'[j] = entries[j] /\ entries'[entries[j].first] = entries[entries[j].first]
          /\ hist'[Base + j] = hist[Base + j] /\ hist'[Base + j - 1] = hist[Base + j - 1]
      BY <1>13, <1>14, <3>2, <3>3
    <3>5. HeadKept(entries[j].head, j)'
      BY <1>2, <3>1, <3>4 DEF EntryKept, HeadKept
    <3>6. Makes(entries[j].head, hist[Base + j - 1], entries[j].table)' /\ (entries[j].table = hist[Base + j])'
      BY <1>16, <3>1, <3>4 DEF EntryKept, Makes
    <3>7. (entries[j].head.tail = At(entries[entries[j].first].from))'
      BY <3>1, <3>4 DEF EntryKept, At
    <3> QED BY <1>2, <3>1, <3>4, <3>5, <3>6, <3>7 DEF EntryKept
  <2>2. EntryKept(entries[n], n)'
    <3>1. HeadKept(head, n)'
      BY <1>2, <1>6, <1>7 DEF HeadKept
    <3>2. Makes(head, hist[Len(hist)], table)
      BY <1>6
    <3>3. Base + n - 1 = Len(hist) /\ Len(hist) \in 1..Len(hist)
      BY <1>8, <1>16
    <3>4. hist'[Base + n] = table /\ hist'[Base + n - 1] = hist[Len(hist)]
      BY <1>14, <1>16, <3>3
    <3>5. Makes(entries[n].head, hist[Base + n - 1], entries[n].table)'
      BY <1>11, <1>13, <1>16, <3>2, <3>4 DEF Makes
    <3>6. head.tail = At(entries'[first].from)
      <4>1. CASE first > Count
        <5>1. first = n
          BY <1>5, <1>7, <1>8, <4>1
        <5> QED BY <1>6, <1>11, <1>13, <4>1, <5>1
      <4>2. CASE ~(first > Count)
        <5>1. first \in 1..Count
          BY <1>5, <1>8, <4>2
        <5> QED BY <1>6, <1>13, <4>2, <5>1
      <4> QED BY <4>1, <4>2
    <3>7. first \in 1..n
      BY <1>5, <1>7
    <3>8. (entries[n].table = hist[Base + n])'
      BY <1>11, <1>13, <1>16, <3>4
    <3>9. HeadKept(entries[n].head, n)' /\ (entries[n].head.tail = At(entries[entries[n].first].from))'
      BY <1>11, <1>13, <3>1, <3>6 DEF At
    <3> QED BY <1>9, <1>11, <1>13, <3>5, <3>7, <3>8, <3>9 DEF EntryKept
  <2> QED BY <1>8, <1>16, <2>1, <2>2 DEF EntriesKept
<1>25. InOrder'
  <2> SUFFICES ASSUME NEW j \in 1..n
               PROVE  /\ j = 1 => entries'[j].from = 0
                      /\ j > 1 => /\ entries'[j].from = entries'[j - 1].from + entries'[j - 1].head.len
                                  /\ entries'[j - 1].first <= entries'[j].first
                      /\ \A m \in 1..(j - 1) :
                            /\ Issued(m)' => Issued(j)'
                            /\ entries'[j].state \in {"applied", "done"} => Done(m)'
                            /\ m < entries'[j].first => Done(m)'
    BY <1>16 DEF InOrder
  <2>1. CASE j \in 1..Count
    <3>1. entries'[j] = entries[j] /\ (j > 1 => entries'[j - 1] = entries[j - 1])
      <4>1. j > 1 => j - 1 \in 1..Count
        BY <1>8, <2>1
      <4> QED BY <1>13, <2>1, <4>1
    <3>2. \A m \in 1..(j - 1) : m \in 1..Count
      BY <1>8, <2>1
    <3> QED BY <1>1, <1>18, <2>1, <3>1, <3>2 DEF InOrder
  <2>2. CASE j = n
    <3>1. \A m \in 1..(j - 1) : m \in 1..Count
      BY <1>7, <1>8, <2>2
    <3>2. j = 1 => entries'[j].from = 0
      BY <1>7, <1>8, <1>9, <1>11, <1>13, <2>2
    <3>3. ASSUME j > 1
          PROVE  /\ entries'[j].from = entries'[j - 1].from + entries'[j - 1].head.len
                 /\ entries'[j - 1].first <= entries'[j].first
      <4>1. j - 1 = Count /\ Count \in 1..Count /\ Count > 0
        BY <1>7, <1>8, <2>2, <3>3
      <4>2. entries'[j - 1] = entries[Count]
        BY <1>13, <4>1
      <4> QED BY <1>5, <1>9, <1>11, <1>13, <2>2, <4>1, <4>2
    <3>4. ASSUME NEW m \in 1..(j - 1)
          PROVE  Issued(j)' /\ entries'[j].state \notin {"applied", "done"} /\ (m < entries'[j].first => Done(m)')
      BY <1>5, <1>11, <1>13, <1>18, <1>19, <2>2, <3>1
    <3> QED BY <3>2, <3>3, <3>4
  <2> QED BY <1>8, <2>1, <2>2
<1>26. Room'
  <2> SUFFICES ASSUME NEW j \in Kept..n PROVE Logged + head.len <= entries'[j].from + LogSectors
    BY <1>16, <1>20, <1>22 DEF Room
  <2>1. CASE j = n
    <3>1. entries'[j].from = Logged /\ LogSectors \in Nat
      BY <1>11, <1>13, <2>1, RingSize
    <3>2. PICK l, m : l = Logged /\ m = head.len
      OBVIOUS
    <3>3. l \in Nat /\ m \in 1..2 /\ m <= LogSectors
      BY <1>6, <1>9, <1>23, <3>2
    <3> QED BY <3>1, <3>2, <3>3
  <2>2. CASE j # n
    <3>1. j \in 1..Count /\ Kept \in 1..Count /\ Kept <= j /\ Count # 0
      BY <1>7, <1>8, <1>21, <2>2
    <3>2. entries[Kept].from <= entries[j].from /\ entries[Kept].from \in Nat /\ entries[j].from \in Nat
      BY <1>1, <3>1, FromGrows, EntryIs
    <3>3. PICK l, m, x, y : l = Logged /\ m = head.len /\ x = entries[Kept].from /\ y = entries[j].from
      OBVIOUS
    <3>4. l \in Nat /\ m \in 1..2 /\ x \in Nat /\ y \in Nat /\ x <= y /\ l + m <= LogSectors + x /\ LogSectors \in Nat
      BY <1>6, <1>9, <1>23, <3>1, <3>2, <3>3, RingSize
    <3>5. l + m <= y + LogSectors
      BY ONLY <3>4
    <3>6. entries'[j].from = y
      BY <1>13, <3>1, <3>3
    <3> QED BY <3>3, <3>5, <3>6
  <2> QED BY <2>1, <2>2
<1>27. RingKept'
  <2>1. \A j \in 1..Count : j \in 1..n /\ entries'[j].head = entries[j].head /\ Where(j, 0)' = Where(j, 0)
    BY <1>8, <1>13, <1>17
  <2> QED BY <1>1, <1>2, <1>16, <2>1 DEF RingKept
<1>28. \A k \in 0..(head.len - 1) : Writing("ring", Where(n, k)', Said(n, k)') \in pending' /\ (Where(n, k) \in Ring)'
  <2> SUFFICES ASSUME NEW k \in 0..(head.len - 1)
               PROVE  Writing("ring", Where(n, k)', Said(n, k)') \in pending' /\ (Where(n, k) \in Ring)'
    OBVIOUS
  <2>1. Where(n, k)' = At(Logged + k)
    BY <1>11, <1>13 DEF Where, At
  <2>2. Said(n, k)' = (<<head>> \o data)[k + 1]
    <3>1. Said(n, k)' = IF k = 0 THEN head ELSE head.sum[k]
      BY <1>11, <1>13 DEF Said
    <3>2. CASE k = 0
      <4>1. (<<head>> \o data)[1] = head
        <5>1. data \in Seq([kind : {"data"}, seq : Nat, place : Nat])
          BY <1>6 DEF Heads
        <5> QED BY <5>1, JoinedSectors
      <4> QED BY <3>1, <3>2, <4>1
    <3>3. CASE k # 0
      <4>1. k = 1 /\ head.len = 2 /\ Len(data) = 1
        BY <1>6, <3>3
      <4>2. data \in Seq([kind : {"data"}, seq : Nat, place : Nat])
        BY <1>6 DEF Heads
      <4>3. (<<head>> \o data)[2] = data[1]
        BY <4>1, <4>2, JoinedSectors
      <4>4. head.sum[k] = data[1] /\ k + 1 = 2
        BY <1>6, <4>1
      <4> QED BY <3>1, <3>3, <4>3, <4>4
    <3> QED BY <3>2, <3>3
  <2>3. [to |-> "ring", at |-> At(Logged + k), what |-> (<<head>> \o data)[k + 1]] \in pending'
    BY <1>3 DEF Logging
  <2>4. At(Logged + k) \in Ring
    <3>1. Logged + k \in Nat
      BY <1>6, <1>9
    <3> QED BY <3>1, AtIsIn
  <2> QED BY <2>1, <2>2, <2>3, <2>4 DEF Writing, Ring
<1>29. pending \subseteq pending'
  BY <1>3 DEF Logging
<1>30. LogLanded'
  <2> SUFFICES ASSUME NEW j \in Kept..n, NEW k \in 0..(entries'[j].head.len - 1)
               PROVE  (ring[Where(j, k)] = Said(j, k) \/ Landing(j, k))'
    BY <1>16, <1>20 DEF LogLanded
  <2>1. CASE j = n
    <3>1. k \in 0..(head.len - 1)
      BY <1>11, <1>13, <2>1
    <3> QED BY <1>19, <1>28, <2>1, <3>1 DEF Landing, Writing
  <2>2. CASE j # n
    <3>1. j \in Kept..Count /\ j \in 1..Count
      BY <1>7, <1>8, <1>21, <2>2
    <3>2. k \in 0..(entries[j].head.len - 1)
      BY <1>13, <3>1
    <3>3. ring[Where(j, k)] = Said(j, k) \/ Landing(j, k)
      BY <1>1, <3>1, <3>2 DEF LogLanded
    <3>4. Landing(j, k) => Landing(j, k)'
      BY <1>17, <1>18, <1>29, <3>1 DEF Landing, Writing
    <3> QED BY <1>2, <1>17, <3>1, <3>3, <3>4
  <2> QED BY <2>1, <2>2
<1>31. BatKept'
  <2> SUFFICES ASSUME NEW j \in 0..n, LastDone(j)', NEW b \in Blocks
               PROVE  (\/ bat[b] = hist[Base + j][b]
                         /\ (j < Count /\ entries[j + 1].state = "applied" =>
                                \/ hist[Base + j + 1][b] = bat[b]
                                \/ Writing("bat", b, hist[Base + j + 1][b]) \in pending)
                       \/ j < Count /\ entries[j + 1].state = "applied" /\ bat[b] = hist[Base + j + 1][b])'
    BY <1>16 DEF BatKept
  <2>1. (j = 0 \/ Done(j)') /\ (j = n \/ ~Done(j + 1)')
    BY <1>16 DEF LastDone
  <2>2. j \in 0..Count
    <3>1. j # n
      BY <1>8, <1>19, <2>1 DEF Done
    <3> QED BY <1>8, <3>1
  <2>3. j # 0 => j \in 1..Count
    BY <1>8, <2>2
  <2>4. j # Count => j + 1 \in 1..Count /\ j < Count /\ j < n
    BY <1>8, <2>2
  <2>5. j = 0 \/ Done(j)
    BY <1>18, <2>1, <2>3
  <2>6. j = Count \/ ~Done(j + 1)
    <3>1. j # n
      BY <1>8, <2>2
    <3> QED BY <1>18, <2>1, <2>4, <3>1
  <2>7. LastDone(j)
    BY <2>5, <2>6 DEF LastDone
  <2>8. \/ bat[b] = hist[Base + j][b]
           /\ (j < Count /\ entries[j + 1].state = "applied" =>
                  \/ hist[Base + j + 1][b] = bat[b]
                  \/ Writing("bat", b, hist[Base + j + 1][b]) \in pending)
        \/ j < Count /\ entries[j + 1].state = "applied" /\ bat[b] = hist[Base + j + 1][b]
    BY <1>1, <2>2, <2>7 DEF BatKept
  <2>9. hist'[Base + j] = hist[Base + j]
    <3>1. Base + j \in 1..Len(hist)
      BY <1>1, <2>2, TablesAre
    <3> QED BY <1>14, <3>1
  <2>10. CASE j = Count
    <3>1. ~(j < Count) /\ entries'[j + 1].state = "issued"
      BY <1>7, <1>8, <1>11, <1>13, <2>10
    <3> QED BY <1>2, <1>16, <2>8, <2>9, <3>1
  <2>11. CASE j # Count
    <3>1. entries'[j + 1] = entries[j + 1] /\ j < Count /\ j < n
      BY <1>13, <2>4, <2>11
    <3>2. hist'[Base + j + 1] = hist[Base + j + 1]
      <4>1. Base + j + 1 \in 1..Len(hist)
        BY <1>8, <1>16, <2>4, <2>11
      <4> QED BY <1>14, <4>1
    <3>3. \A v : Writing("bat", b, v) \in pending => Writing("bat", b, v) \in pending'
      BY <1>29
    <3> QED BY <1>2, <1>16, <2>8, <2>9, <3>1, <3>2, <3>3 DEF Writing
  <2> QED BY <2>10, <2>11
<1>32. SizeKept'
  BY <1>1, <1>2, <1>29 DEF SizeKept, Writing
<1>33. HistKept'
  <2>1. \A i, j \in 1..(Len(hist) + 1) : hist'[i] = hist'[j] => i = j
    <3>1. \A i \in 1..Len(hist) : hist[i] # table
      <4>1. table \notin Range(hist)
        BY <1>3 DEF Logging
      <4> QED BY <1>8, <4>1 DEF Range
    <3>2. \A i \in 1..(Len(hist) + 1) : i = Len(hist) + 1 \/ i \in 1..Len(hist)
      BY <1>8
    <3> QED BY <1>1, <1>14, <3>1, <3>2 DEF HistKept
  <2>2. \A b \in Blocks : hist'[Base][b] <= stable'
    <3>1. Base \in 1..Len(hist)
      BY <1>8, <1>16
    <3> QED BY <1>1, <1>2, <1>14, <3>1 DEF HistKept
  <2>3. \A b \in Blocks : hist'[Len(hist) + 1][b] <= places'
    BY <1>6, <1>14
  <2>4. n < Len(hist) + 1
    BY <1>7, <1>8
  <2> QED BY <1>14, <1>16, <2>1, <2>2, <2>3, <2>4 DEF HistKept
<1>34. SafeKept'
  <2>1. safe \in 1..Len(hist) /\ \A i \in 1..Count : Issued(i) => safe < Base + i
    BY <1>1 DEF SafeKept
  <2>2. safe \in 1..(Len(hist) + 1) /\ safe < Base + n
    BY <1>8, <1>16, <2>1
  <2>3. \A i \in 1..n : Issued(i)' => safe < Base + i
    BY <1>8, <1>18, <2>1, <2>2
  <2> QED BY <1>2, <1>14, <1>16, <2>2, <2>3 DEF SafeKept
<1>35. ShownKept'
  <2>1. PICK l \in 0..Count : shown <= Base + l /\ Reaches(l)
    BY <1>1 DEF ShownKept
  <2>2. ASSUME NEW j \in 1..l, Issued(j)' PROVE OnMedium(j)'
    <3>1. j \in 1..Count
      BY <1>8, <2>1
    <3>2. OnMedium(j)
      BY <1>18, <2>1, <2>2, <3>1 DEF Reaches
    <3>3. entries'[j].head = entries[j].head
      BY <1>13, <3>1
    <3> QED BY <1>2, <1>17, <3>1, <3>2, <3>3 DEF OnMedium
  <2>3. Reaches(l)' /\ l \in 0..n
    BY <1>8, <2>1, <2>2 DEF Reaches
  <2> QED BY <1>1, <1>2, <1>16, <2>1, <2>3 DEF ShownKept
<1>36. PhaseKept'
  <2>1. phase = "open"
    BY <1>3 DEF Logging
  <2>2. /\ session > 0 /\ \E h \in 1..2 : Newest(h, session)
        /\ \A w \in pending : RingWrite(w) \/ BatWrite(w) \/ SizeWrite(w)
    BY <1>1, <2>1 DEF PhaseKept
  <2>3. \A w : RingWrite(w) => RingWrite(w)'
    <3> SUFFICES ASSUME NEW w, RingWrite(w) PROVE RingWrite(w)'
      OBVIOUS
    <3>1. PICK j \in 1..Count : Issued(j) /\ \E k \in 0..(entries[j].head.len - 1) : w = Writing("ring", Where(j, k), Said(j, k))
      BY DEF RingWrite
    <3>2. Issued(j)' /\ entries'[j].head = entries[j].head /\ j \in 1..n
      BY <1>8, <1>13, <1>18, <3>1
    <3>3. \E k \in 0..(entries'[j].head.len - 1) : w = Writing("ring", Where(j, k), Said(j, k))'
      BY <1>17, <3>1, <3>2 DEF Writing
    <3> QED BY <1>16, <3>2, <3>3 DEF RingWrite
  <2>4. \A w : BatWrite(w) => BatWrite(w)'
    <3> SUFFICES ASSUME NEW w, BatWrite(w) PROVE BatWrite(w)'
      OBVIOUS
    <3>1. PICK j \in 1..Count : entries[j].state = "applied" /\ \E b \in Blocks : w = Writing("bat", b, hist[Base + j][b])
      BY DEF BatWrite
    <3>2. j \in 0..Count
      BY <3>1
    <3>3. hist'[Base + j] = hist[Base + j] /\ entries'[j] = entries[j] /\ j \in 1..n
      <4>1. Base + j \in 1..Len(hist)
        BY <1>1, <3>2, TablesAre
      <4> QED BY <1>8, <1>13, <1>14, <3>1, <4>1
    <3> QED BY <1>16, <3>1, <3>3 DEF BatWrite, Writing
  <2>5. \A w : SizeWrite(w) => SizeWrite(w)'
    BY DEF SizeWrite, Writing
  <2>6. ASSUME NEW w \in pending', w \notin pending PROVE RingWrite(w)'
    <3>1. PICK k \in 0..(head.len - 1) : w = [to |-> "ring", at |-> At(Logged + k), what |-> (<<head>> \o data)[k + 1]]
      BY <1>3, <2>6 DEF Logging
    <3>2. Where(n, k)' = At(Logged + k)
      BY <1>11, <1>13 DEF Where, At
    <3>3. Said(n, k)' = (<<head>> \o data)[k + 1]
      <4>1. Said(n, k)' = IF k = 0 THEN head ELSE head.sum[k]
        BY <1>11, <1>13 DEF Said
      <4>2. data \in Seq([kind : {"data"}, seq : Nat, place : Nat])
        BY <1>6 DEF Heads
      <4>3. CASE k = 0
        <5>1. (<<head>> \o data)[1] = head /\ k + 1 = 1
          BY <4>2, <4>3, JoinedSectors
        <5> QED BY <4>1, <4>3, <5>1
      <4>4. CASE k # 0
        <5>1. k = 1 /\ head.len = 2 /\ Len(data) = 1
          BY <1>6, <4>4
        <5>2. (<<head>> \o data)[2] = data[1] /\ k + 1 = 2
          BY <4>2, <5>1, JoinedSectors
        <5>3. head.sum[k] = data[1]
          BY <1>6, <5>1
        <5> QED BY <4>1, <4>4, <5>2, <5>3
      <4> QED BY <4>3, <4>4
    <3>4. w = Writing("ring", Where(n, k), Said(n, k))'
      BY <3>1, <3>2, <3>3 DEF Writing
    <3>5. n \in 1..n /\ entries'[n].head = head
      BY <1>8, <1>11, <1>13
    <3> QED BY <1>16, <1>19, <3>4, <3>5 DEF RingWrite
  <2>7. \A w \in pending' : (RingWrite(w) \/ BatWrite(w) \/ SizeWrite(w))'
    BY <2>2, <2>3, <2>4, <2>5, <2>6
  <2>8. \E h \in 1..2 : Newest(h, session)'
    BY <1>2, <2>2 DEF Newest
  <2> QED BY <1>2, <2>1, <2>2, <2>7, <2>8 DEF PhaseKept
<1> QED BY <1>15, <1>24, <1>25, <1>26, <1>27, <1>30, <1>31, <1>32, <1>33, <1>34, <1>35, <1>36 DEF LogInv

-----------------------------------------------------------------------------
(* What the reader finds in it.  A sector is taken for the beginning of an  *)
(* entry only where one is that is all there.                               *)
LogReady == LogTypes /\ EntriesKept /\ InOrder /\ Room /\ RingKept /\ LogLanded

LEMMA HeadIs ==
    ASSUME LogReady, NEW i \in 1..Count
    PROVE  /\ entries[i].head.kind = "loge" /\ entries[i].head.guid = session /\ entries[i].head.seq = i
           /\ entries[i].head.len \in 1..2 /\ entries[i].head.len \in 1..LogSectors /\ i \in Nat /\ i # 0
           /\ entries[i].first \in 1..i /\ entries[i].first \in 1..Count
           /\ entries[i].head.tail = Where(entries[i].first, 0)
           /\ entries[i].head.tail \in Ring /\ entries[i].head.tail < LogSectors
           /\ Where(i, 0) \in Ring
<1>1. LogTypes /\ EntriesKept
  BY DEF LogReady
<1>2. EntryKept(entries[i], i) /\ entries[i].head.len \in 1..2 /\ entries[i].first \in 1..i /\ i \in Nat /\ Count \in Nat
  BY <1>1, EntryIs
<1>3. LogSectors \in Nat /\ LogSectors > 1
  BY RingSize
<1>4. entries[i].head.len \in 1..LogSectors /\ entries[i].first \in 1..Count /\ i # 0
  BY <1>2, <1>3
<1>5. HeadKept(entries[i].head, i) /\ entries[i].head.tail = At(entries[entries[i].first].from)
  BY <1>2 DEF EntryKept
<1>6. PICK head : head = entries[i].head
  OBVIOUS
<1>7. head.kind = "loge" /\ head.guid = session /\ head.seq = i
  BY <1>5, <1>6 DEF HeadKept
<1>8. PICK x : x = entries[entries[i].first].from
  OBVIOUS
<1>9. x \in Nat /\ x + 0 = x
  BY <1>1, <1>4, <1>8, EntryIs
<1>10. head.tail = At(x) /\ At(x) \in Ring /\ Where(entries[i].first, 0) = At(x)
  BY <1>5, <1>6, <1>8, <1>9, AtIsIn DEF Where
<1>11. At(x) < LogSectors
  BY <1>3, <1>10 DEF Ring
<1>12. Where(i, 0) \in Ring
  <2>1. 0 \in 0..(entries[i].head.len - 1)
    BY <1>2
  <2> QED BY <1>1, <2>1, WhereIsIn
<1> QED BY <1>2, <1>4, <1>6, <1>7, <1>10, <1>11, <1>12

LEMMA WhereNext ==
    ASSUME LogReady, NEW i \in 1..Count, NEW k \in 0..entries[i].head.len
    PROVE  At(Where(i, 0) + k) = Where(i, k)
<1>1. entries[i].from \in Nat /\ entries[i].head.len \in 1..2
  BY EntryIs DEF LogReady
<1>2. LogSectors \in Nat /\ LogSectors > 1
  BY RingSize
<1>3. k \in 0..LogSectors
  BY <1>1, <1>2
<1>4. At(At(entries[i].from) + k) = At(entries[i].from + k)
  BY <1>1, <1>3, AtAgain
<1>5. entries[i].from + 0 = entries[i].from
  BY <1>1
<1> QED BY <1>4, <1>5 DEF Where

LEMMA ThereIs ==
    ASSUME LogReady, NEW i \in 1..Count, OnMedium(i)
    PROVE  /\ ring[Where(i, 0)] = entries[i].head /\ ring[Where(i, 0)].seq = i
           /\ ValidEntry(session, Where(i, 0)) /\ After(Where(i, 0)) = Where(i, entries[i].head.len)
           /\ After(Where(i, 0)) \in Ring
<1>1. /\ entries[i].head.kind = "loge" /\ entries[i].head.guid = session /\ entries[i].head.seq = i
      /\ entries[i].head.len \in 1..2 /\ entries[i].head.len \in 1..LogSectors /\ i # 0
      /\ entries[i].head.tail < LogSectors
  BY HeadIs
<1>2. PICK x, head : x = Where(i, 0) /\ head = entries[i].head
  OBVIOUS
<1>3. ring[x] = head
  <2>1. 0 \in 0..(head.len - 1)
    BY <1>1, <1>2
  <2>2. ring[Where(i, 0)] = Said(i, 0)
    BY <1>2, <2>1 DEF OnMedium
  <2> QED BY <1>2, <2>2 DEF Said
<1>4. ASSUME NEW k \in 1..(head.len - 1)
      PROVE  ring[At(x + k)] = head.sum[k] /\ head.sum[k].kind = "data" /\ head.sum[k].seq = head.seq
  <2>1. k \in 0..(head.len - 1) /\ k \in 0..head.len /\ k # 0
    BY <1>1, <1>2
  <2>2. At(x + k) = Where(i, k)
    BY <1>2, <2>1, WhereNext
  <2>3. ring[Where(i, k)] = Said(i, k)
    BY <1>2, <2>1 DEF OnMedium
  <2>4. Said(i, k) = head.sum[k] /\ Said(i, k).kind = "data" /\ Said(i, k).seq = i
    BY <1>2, <2>1, SectorSaidIs DEF Said, LogReady
  <2> QED BY <1>1, <1>2, <2>2, <2>3, <2>4
<1>5. ValidEntry(session, x)
  BY <1>1, <1>2, <1>3, <1>4 DEF ValidEntry
<1>6. After(x) = Where(i, head.len)
  <2>1. head.len \in 0..head.len
    BY <1>1, <1>2
  <2> QED BY <1>2, <1>3, <2>1, WhereNext DEF After
<1>7. Where(i, head.len) \in Ring
  <2>1. entries[i].from + head.len \in Nat
    BY <1>1, <1>2, EntryIs DEF LogReady
  <2> QED BY <2>1, AtIsIn DEF Where
<1> QED BY <1>1, <1>2, <1>3, <1>5, <1>6, <1>7

LEMMA ValidIs ==
    ASSUME LogReady, NEW x \in Ring, ValidEntry(session, x)
    PROVE  ring[x].seq \in 1..Count /\ x = Where(ring[x].seq, 0) /\ OnMedium(ring[x].seq)
<1>1. PICK i \in 1..Count : x = Where(i, 0) /\ ring[x] = entries[i].head
  BY DEF ValidEntry, LogReady, RingKept
<1>2. entries[i].head.seq = i /\ entries[i].head.len \in 1..2
  BY HeadIs
<1>3. ASSUME NEW k \in 0..(entries[i].head.len - 1) PROVE ring[Where(i, k)] = Said(i, k)
  <2>1. CASE k = 0
    BY <1>1, <2>1 DEF Said
  <2>2. CASE k # 0
    <3>1. k \in 1..(entries[i].head.len - 1) /\ k \in 0..entries[i].head.len
      BY <1>2, <2>2
    <3>2. ring[At(x + k)] = entries[i].head.sum[k]
      BY <1>1, <3>1 DEF ValidEntry
    <3>3. At(x + k) = Where(i, k)
      BY <1>1, <3>1, WhereNext
    <3> QED BY <2>2, <3>2, <3>3 DEF Said
  <2> QED BY <2>1, <2>2
<1> QED BY <1>1, <1>2, <1>3 DEF OnMedium

(* The entry after one that is there.                                       *)
LEMMA FollowIs ==
    ASSUME LogReady, NEW i \in 1..Count, OnMedium(i)
    PROVE  /\ (ValidEntry(session, After(Where(i, 0))) /\ ring[After(Where(i, 0))].seq = ring[Where(i, 0)].seq + 1)
                <=> (i < Count /\ OnMedium(i + 1))
           /\ i < Count => After(Where(i, 0)) = Where(i + 1, 0)
<1>1. /\ ring[Where(i, 0)].seq = i /\ After(Where(i, 0)) \in Ring
      /\ After(Where(i, 0)) = Where(i, entries[i].head.len)
  BY ThereIs
<1>2. Count \in Nat /\ i \in Nat
  BY EntryIs DEF LogReady
<1>3. ASSUME i < Count PROVE i + 1 \in 1..Count /\ After(Where(i, 0)) = Where(i + 1, 0)
  <2>1. i + 1 \in 1..Count /\ entries[i + 1].from = entries[i].from + entries[i].head.len
    BY <1>3, NextFrom DEF LogReady
  <2>2. entries[i + 1].from + 0 = entries[i + 1].from
    BY <2>1, EntryIs DEF LogReady
  <2> QED BY <1>1, <2>1, <2>2 DEF Where
<1>4. ASSUME ValidEntry(session, After(Where(i, 0))), ring[After(Where(i, 0))].seq = ring[Where(i, 0)].seq + 1
      PROVE  i < Count /\ OnMedium(i + 1)
  <2>1. i + 1 \in 1..Count /\ OnMedium(i + 1)
    BY <1>1, <1>4, ValidIs
  <2> QED BY <1>2, <2>1
<1>5. ASSUME i < Count, OnMedium(i + 1)
      PROVE  ValidEntry(session, After(Where(i, 0))) /\ ring[After(Where(i, 0))].seq = ring[Where(i, 0)].seq + 1
  <2>1. i + 1 \in 1..Count /\ After(Where(i, 0)) = Where(i + 1, 0)
    BY <1>3, <1>5
  <2>2. ring[Where(i + 1, 0)].seq = i + 1 /\ ValidEntry(session, Where(i + 1, 0))
    BY <1>5, <2>1, ThereIs
  <2> QED BY <1>1, <2>1, <2>2
<1> QED BY <1>3, <1>4, <1>5

(* From the i-th entry on, e is the last of those that are there without a  *)
(* gap.                                                                     *)
Ends(i, e) ==
    /\ i \in 1..Count /\ e \in i..Count
    /\ \A j \in i..e : OnMedium(j)
    /\ e < Count => ~OnMedium(e + 1)

Firsts(i, e) == [m \in 1..(e - i + 1) |-> Where(i + m - 1, 0)]

LEMMA EndsOnce ==
    ASSUME NEW i, NEW e, NEW f, Ends(i, e), Ends(i, f), Count \in Nat
    PROVE  e = f
<1>1. i \in 1..Count /\ e \in i..Count /\ f \in i..Count
  BY DEF Ends
<1>2. ASSUME NEW x \in i..Count, NEW y \in i..Count, Ends(i, x), Ends(i, y) PROVE ~(x < y)
  <2>1. SUFFICES ASSUME x < y PROVE FALSE
    OBVIOUS
  <2>2. x + 1 \in i..y /\ x < Count
    BY <1>1, <2>1
  <2> QED BY <1>2, <2>2 DEF Ends
<1> QED BY <1>1, <1>2

LEMMA EndsOne ==
    ASSUME Count \in Nat, NEW i \in 1..Count, OnMedium(i)
    PROVE  \E e : Ends(i, e)
<1> DEFINE S == {e \in i..Count : \A j \in i..e : OnMedium(j)}
<1>1. S \subseteq Nat /\ \A x \in S : x <= Count
  OBVIOUS
<1>2. i \in S
  <2>1. i \in i..Count /\ \A j \in i..i : j = i
    OBVIOUS
  <2> QED BY <2>1
<1>3. PICK e : e = Max(S)
  OBVIOUS
<1>4. e \in S /\ \A x \in S : x <= e
  <2> HIDE DEF S
  <2> QED BY <1>1, <1>2, <1>3, GreatestOf
<1>5. ASSUME e < Count, OnMedium(e + 1) PROVE FALSE
  <2>1. e + 1 \in i..Count /\ \A j \in i..(e + 1) : j \in i..e \/ j = e + 1
    BY <1>4, <1>5
  <2>2. e + 1 \in S
    BY <1>4, <1>5, <2>1
  <2>3. ~(e + 1 <= e)
    BY <1>1, <1>4
  <2> QED BY <1>4, <2>2, <2>3
<1>6. Ends(i, e)
  BY <1>4, <1>5 DEF Ends
<1> QED BY <1>6

LEMMA EndsNext ==
    ASSUME Count \in Nat, NEW i, NEW e, Ends(i, e)
    PROVE  /\ i < e => Ends(i + 1, e) /\ OnMedium(i + 1) /\ i < Count
           /\ i = e => ~(i < Count /\ OnMedium(i + 1))
           /\ OnMedium(i) /\ i \in Nat /\ e \in Nat /\ i <= e /\ e <= Count
<1>1. i \in 1..Count /\ e \in i..Count /\ (\A j \in i..e : OnMedium(j)) /\ (e < Count => ~OnMedium(e + 1))
  BY DEF Ends
<1>2. i \in i..e /\ i \in Nat /\ e \in Nat /\ i <= e /\ e <= Count
  BY <1>1
<1>3. ASSUME i < e PROVE Ends(i + 1, e) /\ OnMedium(i + 1) /\ i < Count
  <2>1. i + 1 \in 1..Count /\ e \in (i + 1)..Count /\ i + 1 \in i..e /\ i < Count /\ \A j \in (i + 1)..e : j \in i..e
    BY <1>1, <1>3
  <2> QED BY <1>1, <2>1 DEF Ends
<1> QED BY <1>1, <1>2, <1>3

(* A chain is one firstly of its first entry and then of the rest.          *)
LEMMA FirstsOne ==
    ASSUME NEW i \in Nat, NEW e \in Nat, i < e
    PROVE  <<Where(i, 0)>> \o Firsts(i + 1, e) = Firsts(i, e)
<1> DEFINE T == {Where(j, 0) : j \in i..e}
<1>1. PICK s, t, u, n : s = <<Where(i, 0)>> /\ t = Firsts(i + 1, e) /\ u = Firsts(i, e) /\ n = e - i
  OBVIOUS
<1>2. n \in Nat /\ e - (i + 1) + 1 = n /\ e - i + 1 = n + 1
  BY <1>1
<1>3. t = [m \in 1..n |-> Where(i + 1 + m - 1, 0)] /\ u = [m \in 1..(n + 1) |-> Where(i + m - 1, 0)]
  BY <1>1, <1>2 DEF Firsts
<1>4. \A m \in 1..n : i + 1 + m - 1 = i + m /\ i + m \in i..e
  BY <1>1, <1>2
<1>5. \A m \in 1..n : t[m] = Where(i + m, 0) /\ t[m] \in T
  BY <1>3, <1>4
<1>6. t \in Seq(T) /\ Len(t) = n
  <2>1. t = [m \in 1..n |-> t[m]]
    BY <1>3
  <2>2. n \in Nat
    BY <1>2
  <2>3. \A m \in 1..n : t[m] \in T
    BY <1>5
  <2> HIDE DEF T
  <2> QED BY ONLY <2>1, <2>2, <2>3
<1>7. s \in Seq(T) /\ Len(s) = 1 /\ s[1] = Where(i, 0)
  <2>1. Where(i, 0) \in T
    OBVIOUS
  <2> HIDE DEF T
  <2> QED BY <1>1, <2>1
<1>8. s \o t \in Seq(T) /\ Len(s \o t) = 1 + n /\ \A m \in 1..(1 + n) : (s \o t)[m] = IF m <= 1 THEN s[m] ELSE t[m - 1]
  <2> HIDE DEF T
  <2>1. s \in Seq(T) /\ t \in Seq(T)
    BY <1>6, <1>7
  <2>2. /\ s \o t \in Seq(T)
        /\ Len(s \o t) = Len(s) + Len(t)
        /\ \A m \in 1..(Len(s) + Len(t)) : (s \o t)[m] = IF m <= Len(s) THEN s[m] ELSE t[m - Len(s)]
    BY <2>1, ConcatProperties
  <2> QED BY <1>6, <1>7, <2>2
<1>9. \A m \in 1..(n + 1) : (s \o t)[m] = u[m]
  <2> SUFFICES ASSUME NEW m \in 1..(n + 1) PROVE (s \o t)[m] = u[m]
    OBVIOUS
  <2>1. u[m] = Where(i + m - 1, 0) /\ m \in 1..(1 + n)
    BY <1>2, <1>3
  <2>2. CASE m = 1
    <3>1. i + 1 - 1 = i /\ m <= 1
      BY <2>2
    <3> QED BY <1>7, <1>8, <2>1, <2>2, <3>1
  <2>3. CASE m # 1
    <3>1. m - 1 \in 1..n /\ i + (m - 1) = i + m - 1 /\ ~(m <= 1)
      BY <1>2, <2>3
    <3>2. t[m - 1] = Where(i + (m - 1), 0)
      BY <1>5, <3>1
    <3> QED BY <1>8, <2>1, <3>1, <3>2
  <2> QED BY <2>2, <2>3
<1>10. s \o t = u
  <2>1. DOMAIN (s \o t) = 1..(n + 1) /\ DOMAIN u = 1..(n + 1)
    <3>1. DOMAIN (s \o t) = 1..(1 + n)
      BY <1>8
    <3> QED BY <1>2, <1>3, <3>1
  <2>2. s \o t = [m \in DOMAIN (s \o t) |-> (s \o t)[m]]
    <3>1. PICK z \in Seq(T) : z = s \o t
      BY <1>8
    <3> HIDE DEF T
    <3>2. z = [m \in DOMAIN z |-> z[m]]
      OBVIOUS
    <3> QED BY <3>1, <3>2
  <2>3. u = [m \in 1..(n + 1) |-> u[m]]
    BY <1>3
  <2> QED BY <1>9, <2>1, <2>2, <2>3
<1> QED BY <1>1, <1>10

LEMMA FirstsLast ==
    ASSUME NEW i \in Nat
    PROVE  Firsts(i, i) = <<Where(i, 0)>>
<1>1. i - i + 1 = 1 /\ \A m \in 1..1 : i + m - 1 = i /\ m = 1
  OBVIOUS
<1>2. Firsts(i, i) = [m \in 1..1 |-> Where(i, 0)]
  BY <1>1 DEF Firsts
<1> QED BY <1>2

(* The chains are those.                                                    *)
LEMMA ChainIs ==
    ASSUME LogReady, NEW chain,
           chain = [at \in Ring |->
                       IF ~ValidEntry(session, at) THEN <<>>
                       ELSE IF ValidEntry(session, After(at)) /\ ring[After(at)].seq = ring[at].seq + 1
                       THEN <<at>> \o chain[After(at)]
                       ELSE <<at>>],
           NEW i, NEW e, Ends(i, e)
    PROVE  chain[Where(i, 0)] = Firsts(i, e)
<1> DEFINE S == {j \in i..e : chain[Where(j, 0)] # Firsts(j, e)}
<1>1. Count \in Nat
  BY DEF LogReady, LogTypes, Count
<1>2. i \in 1..Count /\ e \in i..Count /\ i \in Nat /\ e \in Nat /\ (\A j \in i..e : OnMedium(j)) /\ (e < Count => ~OnMedium(e + 1))
  BY <1>1 DEF Ends
<1>3. SUFFICES S = {}
  <2>1. i \in i..e
    BY <1>2
  <2> QED BY <1>3, <2>1
<1>4. SUFFICES ASSUME S # {} PROVE FALSE
  OBVIOUS
<1>5. PICK j : j \in S /\ \A x \in S : x <= j
  <2>1. S \subseteq Nat /\ \A x \in S : x <= e
    BY <1>2
  <2> HIDE DEF S
  <2> QED BY <1>2, <1>4, <2>1, GreatestOf
<1>6. j \in i..e /\ chain[Where(j, 0)] # Firsts(j, e) /\ j \in 1..Count /\ j \in Nat /\ OnMedium(j)
  <2>1. j \in i..e /\ chain[Where(j, 0)] # Firsts(j, e)
    BY <1>5
  <2>2. j \in 1..Count /\ j \in Nat
    BY ONLY <1>1, <1>2, <2>1
  <2> QED BY <1>2, <2>1, <2>2
<1>7. /\ ring[Where(j, 0)].seq = j /\ ValidEntry(session, Where(j, 0)) /\ After(Where(j, 0)) \in Ring
      /\ Where(j, 0) \in Ring
  BY <1>6, ThereIs, HeadIs
<1>8. chain[Where(j, 0)] =
         IF ValidEntry(session, After(Where(j, 0))) /\ ring[After(Where(j, 0))].seq = ring[Where(j, 0)].seq + 1
         THEN <<Where(j, 0)>> \o chain[After(Where(j, 0))] ELSE <<Where(j, 0)>>
  BY <1>7
<1>9. CASE j = e
  <2>1. ~(j < Count /\ OnMedium(j + 1))
    BY <1>2, <1>9
  <2>2. chain[Where(j, 0)] = <<Where(j, 0)>>
    BY <1>6, <1>8, <2>1, FollowIs
  <2> QED BY <1>6, <1>9, <2>2, FirstsLast
<1>10. CASE j # e
  <2>1. j < e /\ j < Count /\ j + 1 \in i..e
    <3>1. i \in Nat /\ e \in i..Count /\ j \in i..e /\ j # e
      BY <1>2, <1>6, <1>10
    <3> QED BY ONLY <1>1, <3>1
  <2>2. OnMedium(j + 1)
    BY <1>2, <2>1
  <2>3. chain[Where(j, 0)] = <<Where(j, 0)>> \o chain[Where(j + 1, 0)]
    BY <1>6, <1>8, <2>1, <2>2, FollowIs
  <2>4. chain[Where(j + 1, 0)] = Firsts(j + 1, e)
    <3>1. ~(j + 1 <= j)
      BY <1>6
    <3> QED BY <1>5, <2>1, <3>1
  <2>5. <<Where(j, 0)>> \o Firsts(j + 1, e) = Firsts(j, e)
    BY <1>2, <1>6, <2>1, FirstsOne
  <2> QED BY <1>6, <2>3, <2>4, <2>5
<1> QED BY <1>9, <1>10

LEMMA ChainsAre ==
    ASSUME LogReady
    PROVE  /\ \A x \in Ring : ~ValidEntry(session, x) => Chains(session)[x] = <<>>
           /\ \A i, e : Ends(i, e) => Chains(session)[Where(i, 0)] = Firsts(i, e)
<1> DEFINE Body(c) == [at \in Ring |->
                       IF ~ValidEntry(session, at) THEN <<>>
                       ELSE IF ValidEntry(session, After(at)) /\ ring[After(at)].seq = ring[at].seq + 1
                       THEN <<at>> \o c[After(at)]
                       ELSE <<at>>]
           End(i) == CHOOSE e : Ends(i, e)
           f == [x \in Ring |-> IF ValidEntry(session, x) THEN Firsts(ring[x].seq, End(ring[x].seq)) ELSE <<>>]
<1>1. Count \in Nat
  BY DEF LogReady, LogTypes, Count
<1>2. \A i \in 1..Count : OnMedium(i) => Ends(i, End(i))
  BY <1>1, EndsOne
<1> HIDE DEF End
<1>3. ASSUME NEW x \in Ring
      PROVE  f[x] = IF ~ValidEntry(session, x) THEN <<>>
                    ELSE IF ValidEntry(session, After(x)) /\ ring[After(x)].seq = ring[x].seq + 1
                    THEN <<x>> \o f[After(x)]
                    ELSE <<x>>
  <2>1. CASE ~ValidEntry(session, x)
    BY <2>1
  <2>2. CASE ValidEntry(session, x)
    <3>1. PICK i \in 1..Count : i = ring[x].seq /\ x = Where(i, 0) /\ OnMedium(i)
      BY <2>2, ValidIs
    <3>2. PICK e : e = End(i)
      OBVIOUS
    <3>3. f[x] = Firsts(i, e) /\ Ends(i, e)
      BY <1>2, <2>2, <3>1, <3>2
    <3>4. i \in Nat /\ e \in Nat /\ i <= e
      BY <1>1, <3>3, EndsNext
    <3>5. CASE i = e
      <4>1. ~(i < Count /\ OnMedium(i + 1))
        BY <1>1, <3>3, <3>5, EndsNext
      <4>2. ~(ValidEntry(session, After(x)) /\ ring[After(x)].seq = ring[x].seq + 1)
        BY <3>1, <4>1, FollowIs
      <4>3. f[x] = <<x>>
        BY <3>1, <3>3, <3>4, <3>5, FirstsLast
      <4> QED BY <2>2, <4>2, <4>3
    <3>6. CASE i # e
      <4>1. i < e
        BY <3>4, <3>6
      <4>2. Ends(i + 1, e) /\ OnMedium(i + 1) /\ i < Count
        BY <1>1, <3>3, <4>1, EndsNext
      <4>3. ValidEntry(session, After(x)) /\ ring[After(x)].seq = ring[x].seq + 1 /\ After(x) = Where(i + 1, 0)
        BY <3>1, <4>2, FollowIs
      <4>4. i + 1 \in 1..Count
        BY <4>2 DEF Ends
      <4>5. After(x) \in Ring /\ ring[After(x)].seq = i + 1
        BY <3>1, <4>2, <4>3, <4>4, ThereIs
      <4>6. Ends(i + 1, End(i + 1))
        BY <1>2, <4>2, <4>4
      <4>7. End(i + 1) = e
        BY <1>1, <4>2, <4>6, EndsOnce
      <4>8. f[After(x)] = Firsts(i + 1, e)
        BY <4>3, <4>5, <4>7
      <4>9. <<x>> \o f[After(x)] = Firsts(i, e)
        <5>1. <<x>> \o Firsts(i + 1, e) = Firsts(i, e)
          BY <3>1, <3>4, <4>1, FirstsOne
        <5>2. PICK y : y = f[After(x)]
          OBVIOUS
        <5> HIDE DEF f
        <5>3. <<x>> \o y = Firsts(i, e)
          BY <4>8, <5>1, <5>2
        <5> QED BY <5>2, <5>3
      <4> QED BY <2>2, <3>3, <4>3, <4>9
    <3> QED BY <3>5, <3>6
  <2> QED BY <2>1, <2>2
<1>4. f = Body(f)
  <2>1. PICK g : g = f
    OBVIOUS
  <2>2. g = [x \in Ring |-> g[x]]
    BY <2>1
  <2>3. \A x \in Ring : g[x] = Body(g)[x]
    BY <1>3, <2>1
  <2> HIDE DEF f
  <2>4. Body(g) = [x \in Ring |-> Body(g)[x]]
    OBVIOUS
  <2> HIDE DEF Body
  <2>5. g = Body(g)
    BY <2>2, <2>3, <2>4
  <2> QED BY <2>1, <2>5
<1> DEFINE c == CHOOSE chain : chain = Body(chain)
<1>5. Chains(session) = c
  BY DEF Chains
<1>6. c = Body(c)
  <2> HIDE DEF f, Body
  <2> QED BY <1>4
<1>7. PICK d : d = c
  OBVIOUS
<1> HIDE DEF c
<1>8. d = Body(d) /\ Chains(session) = d
  BY <1>5, <1>6, <1>7
<1>9. \A x \in Ring : ~ValidEntry(session, x) => d[x] = <<>>
  BY <1>8
<1>10. \A i, e : Ends(i, e) => d[Where(i, 0)] = Firsts(i, e)
  BY <1>8, ChainIs
<1> QED BY <1>8, <1>9, <1>10

LEMMA FirstsAre ==
    ASSUME LogReady, NEW i, NEW e, Ends(i, e)
    PROVE  /\ Firsts(i, e) # <<>> /\ Len(Firsts(i, e)) = e - i + 1
           /\ Last(Firsts(i, e)) = Where(e, 0) /\ ring[Where(e, 0)] = entries[e].head
           /\ ToSet(Firsts(i, e)) = {Where(j, 0) : j \in i..e}
           /\ \A m \in 1..(e - i + 1) : Firsts(i, e)[m] = Where(i + m - 1, 0)
           /\ i \in 1..Count /\ e \in 1..Count /\ i <= e /\ i \in Nat /\ e \in Nat /\ Count \in Nat
<1>1. Count \in Nat
  BY DEF LogReady, LogTypes, Count
<1>2. i \in 1..Count /\ e \in i..Count /\ OnMedium(e) /\ i \in Nat /\ e \in Nat /\ e \in 1..Count /\ i <= e
  <2>1. i \in 1..Count /\ e \in i..Count /\ \A j \in i..e : OnMedium(j)
    BY DEF Ends
  <2>2. e \in i..e /\ i \in Nat /\ e \in Nat /\ e \in 1..Count /\ i <= e
    BY <1>1, <2>1
  <2> QED BY <2>1, <2>2
<1>3. PICK n, c : n = e - i + 1 /\ c = Firsts(i, e)
  OBVIOUS
<1>4. n \in Nat \ {0} /\ i + n - 1 = e
  BY <1>2, <1>3
<1>5. c = [m \in 1..n |-> Where(i + m - 1, 0)]
  BY <1>3 DEF Firsts
<1>6. Len(c) = n /\ DOMAIN c = 1..n
  <2>1. n \in Nat
    BY <1>4
  <2> QED BY ONLY <1>5, <2>1
<1>7. c # <<>>
  <2>1. Len(c) # 0
    BY <1>4, <1>6
  <2> QED BY <2>1
<1>8. Last(c) = Where(e, 0)
  BY <1>4, <1>5, <1>6 DEF Last
<1>9. ToSet(c) = {Where(j, 0) : j \in i..e}
  <2>1. ToSet(c) = {c[m] : m \in 1..n}
    BY <1>6 DEF ToSet
  <2>2. \A m \in 1..n : i + m - 1 \in i..e /\ c[m] = Where(i + m - 1, 0)
    BY <1>2, <1>4, <1>5
  <2>3. \A j \in i..e : j - i + 1 \in 1..n /\ i + (j - i + 1) - 1 = j
    BY <1>2, <1>3
  <2>4. \A j \in i..e : c[j - i + 1] = Where(j, 0)
    BY <2>2, <2>3
  <2> QED BY <2>1, <2>2, <2>3, <2>4
<1>10. ring[Where(e, 0)] = entries[e].head
  BY <1>2, ThereIs
<1>11. \A m \in 1..n : c[m] = Where(i + m - 1, 0)
  BY <1>5
<1> QED BY <1>1, <1>2, <1>3, <1>6, <1>7, <1>8, <1>9, <1>10, <1>11

-----------------------------------------------------------------------------
(* How far the log can be read: all from the oldest entry that must stay is *)
(* there, and so is every entry that was flushed.                           *)
Reached(l) ==
    /\ l \in 0..Count
    /\ l = 0 \/ Kept <= l
    /\ \A j \in Kept..l : OnMedium(j)
    /\ l < Count => ~OnMedium(l + 1)
    /\ \A j \in 1..Count : ~Issued(j) => j <= l

LEMMA LandedIsThere ==
    ASSUME LogReady, NEW x \in Kept..Count, ~Issued(x)
    PROVE  OnMedium(x)
<1>1. \A k \in 0..(entries[x].head.len - 1) : ring[Where(x, k)] = Said(x, k) \/ Landing(x, k)
  BY DEF LogReady, LogLanded
<1> QED BY <1>1 DEF OnMedium, Landing

LEMMA ReachOne ==
    ASSUME LogReady
    PROVE  \E l : Reached(l)
<1> DEFINE S == {l \in 0..Count : (l = 0 \/ Kept <= l) /\ \A j \in Kept..l : OnMedium(j)}
<1>1. Count \in Nat /\ Kept \in Nat \ {0} /\ ((\A i \in 1..Count : Issued(i)) => Kept = 1)
  BY KeptIs DEF LogReady, LogTypes, Count
<1>2. S \subseteq Nat /\ (\A x \in S : x <= Count) /\ 0 \in S
  <2>1. \A j \in Kept..0 : FALSE
    BY <1>1
  <2> QED BY <1>1, <2>1
<1>3. PICK l : l = Max(S)
  OBVIOUS
<1>4. l \in S /\ \A x \in S : x <= l
  <2> HIDE DEF S
  <2> QED BY <1>1, <1>2, <1>3, GreatestOf
<1>5. ASSUME NEW j \in 1..Count, ~Issued(j)
      PROVE  j <= l /\ \E f \in S : f > 0
  <2>1. PICK f \in j..Count : ~Issued(f) /\ Kept = entries[f].first
    BY <1>5, KeptIs DEF LogReady
  <2>2. f \in 1..Count /\ f \in Nat /\ f > 0 /\ f \in 0..Count
    BY <1>1, <2>1
  <2>3. entries[f].first \in 1..f
    BY <2>2, EntryIs DEF LogReady
  <2>4. Kept <= f
    BY <2>1, <2>2, <2>3
  <2>5. ASSUME NEW x \in Kept..f PROVE OnMedium(x)
    <3>1. x \in Kept..Count /\ x \in 1..Count /\ (x # f => x \in 1..(f - 1))
      BY <1>1, <2>2
    <3>2. ~Issued(x)
      BY <2>1, <2>2, <3>1 DEF LogReady, InOrder
    <3> QED BY <3>1, <3>2, LandedIsThere
  <2>6. f \in S
    BY <2>2, <2>4, <2>5
  <2>7. f <= l
    BY <1>4, <2>6
  <2>8. j <= l
    <3>1. l \in Nat
      BY <1>2, <1>4
    <3> HIDE DEF S
    <3> QED BY <1>1, <2>1, <2>2, <2>7, <3>1
  <2> QED BY <2>2, <2>6, <2>8
<1>6. l \in 0..Count /\ (l = 0 \/ Kept <= l) /\ \A j \in Kept..l : OnMedium(j)
  BY <1>4
<1>7. ASSUME l < Count, OnMedium(l + 1) PROVE FALSE
  <2>1. l + 1 \in 0..Count /\ ~(l + 1 <= l) /\ l \in Nat
    BY <1>1, <1>6, <1>7
  <2>2. CASE Kept <= l + 1
    <3>1. \A j \in Kept..(l + 1) : j \in Kept..l \/ j = l + 1
      BY <1>1, <2>1
    <3>2. \A j \in Kept..(l + 1) : OnMedium(j)
      BY <1>6, <1>7, <3>1
    <3>3. l + 1 \in S
      BY <2>1, <2>2, <3>2
    <3> QED BY <1>4, <2>1, <3>3
  <2>3. CASE ~(Kept <= l + 1)
    <3>1. l = 0 /\ Kept # 1
      BY <1>1, <1>6, <2>1, <2>3
    <3>2. PICK f \in S : f > 0
      BY <1>1, <1>5, <3>1
    <3>3. f <= 0 /\ f \in Nat
      BY <1>2, <1>4, <3>1, <3>2
    <3> HIDE DEF S
    <3> QED BY <3>2, <3>3
  <2> QED BY <2>2, <2>3
<1> QED BY <1>5, <1>6, <1>7 DEF Reached

(* What an entry names as the tail must stay, when there is no later one    *)
(* that was flushed.                                                        *)
LEMMA KeptFirst ==
    ASSUME LogReady, NEW e \in 1..Count, \A j \in 1..Count : ~Issued(j) => j <= e
    PROVE  Kept <= entries[e].first /\ entries[e].first \in 1..e /\ Kept \in Nat \ {0}
<1>1. Kept \in Nat \ {0} /\ ((\A i \in 1..Count : Issued(i)) => Kept = 1) /\ entries[e].first \in 1..e /\ e \in Nat /\ Count \in Nat
  BY KeptIs, EntryIs DEF LogReady
<1>2. CASE \A i \in 1..Count : Issued(i)
  BY <1>1, <1>2
<1>3. CASE \E i \in 1..Count : ~Issued(i)
  <2>1. PICK i \in 1..Count : ~Issued(i)
    BY <1>3
  <2>2. PICK f \in i..Count : ~Issued(f) /\ Kept = entries[f].first
    BY <2>1, KeptIs DEF LogReady
  <2>3. f \in 1..Count
    BY <1>1, <2>1, <2>2
  <2>4. entries[f].first <= entries[e].first
    BY <2>2, <2>3, FromGrows DEF LogReady
  <2> QED BY <1>1, <2>2, <2>4
<1> QED BY <1>2, <1>3

LEMMA CompleteChainIs ==
    ASSUME LogReady, NEW l, Reached(l), NEW i, NEW e, Ends(i, e), CompleteChain(Firsts(i, e))
    PROVE  e <= l /\ (e = l => entries[l].first \in i..l)
<1>1. /\ Last(Firsts(i, e)) = Where(e, 0) /\ ring[Where(e, 0)] = entries[e].head
      /\ ToSet(Firsts(i, e)) = {Where(j, 0) : j \in i..e}
      /\ i \in 1..Count /\ e \in 1..Count /\ i <= e /\ i \in Nat /\ e \in Nat /\ Count \in Nat
  BY FirstsAre
<1>2. entries[e].head.tail = Where(entries[e].first, 0) /\ entries[e].first \in 1..e /\ entries[e].first \in 1..Count
  BY <1>1, HeadIs
<1>3. PICK j \in i..e : Where(j, 0) = Where(entries[e].first, 0)
  BY <1>1, <1>2 DEF CompleteChain
<1>4. j \in 1..Count /\ OnMedium(j) /\ \A m \in i..e : OnMedium(m)
  <2>1. j \in 1..Count
    BY <1>1
  <2> QED BY <2>1 DEF Ends
<1>5. l \in 0..Count /\ l \in Nat
  BY <1>1 DEF Reached
<1>6. ASSUME l < e PROVE FALSE
  <2>1. l + 1 \in 1..Count /\ l < Count /\ ~OnMedium(l + 1)
    BY <1>1, <1>5, <1>6 DEF Reached
  <2>2. l + 1 \notin i..e
    BY <1>4, <2>1
  <2>3. l + 1 < i /\ l + 1 \in 1..(e - 1)
    BY <1>1, <1>5, <1>6, <2>2
  <2>4. Issued(l + 1)
    <3>1. ~(l + 1 <= l)
      BY <1>5
    <3> QED BY <2>1, <3>1 DEF Reached
  <2>5. \A x \in 1..Count : ~Issued(x) => x <= e
    <3> SUFFICES ASSUME NEW x \in 1..Count, ~Issued(x) PROVE x <= e
      OBVIOUS
    <3>1. x <= l
      BY DEF Reached
    <3> QED BY <1>1, <1>5, <1>6, <3>1
  <2>6. Kept <= entries[e].first /\ Kept \in Nat \ {0}
    BY <1>1, <2>5, KeptFirst
  <2>7. ~(l + 1 < entries[e].first)
    <3>1. ~Done(l + 1)
      BY <2>4 DEF Issued, Done
    <3> QED BY <1>1, <2>3, <3>1 DEF LogReady, InOrder
  <2>8. PICK f : f = entries[e].first
    OBVIOUS
  <2>9. f \in Kept..Count /\ j \in Kept..Count /\ f # j
    BY <1>1, <1>2, <1>5, <2>3, <2>6, <2>7, <2>8
  <2>10. Sector(f, 0) /\ Sector(j, 0)
    <3>1. \A x \in 1..Count : entries[x].head.len \in 1..2
      BY HeadIs
    <3>2. \A x \in 1..Count : 0 \in 0..(entries[x].head.len - 1)
      BY <3>1
    <3> QED BY <1>2, <1>4, <2>8, <2>9, <3>2 DEF Sector
  <2>11. f = j
    BY <1>3, <2>8, <2>10, SectorsApartIf DEF LogReady
  <2> QED BY <2>9, <2>11
<1>7. ASSUME e = l PROVE entries[l].first \in i..l
  <2>1. \A x \in 1..Count : ~Issued(x) => x <= e
    BY <1>7 DEF Reached
  <2>2. Kept <= entries[e].first /\ Kept \in Nat \ {0}
    BY <1>1, <2>1, KeptFirst
  <2>3. entries[e].first \in Kept..l
    BY <1>1, <1>2, <1>7, <2>2
  <2>4. OnMedium(entries[e].first)
    BY <2>3 DEF Reached
  <2>5. ring[Where(entries[e].first, 0)].seq = entries[e].first
    BY <1>2, <2>4, ThereIs
  <2>6. ring[Where(j, 0)].seq = j
    BY <1>4, ThereIs
  <2>7. entries[e].first = j
    BY <1>3, <2>5, <2>6
  <2> QED BY <1>7, <2>7
<1>8. e <= l
  BY <1>1, <1>5, <1>6
<1> QED BY <1>7, <1>8

(* Where the search looks.                                                  *)
NextTail(chains, x) == IF CompleteChain(chains[x]) THEN After(Last(chains[x])) ELSE At(x + 1)

LEMMA TailsAre ==
    ASSUME NEW chains, \A x \in Ring : NextTail(chains, x) \in Ring
    PROVE  /\ Tails(chains) \subseteq Ring /\ 0 \in Tails(chains)
           /\ \A x \in Tails(chains) : NextTail(chains, x) > x => NextTail(chains, x) \in Tails(chains)
<1> DEFINE N(x) == NextTail(chains, x)
           Shut(S) == \A s \in S : N(s) > s => N(s) \in S
           T(x) == {y \in Ring : \A S \in SUBSET Ring : x \in S /\ Shut(S) => y \in S}
           Body(u) == [x \in Ring |-> {x} \cup IF N(x) > x THEN u[N(x)] ELSE {}]
           f == [x \in Ring |-> T(x)]
<1>1. Ring \subseteq Nat /\ 0 \in Ring /\ \A x \in Ring : x <= LogSectors
  BY RingSize DEF Ring
<1>2. \A x \in Ring : N(x) \in Ring
  OBVIOUS
<1> HIDE DEF N
<1>3. ASSUME NEW x \in Ring PROVE x \in T(x) /\ Shut(T(x)) /\ T(x) \subseteq Ring
  <2>1. ASSUME NEW y \in T(x), N(y) > y PROVE N(y) \in T(x)
    <3>1. N(y) \in Ring
      BY <1>2
    <3>2. ASSUME NEW S \in SUBSET Ring, x \in S, Shut(S) PROVE N(y) \in S
      <4>1. y \in S
        BY <3>2
      <4> QED BY <2>1, <3>2, <4>1
    <3> QED BY <3>1, <3>2
  <2> QED BY <2>1
<1>4. ASSUME NEW x \in Ring PROVE f[x] = {x} \cup IF N(x) > x THEN f[N(x)] ELSE {}
  <2>1. N(x) \in Ring
    BY <1>2
  <2>2. PICK S : S = {x} \cup IF N(x) > x THEN T(N(x)) ELSE {}
    OBVIOUS
  <2>3. T(x) \subseteq S
    <3>1. S \in SUBSET Ring /\ x \in S
      BY <1>3, <2>1, <2>2
    <3>2. Shut(S)
      <4> SUFFICES ASSUME NEW s \in S, N(s) > s PROVE N(s) \in S
        OBVIOUS
      <4>1. CASE s = x
        <5>1. N(x) \in T(N(x))
          BY <1>3, <2>1
        <5> QED BY <2>2, <4>1, <5>1
      <4>2. CASE s # x
        <5>1. s \in T(N(x)) /\ N(x) > x
          BY <2>2, <4>2
        <5>2. Shut(T(N(x)))
          BY <1>3, <2>1
        <5>3. N(s) \in T(N(x))
          BY <5>1, <5>2
        <5> QED BY <2>2, <5>1, <5>3
      <4> QED BY <4>1, <4>2
    <3> HIDE DEF Shut
    <3> QED BY <3>1, <3>2
  <2>4. S \subseteq T(x)
    <3>1. x \in T(x) /\ Shut(T(x))
      BY <1>3
    <3>2. ASSUME N(x) > x, NEW y \in T(N(x)) PROVE y \in T(x)
      <4>1. N(x) \in T(x) /\ T(x) \in SUBSET Ring
        BY <3>1, <3>2
      <4> HIDE DEF Shut
      <4> QED BY <3>1, <3>2, <4>1
    <3> HIDE DEF T
    <3> QED BY <2>2, <3>1, <3>2
  <2>5. T(x) = S
    BY <2>3, <2>4
  <2>6. f[x] = T(x) /\ f[N(x)] = T(N(x))
    BY <2>1
  <2> HIDE DEF f, T
  <2> QED BY <2>2, <2>5, <2>6
<1>5. f = Body(f)
  <2>1. PICK g : g = f
    OBVIOUS
  <2>2. g = [x \in Ring |-> g[x]]
    BY <2>1
  <2> HIDE DEF f
  <2>3. \A x \in Ring : g[x] = Body(g)[x]
    BY <1>4, <2>1
  <2>4. Body(g) = [x \in Ring |-> Body(g)[x]]
    OBVIOUS
  <2> HIDE DEF Body
  <2>5. g = Body(g)
    BY <2>2, <2>3, <2>4
  <2> QED BY <2>1, <2>5
<1> DEFINE c == CHOOSE tails : tails = Body(tails)
<1>6. Tails(chains) = c[0]
  BY DEF Tails, N, NextTail
<1>7. c = Body(c)
  <2> HIDE DEF f, Body
  <2> QED BY <1>5
<1>8. PICK u : u = c
  OBVIOUS
<1> HIDE DEF c
<1>9. u = Body(u) /\ Tails(chains) = u[0]
  BY <1>6, <1>7, <1>8
<1>10. \A x \in Ring : u[x] = {x} \cup IF N(x) > x THEN u[N(x)] ELSE {}
  BY <1>9
<1> DEFINE Good(x) == u[x] \subseteq Ring /\ x \in u[x] /\ Shut(u[x])
           S == {x \in Ring : ~Good(x)}
<1>11. S = {}
  <2> SUFFICES ASSUME S # {} PROVE FALSE
    OBVIOUS
  <2>1. PICK x : x \in S /\ \A y \in S : y <= x
    <3>1. S \subseteq Nat /\ (\A y \in S : y <= LogSectors) /\ LogSectors \in Nat
      BY <1>1, RingSize
    <3> HIDE DEF S
    <3> QED BY <3>1, GreatestOf
  <2>2. x \in Ring /\ ~Good(x)
    BY <2>1
  <2>3. CASE ~(N(x) > x)
    <3>1. u[x] = {x}
      BY <1>10, <2>2, <2>3
    <3> QED BY <2>2, <2>3, <3>1
  <2>4. CASE N(x) > x
    <3>1. N(x) \in Ring /\ ~(N(x) <= x)
      <4>1. PICK n : n = N(x)
        OBVIOUS
      <4>2. n \in Ring /\ n \in Nat /\ x \in Nat /\ n > x
        BY <1>1, <1>2, <2>2, <2>4, <4>1
      <4>3. ~(n <= x)
        BY ONLY <4>2
      <4> QED BY <4>1, <4>2, <4>3
    <3>2. Good(N(x))
      <4>1. N(x) \notin S
        BY <2>1, <3>1
      <4> HIDE DEF Good
      <4> QED BY <3>1, <4>1
    <3>3. u[x] = {x} \cup u[N(x)]
      BY <1>10, <2>2, <2>4
    <3>4. Good(x)
      BY <2>2, <3>2, <3>3
    <3> QED BY <2>2, <3>4
  <2> QED BY <2>3, <2>4
<1>12. Good(0)
  <2> HIDE DEF Good
  <2> QED BY <1>1, <1>11
<1> QED BY <1>9, <1>12 DEF N

(* A sector between the beginning of one entry and the end of another is of *)
(* an entry between the two.                                                *)
LEMMA Spanned ==
    ASSUME LogReady, NEW i \in 1..Count, NEW e \in i..Count, NEW a \in Nat,
           entries[i].from <= a, a < entries[e].from + entries[e].head.len
    PROVE  \E j \in i..e : \E k \in 0..(entries[j].head.len - 1) : a = entries[j].from + k
<1> DEFINE S == {j \in i..e : entries[j].from <= a}
<1>1. Count \in Nat /\ i \in Nat /\ e \in Nat /\ i <= e /\ i..e \subseteq 1..Count
  BY DEF LogReady, LogTypes, Count
<1>2. \A j \in 1..Count : entries[j].from \in Nat /\ entries[j].head.len \in 1..2
  BY EntryIs DEF LogReady
<1>3. S \subseteq Nat /\ (\A x \in S : x <= e) /\ i \in S
  BY <1>1
<1>4. PICK j : j \in S /\ \A x \in S : x <= j
  <2> HIDE DEF S
  <2> QED BY <1>1, <1>3, GreatestOf
<1>5. j \in i..e /\ j \in 1..Count /\ entries[j].from <= a /\ j \in Nat
  BY <1>1, <1>4
<1>6. a < entries[j].from + entries[j].head.len
  <2>1. CASE j = e
    BY <2>1
  <2>2. CASE j # e
    <3>1. j + 1 \in i..e /\ ~(j + 1 <= j) /\ j < Count /\ j + 1 \in 1..Count
      BY ONLY <1>1, <1>5, <2>2, e \in i..Count
    <3>2. entries[j + 1].from = entries[j].from + entries[j].head.len
      BY <1>5, <3>1, NextFrom DEF LogReady
    <3>3. ~(entries[j + 1].from <= a)
      BY <1>4, <3>1
    <3>4. entries[j + 1].from \in Nat
      BY <1>2, <3>1
    <3>5. PICK x : x = entries[j + 1].from
      OBVIOUS
    <3>6. a < x
      BY <3>3, <3>4, <3>5
    <3> QED BY <3>2, <3>5, <3>6
  <2> QED BY <2>1, <2>2
<1>7. PICK x, n : x = entries[j].from /\ n = entries[j].head.len
  OBVIOUS
<1>8. x \in Nat /\ n \in 1..2 /\ x <= a /\ a < x + n
  BY <1>2, <1>5, <1>6, <1>7
<1>9. a - x \in 0..(n - 1) /\ a = x + (a - x)
  BY ONLY a \in Nat, <1>8
<1> QED BY <1>5, <1>7, <1>9

LEMMA NextTailIs ==
    ASSUME LogReady, NEW x \in Ring
    PROVE  /\ NextTail(Chains(session), x) \in Ring
           /\ CompleteChain(Chains(session)[x]) =>
                 \E i, e : x = Where(i, 0) /\ Ends(i, e) /\ Chains(session)[x] = Firsts(i, e)
                           /\ NextTail(Chains(session), x) = Where(e, entries[e].head.len)
<1>1. x \in Nat /\ x + 1 \in Nat
  BY RingSize DEF Ring
<1>2. CASE ~CompleteChain(Chains(session)[x])
  BY <1>1, <1>2, AtIsIn DEF NextTail
<1>3. CASE CompleteChain(Chains(session)[x])
  <2>1. ValidEntry(session, x)
    BY <1>3, ChainsAre DEF CompleteChain
  <2>2. PICK i \in 1..Count : x = Where(i, 0) /\ OnMedium(i)
    BY <2>1, ValidIs
  <2>3. Count \in Nat
    BY DEF LogReady, LogTypes, Count
  <2>4. PICK e : Ends(i, e)
    BY <2>2, <2>3, EndsOne
  <2>5. Chains(session)[x] = Firsts(i, e)
    BY <2>2, <2>4, ChainsAre
  <2>6. Last(Firsts(i, e)) = Where(e, 0) /\ e \in 1..Count /\ OnMedium(e)
    <3>1. Last(Firsts(i, e)) = Where(e, 0) /\ e \in 1..Count /\ e \in i..e
      BY <2>4, FirstsAre
    <3> QED BY <2>4, <3>1 DEF Ends
  <2>7. After(Where(e, 0)) = Where(e, entries[e].head.len) /\ After(Where(e, 0)) \in Ring
    BY <2>6, ThereIs
  <2> QED BY <1>3, <2>2, <2>4, <2>5, <2>6, <2>7 DEF NextTail
<1> QED BY <1>2, <1>3

(* The search finds the entries as far as they can be read: a sequence that *)
(* holds all it needs.                                                      *)
LEMMA WalkFinds ==
    ASSUME LogReady, NEW l, Reached(l), l > 0
    PROVE  \E t \in Tails(Chains(session)) : \E i :
              Ends(i, l) /\ entries[l].first \in i..l /\ Chains(session)[t] = Firsts(i, l)
<1> DEFINE chains == Chains(session)
           Tails0 == Tails(chains)
           q == entries[l].first
           z == Where(q, 0)
<1>1. Count \in Nat /\ l \in 1..Count /\ l \in Nat
  BY DEF LogReady, LogTypes, Count, Reached
<1>2. Kept <= q /\ q \in 1..l /\ Kept \in Nat \ {0} /\ q \in 1..Count
  BY <1>1, KeptFirst DEF Reached
<1>3. \A j \in q..l : OnMedium(j)
  BY <1>1, <1>2 DEF Reached
<1>4. Ends(q, l)
  BY <1>1, <1>2, <1>3 DEF Ends, Reached
<1>5. OnMedium(q) /\ z \in Ring /\ ring[z] = entries[q].head /\ ring[z].kind = "loge" /\ ring[z].seq = q
  <2>1. OnMedium(q)
    BY <1>1, <1>2, <1>3
  <2> QED BY <1>2, <2>1, ThereIs, HeadIs
<1>6. chains[z] = Firsts(q, l)
  BY <1>4, ChainsAre
<1>7. Tails0 \subseteq Ring /\ 0 \in Tails0 /\ \A x \in Tails0 : NextTail(chains, x) > x => NextTail(chains, x) \in Tails0
  BY NextTailIs, TailsAre
<1> HIDE DEF Tails0
<1>8. Ring \subseteq Nat /\ LogSectors \in Nat /\ \A x \in Ring : x < LogSectors
  BY RingSize DEF Ring
<1> DEFINE S == {t \in Tails0 : t <= z}
<1>9. PICK t : t \in S /\ \A x \in S : x <= t
  <2>1. z \in Nat
    BY <1>5, <1>8
  <2> HIDE DEF z, q
  <2>2. 0 <= z
    BY <2>1
  <2>3. S \subseteq Nat /\ (\A x \in S : x <= z) /\ z \in Nat /\ 0 \in S
    BY <1>7, <1>8, <2>1, <2>2
  <2> HIDE DEF S
  <2> QED BY <2>3, GreatestOf
<1>10. t \in Tails0 /\ t \in Ring /\ t \in Nat /\ t <= z /\ z \in Nat /\ z < LogSectors
  BY <1>5, <1>7, <1>8, <1>9
<1> HIDE DEF z, q
<1>11. CASE t = z
  <2>1. q \in q..l
    BY <1>1, <1>2
  <2> QED BY <1>4, <1>6, <1>10, <1>11, <2>1 DEF Tails0, q
<1>12. CASE t # z
  <2>1. PICK d : d = z - t
    OBVIOUS
  <2>2. d \in Nat \ {0} /\ t + d = z /\ d <= LogSectors
    BY <1>8, <1>10, <1>12, <2>1
  <2>3. ASSUME NEW x \in 1..d PROVE NextTail(chains, t) # At(t + x) /\ At(t + x) = t + x
    <3>1. x \in 0..LogSectors /\ t + x < LogSectors /\ t + x <= z /\ t + x > t /\ ~(t + x <= t) /\ t + x \in Nat
      BY <1>8, <1>10, <2>2
    <3>2. At(t + x) = t + x
      BY <1>10, <3>1, AtOnce
    <3>3. ASSUME NextTail(chains, t) = t + x PROVE FALSE
      <4>1. t + x \in S
        BY <1>7, <1>10, <3>1, <3>3
      <4> QED BY <1>9, <3>1, <4>1
    <3> QED BY <3>2, <3>3
  <2>4. CompleteChain(chains[t])
    <3>1. 1 \in 1..d
      BY <2>2
    <3> QED BY <2>3, <3>1 DEF NextTail
  <2>5. PICK i, e : /\ t = Where(i, 0) /\ Ends(i, e) /\ chains[t] = Firsts(i, e)
                    /\ NextTail(chains, t) = Where(e, entries[e].head.len)
    BY <1>10, <2>4, NextTailIs
  <2>6. i \in 1..Count /\ e \in i..Count /\ e \in 1..Count /\ i <= e /\ i \in Nat /\ e \in Nat
    BY <1>1, <2>5 DEF Ends
  <2>7. PICK a, b, n : a = entries[i].from /\ b = entries[e].from /\ n = entries[e].head.len
    OBVIOUS
  <2>8. a \in Nat /\ b \in Nat /\ n \in 1..2 /\ a <= b
    <3>1. entries[i].from <= entries[e].from
      BY <2>6, FromGrows DEF LogReady
    <3>2. entries[i].from \in Nat /\ entries[e].from \in Nat /\ entries[e].head.len \in 1..2
      BY <2>6, EntryIs DEF LogReady
    <3> QED BY <2>7, <3>1, <3>2
  <2>9. t = At(a)
    <3>1. a + 0 = a
      BY <2>8
    <3> QED BY <2>5, <2>7, <3>1 DEF Where
  <2>10. \A x \in 0..d : At(a + x) = At(t + x)
    <3> SUFFICES ASSUME NEW x \in 0..d PROVE At(a + x) = At(t + x)
      OBVIOUS
    <3>1. x \in 0..LogSectors
      BY <1>8, <2>2
    <3> QED BY <2>8, <2>9, <3>1, AtAgain
  <2>11. CASE a + d < b + n
    <3>1. At(a + d) = z
      <4>1. d \in 0..d /\ d \in 1..d
        BY <2>2
      <4> QED BY <2>2, <2>3, <2>10, <4>1
    <3>2. a + d \in Nat /\ a <= a + d
      BY <2>2, <2>8
    <3>3. \E j \in i..e : \E k \in 0..(entries[j].head.len - 1) : a + d = entries[j].from + k
      BY <2>6, <2>7, <2>11, <3>2, Spanned
    <3>4. PICK j \in i..e : \E k \in 0..(entries[j].head.len - 1) : a + d = entries[j].from + k
      BY <3>3
    <3>5. PICK k \in 0..(entries[j].head.len - 1) : a + d = entries[j].from + k
      BY <3>4
    <3>6. j \in 1..Count /\ OnMedium(j)
      <4>1. j \in 1..Count
        BY ONLY <2>6, j \in i..e, <1>1
      <4> QED BY <2>5, <4>1 DEF Ends
    <3>7. z = Where(j, k)
      BY <3>1, <3>5 DEF Where
    <3>8. ring[z] = Said(j, k)
      BY <3>6, <3>7 DEF OnMedium
    <3>9. k = 0
      <4>1. k # 0 => Said(j, k).kind = "data"
        BY <3>6, SectorSaidIs DEF LogReady
      <4> QED BY <1>5, <3>8, <4>1 DEF z
    <3>10. j = q
      <4>1. ring[Where(j, 0)].seq = j
        BY <3>6, ThereIs
      <4> QED BY <1>5, <3>7, <3>9, <4>1 DEF z
    <3>11. e <= l
      BY <2>4, <2>5, CompleteChainIs
    <3>12. e = l
      <4>1. ASSUME e < l PROVE FALSE
        <5>1. e + 1 \in q..l /\ e < Count
          BY ONLY <1>1, <1>2, <2>6, <3>10, <4>1, j \in i..e
        <5>2. OnMedium(e + 1)
          BY <1>3, <5>1 DEF q
        <5> QED BY <2>5, <5>1, <5>2 DEF Ends
      <4> QED BY <1>1, <2>6, <3>11, <4>1
    <3> QED BY <1>10, <2>5, <3>10, <3>12 DEF Tails0, q
  <2>12. CASE ~(a + d < b + n)
    <3>1. PICK x : x = b + n - a
      OBVIOUS
    <3>2. x \in 1..d /\ a + x = b + n /\ x \in 0..d
      BY <2>2, <2>8, <2>12, <3>1
    <3>3. NextTail(chains, t) = At(b + n)
      BY <2>5, <2>7 DEF Where
    <3>4. NextTail(chains, t) = At(t + x)
      BY <2>10, <3>2, <3>3
    <3> QED BY <2>3, <3>2, <3>4
  <2> QED BY <2>11, <2>12
<1> QED BY <1>11, <1>12

LEMMA ActiveIs ==
    ASSUME LogReady, NEW l, Reached(l)
    PROVE  /\ l = 0 => Active(session) = <<>>
           /\ l > 0 => \E i : Ends(i, l) /\ entries[l].first \in i..l /\ Active(session) = Firsts(i, l)
<1> DEFINE chains == Chains(session)
           found == {chains[t] : t \in {x \in Tails(chains) : CompleteChain(chains[x])}}
<1>1. ASSUME NEW c \in found
      PROVE  \E i, e : /\ c = Firsts(i, e) /\ Ends(i, e) /\ e <= l /\ e \in Nat /\ e > 0
                       /\ ring[Last(c)].seq = e /\ (e = l => entries[l].first \in i..l)
  <2>1. PICK t \in Tails(chains) : c = chains[t] /\ CompleteChain(chains[t])
    OBVIOUS
  <2>2. t \in Ring
    <3>1. Tails(chains) \subseteq Ring
      BY NextTailIs, TailsAre
    <3> QED BY <3>1
  <2>3. PICK i, e : Ends(i, e) /\ chains[t] = Firsts(i, e)
    BY <2>1, <2>2, NextTailIs
  <2>4. e <= l /\ (e = l => entries[l].first \in i..l)
    BY <2>1, <2>3, CompleteChainIs
  <2>5. Last(Firsts(i, e)) = Where(e, 0) /\ ring[Where(e, 0)] = entries[e].head /\ e \in 1..Count /\ e \in Nat
    BY <2>3, FirstsAre
  <2>6. entries[e].head.seq = e
    BY <2>5, HeadIs
  <2> QED BY <2>1, <2>3, <2>4, <2>5, <2>6
<1>2. Active(session) = IF found = {} THEN <<>>
                        ELSE CHOOSE c \in found : \A d \in found : ring[Last(d)].seq <= ring[Last(c)].seq
  BY DEF Active
<1>3. l > 0 => \E c \in found : \E i : c = Firsts(i, l) /\ Ends(i, l)
  <2> SUFFICES ASSUME l > 0 PROVE \E c \in found : \E i : c = Firsts(i, l) /\ Ends(i, l)
    OBVIOUS
  <2>1. PICK t \in Tails(chains) : \E i : Ends(i, l) /\ entries[l].first \in i..l /\ chains[t] = Firsts(i, l)
    BY WalkFinds
  <2>2. PICK i : Ends(i, l) /\ entries[l].first \in i..l /\ chains[t] = Firsts(i, l)
    BY <2>1
  <2>3. CompleteChain(chains[t])
    <3>1. /\ Firsts(i, l) # <<>> /\ Last(Firsts(i, l)) = Where(l, 0) /\ ring[Where(l, 0)] = entries[l].head
          /\ ToSet(Firsts(i, l)) = {Where(j, 0) : j \in i..l} /\ l \in 1..Count
      BY <2>2, FirstsAre
    <3>2. entries[l].head.tail = Where(entries[l].first, 0)
      BY <3>1, HeadIs
    <3> QED BY <2>2, <3>1, <3>2 DEF CompleteChain
  <2> QED BY <2>2, <2>3
<1> HIDE DEF found
<1>4. l \in Nat
  BY DEF Reached, LogReady, LogTypes, Count
<1>5. ASSUME l = 0 PROVE Active(session) = <<>>
  <2>1. found = {}
    <3> SUFFICES ASSUME NEW c \in found PROVE FALSE
      OBVIOUS
    <3>1. PICK i, e : e <= l /\ e \in Nat /\ e > 0
      BY <1>1
    <3> QED BY <1>5, <3>1
  <2> QED BY <1>2, <2>1
<1>6. ASSUME l > 0 PROVE \E i : Ends(i, l) /\ entries[l].first \in i..l /\ Active(session) = Firsts(i, l)
  <2>1. PICK best \in found : \E i : best = Firsts(i, l) /\ Ends(i, l)
    BY <1>3, <1>6
  <2>2. ring[Last(best)].seq = l
    <3>1. PICK i : best = Firsts(i, l) /\ Ends(i, l)
      BY <2>1
    <3>2. Last(Firsts(i, l)) = Where(l, 0) /\ ring[Where(l, 0)] = entries[l].head /\ l \in 1..Count
      BY <3>1, FirstsAre
    <3> QED BY <3>1, <3>2, HeadIs
  <2>3. \A d \in found : ring[Last(d)].seq <= ring[Last(best)].seq
    <3> SUFFICES ASSUME NEW d \in found PROVE ring[Last(d)].seq <= ring[Last(best)].seq
      OBVIOUS
    <3>1. PICK i, e : ring[Last(d)].seq = e /\ e <= l
      BY <1>1
    <3> QED BY <2>2, <3>1
  <2>4. PICK newest : newest = CHOOSE c \in found : \A d \in found : ring[Last(d)].seq <= ring[Last(c)].seq
    OBVIOUS
  <2>5. newest \in found /\ \A d \in found : ring[Last(d)].seq <= ring[Last(newest)].seq
    BY <2>3, <2>4
  <2>6. Active(session) = newest
    BY <1>2, <2>1, <2>4
  <2>7. PICK i, e : /\ newest = Firsts(i, e) /\ Ends(i, e) /\ e <= l /\ e \in Nat
                    /\ ring[Last(newest)].seq = e /\ (e = l => entries[l].first \in i..l)
    BY <1>1, <2>5
  <2>8. l <= e
    BY <2>1, <2>2, <2>5, <2>7
  <2>9. e = l
    BY <1>4, <2>7, <2>8
  <2> QED BY <2>6, <2>7, <2>9
<1> QED BY <1>5, <1>6

(* What is replayed: the entries from the one the newest names as its tail. *)
Tells(log, q, l) ==
    /\ DOMAIN log = 1..(l - q + 1) /\ Len(log) = l - q + 1
    /\ \A m \in 1..(l - q + 1) :
          /\ log[m].entry = entries[q + m - 1].head
          /\ entries[q + m - 1].head.len = 2 => log[m].data = entries[q + m - 1].head.sum[1]

LEMMA FromTailIs ==
    ASSUME LogReady, NEW i, NEW l, Ends(i, l), NEW q, q = entries[l].first, q \in i..l
    PROVE  Tells(FromTail(Firsts(i, l)), q, l)
<1>1. /\ Firsts(i, l) # <<>> /\ Len(Firsts(i, l)) = l - i + 1
      /\ Last(Firsts(i, l)) = Where(l, 0) /\ ring[Where(l, 0)] = entries[l].head
      /\ \A m \in 1..(l - i + 1) : Firsts(i, l)[m] = Where(i + m - 1, 0)
      /\ i \in 1..Count /\ l \in 1..Count /\ i <= l /\ i \in Nat /\ l \in Nat /\ Count \in Nat
  BY FirstsAre
<1>2. entries[l].head.tail = Where(q, 0)
  BY <1>1, HeadIs
<1>3. PICK c, n : c = Firsts(i, l) /\ n = l - i + 1
  OBVIOUS
<1>4. n \in Nat /\ q \in Nat /\ \A m \in 1..n : i + m - 1 \in i..l /\ i + m - 1 \in 1..Count
  BY <1>1, <1>3
<1>5. \A m \in 1..n : OnMedium(i + m - 1)
  BY <1>4 DEF Ends
<1>6. \A m \in 1..n : c[m] = Where(q, 0) <=> m = q - i + 1
  <2> SUFFICES ASSUME NEW m \in 1..n PROVE c[m] = Where(q, 0) <=> m = q - i + 1
    OBVIOUS
  <2>1. c[m] = Where(i + m - 1, 0)
    BY <1>1, <1>3
  <2>2. ring[Where(i + m - 1, 0)].seq = i + m - 1
    BY <1>4, <1>5, ThereIs
  <2>3. q \in 1..Count /\ OnMedium(q)
    BY <1>1 DEF Ends
  <2>4. ring[Where(q, 0)].seq = q
    BY <2>3, ThereIs
  <2>5. c[m] = Where(q, 0) => i + m - 1 = q
    BY <2>1, <2>2, <2>4
  <2>6. (i + m - 1 = q) <=> (m = q - i + 1)
    BY <1>1, <1>4
  <2> QED BY <2>1, <2>5, <2>6
<1>7. PICK first : first = Min({k \in 1..Len(c) : c[k] = ring[Last(c)].tail})
  OBVIOUS
<1>8. first = q - i + 1
  <2>1. q - i + 1 \in 1..n
    BY <1>1, <1>3, <1>4
  <2>2. {k \in 1..Len(c) : c[k] = ring[Last(c)].tail} = {q - i + 1}
    BY <1>1, <1>2, <1>3, <1>6, <2>1
  <2>3. {q - i + 1} \subseteq Nat
    BY <2>1
  <2>4. Min({q - i + 1}) \in {q - i + 1}
    BY <2>3, MinIsOne
  <2> QED BY <1>7, <2>2, <2>4
<1>9. FromTail(c) = [m \in 1..(n - first + 1) |-> [entry |-> ring[c[first + m - 1]], data |-> ring[At(c[first + m - 1] + 1)]]]
  BY <1>1, <1>3, <1>7 DEF FromTail
<1>10. /\ n - first + 1 = l - q + 1 /\ l - q + 1 \in Nat
       /\ \A m \in 1..(l - q + 1) : first + m - 1 \in 1..n /\ i + (first + m - 1) - 1 = q + m - 1
  <2>1. i \in Nat /\ l \in Nat /\ q \in i..l /\ n = l - i + 1 /\ first = q - i + 1
    BY <1>1, <1>3, <1>8
  <2> QED BY ONLY <2>1
<1>11. PICK log : log = FromTail(c)
  OBVIOUS
<1>12. DOMAIN log = 1..(l - q + 1) /\ Len(log) = l - q + 1
  <2>1. PICK k : k = l - q + 1
    OBVIOUS
  <2>2. log = [m \in 1..k |-> log[m]] /\ k \in Nat
    BY <1>9, <1>10, <1>11, <2>1
  <2>3. DOMAIN log = 1..k /\ Len(log) = k
    BY ONLY <2>2
  <2> QED BY <2>1, <2>3
<1>13. ASSUME NEW m \in 1..(l - q + 1)
       PROVE  /\ log[m].entry = entries[q + m - 1].head
              /\ entries[q + m - 1].head.len = 2 => log[m].data = entries[q + m - 1].head.sum[1]
  <2>1. first + m - 1 \in 1..n /\ i + (first + m - 1) - 1 = q + m - 1
    BY <1>10
  <2>2. PICK j : j = q + m - 1
    OBVIOUS
  <2>3. c[first + m - 1] = Where(j, 0) /\ j \in 1..Count /\ OnMedium(j)
    BY <1>1, <1>3, <1>4, <1>5, <2>1, <2>2
  <2>4. log[m] = [entry |-> ring[Where(j, 0)], data |-> ring[At(Where(j, 0) + 1)]]
    BY <1>9, <1>10, <1>11, <2>3
  <2>5. ring[Where(j, 0)] = entries[j].head
    BY <2>3, ThereIs
  <2>6. ASSUME entries[j].head.len = 2 PROVE ring[At(Where(j, 0) + 1)] = entries[j].head.sum[1]
    <3>1. 1 \in 0..entries[j].head.len /\ 1 \in 0..(entries[j].head.len - 1)
      BY <2>6
    <3>2. At(Where(j, 0) + 1) = Where(j, 1)
      BY <2>3, <3>1, WhereNext
    <3>3. ring[Where(j, 1)] = Said(j, 1)
      BY <2>3, <3>1 DEF OnMedium
    <3> QED BY <3>2, <3>3 DEF Said
  <2> QED BY <2>2, <2>4, <2>5, <2>6
<1> QED BY <1>3, <1>11, <1>12, <1>13 DEF Tells

(* A block of which some entries say nothing is where it was before them.   *)
LEMMA Unspoken ==
    ASSUME LogTypes, EntriesKept, HistKept, NEW b \in Blocks, NEW j \in 0..Count, NEW k \in j..Count,
           \A m \in (j + 1)..k : b \notin entries[m].head.zero \cup entries[m].head.desc
    PROVE  hist[Base + k][b] = hist[Base + j][b]
<1> DEFINE S == {x \in j..k : hist[Base + x][b] # hist[Base + j][b]}
<1>1. Count \in Nat /\ j \in Nat /\ k \in Nat /\ Base \in Nat
  <2>1. Count \in Nat
    BY DEF LogTypes, Count
  <2> QED BY <2>1, TablesAre
<1>2. SUFFICES S = {}
  <2>1. k \in j..k
    BY <1>1
  <2> QED BY <1>2, <2>1
<1>3. SUFFICES ASSUME S # {} PROVE FALSE
  OBVIOUS
<1>4. PICK x \in S : \A y \in S : x <= y
  <2>1. S \subseteq Nat
    BY <1>1
  <2> HIDE DEF S
  <2> QED BY <1>3, <2>1, LeastOf
<1>5. x \in j..k /\ hist[Base + x][b] # hist[Base + j][b] /\ x # j
  BY <1>4
<1>6. x \in 1..Count /\ x - 1 \in j..k /\ ~(x <= x - 1) /\ x \in (j + 1)..k /\ Base + (x - 1) = Base + x - 1
  BY ONLY <1>1, <1>5, k \in j..Count
<1>7. hist[Base + (x - 1)][b] = hist[Base + j][b]
  BY <1>4, <1>6
<1>8. Makes(entries[x].head, hist[Base + x - 1], entries[x].table) /\ entries[x].table = hist[Base + x]
  BY <1>6 DEF EntriesKept, EntryKept
<1>9. hist[Base + x][b] = hist[Base + x - 1][b]
  BY <1>6, <1>8 DEF Makes
<1> QED BY <1>5, <1>6, <1>7, <1>9

LEMMA LastDoneOne ==
    ASSUME LogReady
    PROVE  \E d \in 0..Count : LastDone(d)
<1> DEFINE S == {d \in 0..Count : d = 0 \/ Done(d)}
<1>1. Count \in Nat
  BY DEF LogReady, LogTypes, Count
<1>2. S \subseteq Nat /\ (\A x \in S : x <= Count) /\ 0 \in S
  BY <1>1
<1>3. PICK d : d \in S /\ \A x \in S : x <= d
  <2> HIDE DEF S
  <2> QED BY <1>1, <1>2, GreatestOf
<1>4. d \in 0..Count /\ (d = 0 \/ Done(d))
  BY <1>3
<1>5. d # Count => ~Done(d + 1)
  <2>1. d # Count => d + 1 \in 0..Count /\ ~(d + 1 <= d)
    BY <1>1, <1>4
  <2> QED BY <1>3, <2>1
<1> QED BY <1>4, <1>5 DEF LastDone

(* The table, with what is replayed over it, is the last of those that can  *)
(* be read.                                                                 *)
LEMMA OverlayIs ==
    ASSUME LogReady, BatKept, HistKept, NEW l, Reached(l), l > 0, NEW q, q = entries[l].first, NEW log, Tells(log, q, l),
           NEW b \in Blocks
    PROVE  Overlay(log)[b] = hist[Base + l][b]
<1>1. LogTypes /\ EntriesKept /\ InOrder
  BY DEF LogReady
<1>2. Count \in Nat /\ l \in 1..Count /\ l \in Nat /\ q \in 1..l /\ q \in Nat
  <2>1. Count \in Nat
    BY <1>1 DEF LogTypes, Count
  <2>2. l \in 1..Count
    BY <2>1 DEF Reached
  <2> QED BY <2>1, <2>2, HeadIs
<1>3. PICK n : n = l - q + 1
  OBVIOUS
<1>4. /\ n \in Nat \ {0} /\ DOMAIN log = 1..n /\ Len(log) = n
      /\ \A m \in 1..n : /\ q + m - 1 \in q..l /\ q + m - 1 \in 1..Count
                         /\ log[m].entry = entries[q + m - 1].head
                         /\ entries[q + m - 1].head.len = 2 => log[m].data = entries[q + m - 1].head.sum[1]
      /\ \A j \in q..l : j - q + 1 \in 1..n /\ q + (j - q + 1) - 1 = j
  <2>1. /\ n \in Nat \ {0}
        /\ \A m \in 1..n : q + m - 1 \in q..l /\ q + m - 1 \in 1..Count
        /\ \A j \in q..l : j - q + 1 \in 1..n /\ q + (j - q + 1) - 1 = j
    BY <1>2, <1>3
  <2> QED BY <1>3, <2>1 DEF Tells
<1>5. PICK speak : speak = Speaking(log, b)
  OBVIOUS
<1>6. speak = {m \in 1..n : b \in log[m].entry.zero \cup log[m].entry.desc}
  BY <1>4, <1>5 DEF Speaking
<1>7. Overlay(log)[b] = IF speak = {} THEN bat[b] ELSE IF b \in log[Max(speak)].entry.zero THEN 0 ELSE log[Max(speak)].data.place
  BY <1>5 DEF Overlay
<1>8. CASE speak = {}
  <2>1. \A j \in q..l : b \notin entries[j].head.zero \cup entries[j].head.desc
    <3> SUFFICES ASSUME NEW j \in q..l PROVE b \notin entries[j].head.zero \cup entries[j].head.desc
      OBVIOUS
    <3>1. j - q + 1 \in 1..n /\ q + (j - q + 1) - 1 = j
      BY <1>4
    <3>2. log[j - q + 1].entry = entries[j].head
      BY <1>4, <3>1
    <3> QED BY <1>6, <1>8, <3>1, <3>2
  <2>2. PICK d \in 0..Count : LastDone(d)
    BY LastDoneOne
  <2>3. d <= l /\ q - 1 <= d
    <3>1. d = 0 \/ Done(d)
      BY <2>2 DEF LastDone
    <3>2. d <= l
      <4>1. d # 0 => d \in 1..Count /\ ~Issued(d)
        BY <1>2, <3>1 DEF Done, Issued
      <4> QED BY <1>2, <4>1 DEF Reached
    <3>3. ASSUME d < q - 1 PROVE FALSE
      <4>1. d + 1 \in 1..(l - 1) /\ d + 1 < entries[l].first /\ d # Count
        BY <1>2, <3>3
      <4>2. Done(d + 1)
        BY <1>1, <1>2, <4>1 DEF InOrder
      <4> QED BY <2>2, <4>1, <4>2 DEF LastDone
    <3> QED BY <1>2, <3>2, <3>3
  <2>4. \/ bat[b] = hist[Base + d][b]
        \/ d < Count /\ entries[d + 1].state = "applied" /\ bat[b] = hist[Base + d + 1][b]
    BY <2>2 DEF BatKept
  <2>5. ASSUME d < Count, entries[d + 1].state = "applied" PROVE d + 1 <= l
    <3>1. d + 1 \in 1..Count /\ ~Issued(d + 1)
      BY <1>2, <2>5 DEF Issued
    <3> QED BY <3>1 DEF Reached
  <2>6. \A x \in 0..l : q - 1 <= x => hist[Base + l][b] = hist[Base + x][b]
    <3> SUFFICES ASSUME NEW x \in 0..l, q - 1 <= x PROVE hist[Base + l][b] = hist[Base + x][b]
      OBVIOUS
    <3>1. x \in 0..Count /\ l \in x..Count /\ \A m \in (x + 1)..l : m \in q..l
      BY <1>2
    <3>2. \A m \in (x + 1)..l : b \notin entries[m].head.zero \cup entries[m].head.desc
      BY <2>1, <3>1
    <3> QED BY <1>1, <3>1, <3>2, Unspoken
  <2>7. CASE bat[b] = hist[Base + d][b]
    <3>1. d \in 0..l
      BY <1>2, <2>3
    <3> QED BY <1>7, <1>8, <2>3, <2>6, <2>7, <3>1
  <2>8. CASE d < Count /\ entries[d + 1].state = "applied" /\ bat[b] = hist[Base + d + 1][b]
    <3>1. d + 1 \in 0..l /\ q - 1 <= d + 1
      BY <1>2, <2>3, <2>5, <2>8
    <3>2. Base + (d + 1) = Base + d + 1
      <4>1. Base \in Nat
        BY <1>1, <1>2, TablesAre
      <4> QED BY <4>1
    <3>3. hist[Base + l][b] = hist[Base + (d + 1)][b]
      BY <2>6, <3>1
    <3> QED BY <1>7, <1>8, <2>8, <3>2, <3>3
  <2> QED BY <2>4, <2>7, <2>8
<1>9. CASE speak # {}
  <2>1. PICK m : m = Max(speak)
    OBVIOUS
  <2>2. m \in speak /\ \A x \in speak : x <= m
    <3>1. speak \subseteq Nat /\ \A x \in speak : x <= n
      BY <1>4, <1>6
    <3> QED BY <1>4, <1>9, <2>1, <3>1, GreatestOf
  <2>3. m \in 1..n /\ b \in log[m].entry.zero \cup log[m].entry.desc
    BY <1>6, <2>2
  <2>4. PICK j : j = q + m - 1
    OBVIOUS
  <2>5. /\ j \in q..l /\ j \in 1..Count /\ log[m].entry = entries[j].head
        /\ entries[j].head.len = 2 => log[m].data = entries[j].head.sum[1]
    BY <1>4, <2>3, <2>4
  <2>6. EntryKept(entries[j], j)
    BY <1>1, <2>5 DEF EntriesKept
  <2>7. hist[Base + j][b] = IF b \in entries[j].head.zero THEN 0
                            ELSE IF b \in entries[j].head.desc THEN entries[j].head.sum[1].place ELSE hist[Base + j - 1][b]
    BY <2>6 DEF EntryKept, Makes
  <2>8. b \in entries[j].head.desc => entries[j].head.len = 2
    <3>1. HeadKept(entries[j].head, j)
      BY <2>6 DEF EntryKept
    <3>2. PICK head : head = entries[j].head
      OBVIOUS
    <3>3. head.desc = {} \/ head.len = 2
      BY <3>1, <3>2 DEF HeadKept
    <3> QED BY <3>2, <3>3
  <2>9. Overlay(log)[b] = hist[Base + j][b]
    BY <1>7, <1>9, <2>1, <2>3, <2>5, <2>7, <2>8
  <2>10. \A x \in (j + 1)..l : b \notin entries[x].head.zero \cup entries[x].head.desc
    <3> SUFFICES ASSUME NEW x \in (j + 1)..l, b \in entries[x].head.zero \cup entries[x].head.desc PROVE FALSE
      OBVIOUS
    <3>1. x \in q..l /\ j < x
      BY <1>2, <2>5
    <3>2. PICK y : y = x - q + 1
      OBVIOUS
    <3>3. y \in 1..n /\ q + y - 1 = x
      BY <1>4, <3>1, <3>2
    <3>4. log[y].entry = entries[x].head
      BY <1>4, <3>3
    <3>5. y \in speak
      BY <1>6, <3>3, <3>4
    <3>6. y <= m
      BY <2>2, <3>5
    <3> QED BY <1>2, <2>3, <2>4, <3>1, <3>3, <3>6
  <2>11. j \in 0..Count /\ l \in j..Count
    BY <1>2, <2>5
  <2>12. hist[Base + l][b] = hist[Base + j][b]
    BY <1>1, <2>10, <2>11, Unspoken
  <2> QED BY <2>9, <2>12
<1> QED BY <1>8, <1>9

-----------------------------------------------------------------------------
(* How far the file reaches: as far as it does, and each entry that is read *)
(* says.                                                                    *)
LEMMA SumsBound ==
    ASSUME NEW n \in Nat, NEW f, Numbered(f, n)
    PROVE  SumTo(f, n) \in Nat /\ \A j \in 1..n : f[j] <= SumTo(f, n)
<1>1. SumTo(f, n) \in Nat
  BY SumToIs
<1>2. ASSUME NEW j \in 1..n PROVE f[j] <= SumTo(f, n)
  <2>1. PICK k : k = j - 1
    OBVIOUS
  <2>2. k \in Nat /\ k + 1 = j /\ j \in 0..n /\ n \in j..n
    BY <2>1
  <2>3. Numbered(f, k + 1)
    BY <2>2 DEF Numbered
  <2>4. SumTo(f, k) \in Nat /\ SumTo(f, k + 1) = SumTo(f, k) + f[k + 1]
    BY <2>2, <2>3, SumToNext
  <2>5. SumTo(f, j) <= SumTo(f, n)
    BY <2>2, SumToGrows
  <2>6. f[j] \in Nat
    BY DEF Numbered
  <2>7. PICK a, b, c, d : a = SumTo(f, k) /\ b = SumTo(f, j) /\ c = SumTo(f, n) /\ d = f[j]
    OBVIOUS
  <2>8. a \in Nat /\ d \in Nat /\ c \in Nat /\ b = a + d /\ b <= c
    BY <1>1, <2>2, <2>4, <2>5, <2>6, <2>7
  <2>9. d <= c
    BY ONLY <2>8
  <2> QED BY <2>7, <2>9
<1> QED BY <1>1, <1>2

LEMMA ExtentIs ==
    ASSUME size \in Nat, NEW log, NEW n \in Nat, DOMAIN log = 1..n, \A m \in 1..n : log[m].entry.last \in Nat
    PROVE  /\ Extent(log) \in Nat /\ size <= Extent(log)
           /\ \A m \in 1..n : log[m].entry.last <= Extent(log)
<1>1. PICK S : S = {size} \cup {e.entry.last : e \in ToSet(log)}
  OBVIOUS
<1>2. S = {size} \cup {log[m].entry.last : m \in 1..n}
  BY <1>1 DEF ToSet
<1>3. S \subseteq Nat /\ S # {}
  BY <1>2
<1>4. PICK f : f = [m \in 1..n |-> log[m].entry.last]
  OBVIOUS
<1>5. Numbered(f, n)
  BY <1>4 DEF Numbered
<1>6. PICK sum \in Nat : \A m \in 1..n : f[m] <= sum
  BY <1>5, SumsBound
<1>7. PICK bound \in Nat : size <= bound /\ \A m \in 1..n : f[m] <= bound
  <2>1. size + sum \in Nat /\ size <= size + sum
    OBVIOUS
  <2>2. ASSUME NEW m \in 1..n PROVE f[m] <= size + sum
    <3>1. f[m] \in Nat /\ f[m] <= sum
      BY <1>5, <1>6 DEF Numbered
    <3>2. PICK x : x = f[m]
      OBVIOUS
    <3>3. x <= size + sum
      BY <3>1, <3>2
    <3> QED BY <3>2, <3>3
  <2> QED BY <2>1, <2>2
<1>8. \A x \in S : x <= bound
  BY <1>2, <1>4, <1>7
<1>9. Max(S) \in S /\ \A x \in S : x <= Max(S)
  BY <1>3, <1>8, GreatestOf
<1>10. Extent(log) = Max(S)
  BY <1>1 DEF Extent
<1> QED BY <1>2, <1>3, <1>9, <1>10

-----------------------------------------------------------------------------
(* What the reader makes of the file.  Without a log it is the last of the  *)
(* tables, and with one it is the last that can be read.                    *)
Gives(table) == [refused |-> "", table |-> table]

LEMMA ReadGives ==
    ASSUME NEW log, NEW k \in Nat, hist[k] \in Tables,
           \A b \in Blocks : Overlay(log)[b] = hist[k][b] /\ ~(hist[k][b] > Extent(log)),
           log = <<>> \/ ~(size < Last(log).entry.flushed)
    PROVE  Read(log) = Gives(hist[k])
<1>1. Overlay(log) = [b \in Blocks |-> Overlay(log)[b]]
  BY DEF Overlay
<1>2. hist[k] = [b \in Blocks |-> hist[k][b]]
  BY DEF Tables
<1>3. Overlay(log) = hist[k]
  BY <1>1, <1>2
<1> QED BY <1>3 DEF Read, Gives

LEMMA ReadNothing ==
    ASSUME LogTypes, EntriesKept, HistKept, SizeKept, BatKept, AllDone
    PROVE  Read(<<>>) = Gives(hist[Len(hist)])
<1>1. Len(hist) \in Nat /\ hist[Len(hist)] \in Tables
  <2>1. Count \in 0..Count
    BY DEF LogTypes, Count
  <2> QED BY <2>1, TablesAre
<1>2. size \in Nat /\ stable \in Nat /\ stable <= size
  BY DEF LogTypes, SizeKept
<1>3. Extent(<<>>) \in Nat /\ size <= Extent(<<>>)
  <2>1. DOMAIN <<>> = 1..0 /\ 0 \in Nat /\ \A m \in 1..0 : <<>>[m].entry.last \in Nat
    OBVIOUS
  <2> QED BY <1>2, <2>1, ExtentIs
<1>4. ASSUME NEW b \in Blocks PROVE Overlay(<<>>)[b] = hist[Len(hist)][b] /\ ~(hist[Len(hist)][b] > Extent(<<>>))
  <2>1. Speaking(<<>>, b) = {}
    BY DEF Speaking
  <2>2. Overlay(<<>>)[b] = bat[b]
    BY <2>1 DEF Overlay
  <2>3. bat[b] = hist[Len(hist)][b] /\ hist[Len(hist)][b] <= stable
    BY AllDoneIs
  <2>4. hist[Len(hist)][b] \in Nat
    BY <1>1 DEF Tables
  <2>5. PICK x, y : x = hist[Len(hist)][b] /\ y = Extent(<<>>)
    OBVIOUS
  <2>6. x \in Nat /\ y \in Nat /\ x <= stable /\ size <= y
    BY <1>3, <2>3, <2>4, <2>5
  <2>7. ~(x > y)
    BY ONLY <1>2, <2>6
  <2> QED BY <2>2, <2>3, <2>5, <2>7
<1>5. PICK log : log = <<>>
  OBVIOUS
<1>6. Read(log) = Gives(hist[Len(hist)])
  BY <1>1, <1>4, <1>5, ReadGives
<1> QED BY <1>5, <1>6

LEMMA ReadLog ==
    ASSUME LogReady, BatKept, HistKept, SizeKept, NEW l, Reached(l), l > 0, NEW q, q = entries[l].first,
           NEW log, Tells(log, q, l)
    PROVE  log # <<>> /\ Read(log) = Gives(hist[Base + l])
<1>1. LogTypes /\ EntriesKept
  BY DEF LogReady
<1>2. l \in 1..Count /\ q \in 1..l /\ l \in Nat /\ l \in 0..Count
  <2>1. Count \in Nat
    BY <1>1 DEF LogTypes, Count
  <2>2. l \in 1..Count
    BY <2>1 DEF Reached
  <2> QED BY <2>1, <2>2, HeadIs
<1>3. PICK n : n = l - q + 1
  OBVIOUS
<1>4. n \in Nat /\ n \in 1..n /\ q + n - 1 = l /\ \A m \in 1..n : q + m - 1 \in 1..Count
  <2>1. Count \in Nat
    BY <1>1 DEF LogTypes, Count
  <2> QED BY <1>2, <1>3, <2>1
<1>5. DOMAIN log = 1..n /\ Len(log) = n /\ log # <<>> /\ \A m \in 1..n : log[m].entry = entries[q + m - 1].head
  <2>1. DOMAIN log = 1..n /\ Len(log) = n /\ \A m \in 1..n : log[m].entry = entries[q + m - 1].head
    BY <1>3 DEF Tells
  <2>2. Len(<<>>) = 0
    OBVIOUS
  <2>3. n # 0
    BY <1>4
  <2> QED BY <2>1, <2>2, <2>3
<1>6. Last(log).entry = entries[l].head
  BY <1>4, <1>5 DEF Last
<1>7. EntryKept(entries[l], l) /\ entries[l].head.last \in Nat
  BY <1>1, <1>2, EntryIs
<1>8. ~(size < Last(log).entry.flushed)
  <2>1. PICK head : head = entries[l].head
    OBVIOUS
  <2>2. HeadKept(head, l)
    BY <1>7, <2>1 DEF EntryKept
  <2>3. head.flushed \in Nat /\ head.flushed <= stable
    BY <2>2 DEF HeadKept
  <2>4. size \in Nat /\ stable \in Nat /\ stable <= size
    BY <1>1 DEF LogTypes, SizeKept
  <2>5. PICK x : x = head.flushed
    OBVIOUS
  <2>6. x \in Nat /\ x <= stable
    BY <2>3, <2>5
  <2>7. ~(size < x)
    BY ONLY <2>4, <2>6
  <2> QED BY <1>6, <2>1, <2>5, <2>7
<1>9. Extent(log) \in Nat /\ entries[l].head.last <= Extent(log)
  <2>1. ASSUME NEW m \in 1..n PROVE log[m].entry.last \in Nat
    <3>1. q + m - 1 \in 1..Count
      BY <1>4
    <3>2. entries[q + m - 1].head.last \in Nat
      BY <1>1, <3>1, EntryIs
    <3> QED BY <1>5, <3>2
  <2>2. size \in Nat
    BY <1>1 DEF LogTypes
  <2>3. /\ Extent(log) \in Nat /\ \A m \in 1..n : log[m].entry.last <= Extent(log)
    BY <1>4, <1>5, <2>1, <2>2, ExtentIs
  <2>4. log[n].entry = entries[l].head
    BY <1>4, <1>5
  <2> QED BY <1>4, <2>3, <2>4
<1>10. hist[Base + l] \in Tables /\ Base + l \in Nat
  <2>1. Base + l \in 1..Len(hist) /\ hist[Base + l] \in Tables
    BY <1>1, <1>2, TablesAre
  <2> QED BY <1>1, <2>1 DEF LogTypes
<1>11. ASSUME NEW b \in Blocks PROVE Overlay(log)[b] = hist[Base + l][b] /\ ~(hist[Base + l][b] > Extent(log))
  <2>1. Overlay(log)[b] = hist[Base + l][b]
    BY OverlayIs
  <2>2. hist[Base + l][b] <= entries[l].head.last
    BY <1>7 DEF EntryKept, Makes
  <2>3. hist[Base + l][b] \in Nat
    BY <1>10 DEF Tables
  <2>4. PICK x, y, z : x = hist[Base + l][b] /\ y = entries[l].head.last /\ z = Extent(log)
    OBVIOUS
  <2>5. x \in Nat /\ y \in Nat /\ z \in Nat /\ x <= y /\ y <= z
    BY <1>7, <1>9, <2>2, <2>3, <2>4
  <2>6. ~(x > z)
    BY ONLY <2>5
  <2> QED BY <2>1, <2>4, <2>6
<1>12. PICK k : k = Base + l
  OBVIOUS
<1>13. Read(log) = Gives(hist[k])
  BY <1>8, <1>10, <1>11, <1>12, ReadGives
<1> QED BY <1>5, <1>12, <1>13

(* The current header is the newest of those that are whole.                *)
LEMMA CurrentIs ==
    ASSUME LogTypes, NEW h \in 1..2, NEW guid, Newest(h, guid)
    PROVE  Matching # {} /\ headers[Current].guid = guid
<1> DEFINE First(x) == \A y \in Matching : headers[y].seq <= headers[x].seq /\ (headers[y].seq = headers[x].seq => x <= y)
<1>1. h \in Matching /\ headers[h].guid = guid /\ headers[3 - h].seq < headers[h].seq
  BY DEF Newest, Matching
<1>2. PICK x, y : x = headers[h].seq /\ y = headers[3 - h].seq
  OBVIOUS
<1>3. 3 - h \in 1..2 /\ \A z \in 1..2 : z = h \/ z = 3 - h
  OBVIOUS
<1>4. x \in Nat /\ y \in Nat /\ y < x
  BY <1>1, <1>2, <1>3, HeadersAre DEF HeaderRecords
<1>5. First(h)
  <2> SUFFICES ASSUME NEW z \in Matching PROVE headers[z].seq <= headers[h].seq /\ (headers[z].seq = headers[h].seq => h <= z)
    OBVIOUS
  <2>1. y <= x /\ y # x /\ x <= x /\ h <= h
    BY <1>4
  <2>2. z = h \/ z = 3 - h
    BY <1>3 DEF Matching
  <2> QED BY <1>2, <2>1, <2>2
<1>6. \A z \in Matching : First(z) => z = h
  <2> SUFFICES ASSUME NEW z \in Matching, First(z), z # h PROVE FALSE
    OBVIOUS
  <2>1. z = 3 - h
    BY <1>3 DEF Matching
  <2>2. x <= y
    BY <1>1, <1>2, <2>1
  <2> QED BY <1>4, <2>2
<1>7. Current = CHOOSE z \in Matching : First(z)
  BY DEF Current
<1>8. Current = h
  <2> HIDE DEF First
  <2> QED BY <1>1, <1>5, <1>6, <1>7
<1> QED BY <1>1, <1>8

(* It says that there is no log, and all is in the table, or which log      *)
(* there is.                                                                *)
LEMMA HeaderSays ==
    ASSUME LogTypes, PhaseKept
    PROVE  \E h \in 1..2 : \E guid : Newest(h, guid) /\ ((guid = 0 /\ AllDone) \/ (guid = session /\ session # 0))
<1>1. session \in Nat /\ (phase # "closed" => session # 0)
  BY DEF LogTypes, PhaseKept
<1>2. entries = <<>> => AllDone
  BY DEF AllDone, Count
<1> QED BY <1>1, <1>2 DEF PhaseKept, Turning

(* The table that is read is that of entry l, or the one before the first.  *)
Shows(l) ==
    /\ l \in 0..Count
    /\ Reaches(l)
    /\ l < Count => ~OnMedium(l + 1)
    /\ \A j \in 1..Count : ~Issued(j) => j <= l

LEMMA ReachedShows ==
    ASSUME LogReady, NEW l, Reached(l)
    PROVE  Shows(l)
<1>1. ASSUME NEW i \in 1..l, Issued(i) PROVE OnMedium(i)
  <2>1. Count \in Nat /\ l \in 0..Count
    BY DEF LogReady, LogTypes, Count, Reached
  <2>2. i \in 1..Count /\ i \in Nat /\ l \in Nat
    BY <2>1
  <2>3. Kept \in Nat \ {0} /\ Kept <= i
    BY <1>1, <2>2, KeptIs DEF LogReady
  <2>4. i \in Kept..l
    BY <2>1, <2>2, <2>3
  <2> QED BY <2>4 DEF Reached
<1> QED BY <1>1 DEF Reached, Shows, Reaches

LEMMA AllShows ==
    ASSUME LogTypes, AllDone
    PROVE  Shows(Count)
<1>1. Count \in Nat
  BY DEF LogTypes, Count
<1>2. \A j \in 1..Count : ~Issued(j) /\ j <= Count
  BY <1>1 DEF AllDone, Done, Issued
<1>3. Count \in 0..Count /\ ~(Count < Count)
  BY <1>1
<1> QED BY <1>2, <1>3 DEF Shows, Reaches

LEMMA LookIs ==
    ASSUME LogInv
    PROVE  \/ \E l : Shows(l) /\ Look = Gives(hist[Base + l])
           \/ Look = Refuse("no sequence") /\ \A i \in 1..Count : Issued(i)
<1>1. LogReady /\ LogTypes /\ EntriesKept /\ BatKept /\ HistKept /\ SizeKept /\ PhaseKept
  BY DEF LogInv, LogReady
<1>2. PICK h \in 1..2 : \E guid : Newest(h, guid) /\ ((guid = 0 /\ AllDone) \/ (guid = session /\ session # 0))
  BY <1>1, HeaderSays
<1>3. PICK guid : Newest(h, guid) /\ ((guid = 0 /\ AllDone) \/ (guid = session /\ session # 0))
  BY <1>2
<1>4. Matching # {} /\ headers[Current].guid = guid
  BY <1>1, <1>3, CurrentIs
<1>5. CASE guid = 0 /\ AllDone
  <2>1. Look = Read(<<>>)
    BY <1>5, <1>4 DEF Look
  <2>2. Read(<<>>) = Gives(hist[Len(hist)])
    BY <1>1, <1>5, ReadNothing
  <2>3. Shows(Count)
    BY <1>1, <1>5, AllShows
  <2>4. Base + Count = Len(hist)
    <3>1. Count \in 0..Count
      BY <1>1 DEF LogTypes, Count
    <3> QED BY <1>1, <3>1, TablesAre
  <2> QED BY <2>1, <2>2, <2>3, <2>4
<1>6. CASE guid = session /\ session # 0
  <2>1. PICK log : log = FromTail(Active(session))
    OBVIOUS
  <2>2. Look = IF log = <<>> THEN Refuse("no sequence") ELSE Read(log)
    BY <1>6, <1>4, <2>1 DEF Look
  <2>3. PICK l : Reached(l)
    BY <1>1, ReachOne
  <2>4. Count \in Nat /\ l \in 0..Count
    BY <1>1, <2>3 DEF LogTypes, Count, Reached
  <2>5. CASE l = 0
    <3>1. Active(session) = <<>>
      BY <1>1, <2>3, <2>5, ActiveIs
    <3>2. log = <<>>
      BY <2>1, <3>1 DEF FromTail
    <3>3. \A i \in 1..Count : Issued(i)
      <4>1. \A i \in 1..Count : ~(i <= 0)
        BY <2>4
      <4> QED BY <2>3, <2>5, <4>1 DEF Reached
    <3> QED BY <2>2, <3>2, <3>3
  <2>6. CASE l > 0
    <3>1. PICK i : Ends(i, l) /\ entries[l].first \in i..l /\ Active(session) = Firsts(i, l)
      BY <1>1, <2>3, <2>6, ActiveIs
    <3>2. PICK q : q = entries[l].first
      OBVIOUS
    <3>3. Tells(log, q, l)
      BY <1>1, <2>1, <3>1, <3>2, FromTailIs
    <3>4. log # <<>> /\ Read(log) = Gives(hist[Base + l])
      BY <1>1, <2>3, <2>6, <3>2, <3>3, ReadLog
    <3>5. Shows(l)
      BY <1>1, <2>3, ReachedShows
    <3> QED BY <2>2, <3>4, <3>5
  <2>7. l = 0 \/ l > 0
    BY <2>4
  <2> QED BY <2>5, <2>6, <2>7
<1> QED BY <1>3, <1>5, <1>6

(* A table that is shown is one that is safe, or a later one, and none      *)
(* before one that was shown.                                               *)
LEMMA ShowsEnough ==
    ASSUME LogInv, NEW l, Shows(l)
    PROVE  /\ Base + l \in 1..Len(hist) /\ shown \in Nat \ {0} /\ shown <= Base + l
           /\ safe \in Nat /\ safe <= Base + l /\ Base + l \in Nat
<1>1. LogTypes /\ HistKept /\ SafeKept /\ ShownKept
  BY DEF LogInv
<1>2. l \in 0..Count
  BY DEF Shows
<1>3. Base + l \in 1..Len(hist) /\ Base \in Nat \ {0} /\ Base + Count = Len(hist) /\ Count \in Nat /\ l \in Nat
  BY <1>1, <1>2, TablesAre
<1>4. Len(hist) \in Nat /\ shown \in Nat /\ shown > 0 /\ safe \in 1..Len(hist)
  BY <1>1 DEF LogTypes, SafeKept, ShownKept
<1>5. l # Count => l + 1 \in 1..Count /\ ~(l + 1 <= l) /\ l < Count
  BY <1>2, <1>3
<1>6. l # Count => Issued(l + 1) /\ ~OnMedium(l + 1)
  BY <1>5 DEF Shows
<1>7. safe <= Base + l
  <2>1. l # Count => safe < Base + (l + 1)
    BY <1>1, <1>5, <1>6 DEF SafeKept
  <2>2. safe \in Nat /\ safe <= Len(hist)
    BY <1>4
  <2> QED BY ONLY <1>3, <1>4, <2>1, <2>2
<1>8. PICK k \in 0..Count : shown <= Base + k /\ Reaches(k)
  BY <1>1 DEF ShownKept
<1>9. k <= l
  <2> SUFFICES ASSUME ~(k <= l) PROVE FALSE
    OBVIOUS
  <2>1. l # Count /\ l + 1 \in 1..k
    BY <1>2, <1>3
  <2>2. OnMedium(l + 1)
    BY <1>6, <1>8, <2>1 DEF Reaches
  <2> QED BY <1>6, <2>1, <2>2
<1>10. shown <= Base + l
  BY ONLY <1>3, <1>4, <1>8, <1>9, k \in 0..Count
<1> QED BY <1>3, <1>4, <1>7, <1>10

LEMMA OpenCopyShows ==
    ASSUME LogInv, OpenCopy
    PROVE  \E l : Shows(l) /\ shown' = Base + l
<1>1. Look.refused = "" /\ shown' = IF Look.table \in Range(hist) THEN CHOOSE k \in 1..Len(hist) : hist[k] = Look.table ELSE 0
  BY DEF OpenCopy
<1>2. PICK l : Shows(l) /\ Look = Gives(hist[Base + l])
  <2>1. Refuse("no sequence").refused # ""
    BY DEF Refuse
  <2> QED BY <1>1, <2>1, LookIs
<1>3. Base + l \in 1..Len(hist)
  BY <1>2, ShowsEnough
<1>4. Look.table = hist[Base + l]
  BY <1>2 DEF Gives
<1>5. hist \in Seq(Tables) /\ \A i, j \in 1..Len(hist) : hist[i] = hist[j] => i = j
  BY DEF LogInv, LogTypes, HistKept
<1>6. hist[Base + l] \in Range(hist)
  BY <1>3, <1>5 DEF Range
<1>7. (CHOOSE k \in 1..Len(hist) : hist[k] = Look.table) = Base + l
  BY <1>3, <1>4, <1>5
<1> QED BY <1>1, <1>2, <1>4, <1>6, <1>7

(* What is read changes nothing of the disk.                                *)
LEMMA DiskStays ==
    ASSUME LogInv, UNCHANGED disk, LogTypes', ShownKept'
    PROVE  LogInv'
<1>1. /\ UNCHANGED <<ring, bat, size, headers, pending, entries, session, phase, places, extended, stable, hist, safe>>
  BY DEF disk
<1>2. EntriesKept' /\ SizeKept' /\ HistKept'
  <2>1. LogTypes /\ EntriesKept /\ SizeKept /\ HistKept
    BY DEF LogInv
  <2>2. stable <= stable' /\ extended <= extended'
    BY <1>1, <2>1 DEF LogTypes
  <2>3. EntriesKept'
    BY <1>1, <2>1, <2>2, EntriesStay
  <2>4. HistKept'
    BY <1>1, <2>1, <2>2, HistStays
  <2>5. SizeKept'
    BY <1>1, <2>1 DEF SizeKept, Writing
  <2> QED BY <2>3, <2>4, <2>5
<1>3. InOrder' /\ Room' /\ RingKept' /\ SafeKept'
  BY <1>1, OrderStays, RingStays DEF LogInv
<1>4. LogLanded' /\ BatKept'
  BY <1>1, WritesStay DEF LogInv
<1>5. PhaseKept'
  <2>1. Count' = Count /\ Base' = Base
    BY <1>1 DEF Count, Base
  <2>2. \A w : RingWrite(w)' = RingWrite(w) /\ BatWrite(w)' = BatWrite(w) /\ SizeWrite(w)' = SizeWrite(w)
    BY <1>1, <2>1 DEF RingWrite, BatWrite, SizeWrite, Writing, Issued, Where, Said
  <2>3. AllDone' = AllDone
    BY <1>1, <2>1 DEF AllDone, Done
  <2> QED BY <1>1, <2>2, <2>3 DEF LogInv, PhaseKept, Turning, Newest, Writing
<1> QED BY <1>2, <1>3, <1>4, <1>5 DEF LogInv

LEMMA OpenCopyKeeps == LogInv /\ OpenCopy => LogInv'
<1> SUFFICES ASSUME LogInv, OpenCopy PROVE LogInv'
  OBVIOUS
<1>1. UNCHANGED disk
  BY DEF OpenCopy
<1>2. PICK l : Shows(l) /\ shown' = Base + l
  BY OpenCopyShows
<1>3. Base + l \in Nat \ {0}
  BY <1>2, ShowsEnough
<1>4. LogTypes'
  BY <1>1, <1>2, <1>3 DEF LogInv, LogTypes, disk
<1>5. ShownKept'
  <2>1. Count' = Count /\ Base' = Base /\ (\A k : Reaches(k)' = Reaches(k))
    BY <1>1 DEF Count, Base, Reaches, OnMedium, Issued, Where, Said, disk
  <2> QED BY <1>2, <1>3, <2>1 DEF ShownKept, Shows
<1> QED BY <1>1, <1>4, <1>5, DiskStays

LEMMA NothingKeeps == LogInv /\ UNCHANGED vars => LogInv'
<1> SUFFICES ASSUME LogInv, UNCHANGED vars PROVE LogInv'
  OBVIOUS
<1>1. UNCHANGED disk /\ UNCHANGED shown
  BY DEF vars
<1>2. LogTypes'
  BY <1>1 DEF LogInv, LogTypes, disk
<1>3. ShownKept'
  BY <1>1, RingStays DEF LogInv, disk
<1> QED BY <1>1, <1>2, <1>3, DiskStays

-----------------------------------------------------------------------------
(* A file that was never opened for writing.                                *)
LEMMA DiskInitKept == Init => LogInv
<1> SUFFICES ASSUME Init PROVE LogInv
  OBVIOUS
<1>1. PICK none : none = [b \in Blocks |-> 0]
  OBVIOUS
<1>2. none \in Tables /\ \A b \in Blocks : none[b] = 0
  BY <1>1 DEF Tables
<1>3. /\ ring = [x \in Ring |-> Blank] /\ bat = none /\ hist = <<none>>
      /\ size = 0 /\ extended = 0 /\ stable = 0 /\ places = 0 /\ session = 0 /\ safe = 1 /\ shown = 1
      /\ headers = <<[seq |-> 1, guid |-> 0, ok |-> TRUE], [seq |-> 0, guid |-> 0, ok |-> TRUE]>>
      /\ pending = {} /\ entries = <<>> /\ phase = "closed"
  BY <1>1 DEF Init, DiskInit
<1>4. Count = 0 /\ Base = 1 /\ Len(hist) = 1 /\ hist[1] = none /\ 1..Count = {} /\ 0..Count = {0}
  BY <1>3 DEF Count, Base
<1>5. LogTypes
  <2>1. headers \in Seq(HeaderRecords) /\ Len(headers) = 2
    BY <1>3 DEF HeaderRecords
  <2>2. hist \in Seq(Tables)
    BY <1>2, <1>3
  <2>3. entries \in Seq(Entries)
    BY <1>3
  <2> QED BY <1>2, <1>3, <2>1, <2>2, <2>3 DEF LogTypes
<1>6. EntriesKept /\ InOrder
  BY <1>4 DEF EntriesKept, InOrder
<1>7. Kept..Count = {}
  <2>1. Kept \in Nat \ {0}
    BY <1>5, <1>6, KeptIs
  <2> QED BY <1>4, <2>1
<1>8. Room /\ LogLanded
  BY <1>7 DEF Room, LogLanded
<1>9. RingKept
  BY <1>3 DEF RingKept, Blank
<1>10. BatKept
  <2>1. bat = hist[Base + 0] /\ ~(0 < Count)
    BY <1>3, <1>4
  <2> QED BY <1>4, <2>1 DEF BatKept
<1>11. SizeKept
  BY <1>3 DEF SizeKept
<1>12. HistKept
  <2>1. \A i, j \in 1..Len(hist) : i = j
    BY <1>4
  <2>2. \A b \in Blocks : hist[Base][b] <= stable /\ hist[Len(hist)][b] <= places
    BY <1>2, <1>3, <1>4
  <2> QED BY <1>4, <2>1, <2>2 DEF HistKept
<1>13. PhaseKept
  <2>1. Newest(1, 0)
    BY <1>3 DEF Newest
  <2>2. AllDone
    BY <1>4 DEF AllDone
  <2> QED BY <1>3, <2>1, <2>2 DEF PhaseKept
<1>14. SafeKept
  BY <1>3, <1>4 DEF SafeKept
<1>15. ShownKept
  <2>1. Reaches(0)
    BY DEF Reaches
  <2> QED BY <1>3, <1>4, <2>1 DEF ShownKept
<1> QED BY <1>5, <1>6, <1>8, <1>9, <1>10, <1>11, <1>12, <1>13, <1>14, <1>15 DEF LogInv

LEMMA StepKeeps == LogInv /\ [Next]_vars => LogInv'
<1> SUFFICES ASSUME LogInv, [Next]_vars PROVE LogInv'
  OBVIOUS
<1>1. CASE UNCHANGED vars
  BY <1>1, NothingKeeps
<1>2. CASE OpenCopy
  BY <1>2, OpenCopyKeeps
<1>3. CASE DiskNext /\ UNCHANGED shown
  <2>1. CASE OpenToWrite
    BY <1>3, <2>1, OpenKeeps
  <2>2. CASE Close
    BY <1>3, <2>2, CloseKeeps
  <2>3. CASE Extend
    BY <1>3, <2>3, ExtendKeeps
  <2>4. CASE Apply
    BY <1>3, <2>4, ApplyKeeps
  <2>5. CASE Land
    BY <1>3, <2>5, LandKeeps
  <2>6. CASE HeaderTorn
    BY <1>3, <2>6, HeaderTornKeeps
  <2>7. CASE Flush
    BY <1>3, <2>7, FlushKeeps
  <2>8. ASSUME NEW blocks \in SUBSET Blocks, NEW new \in blocks \cup {0}, Log(blocks, new) PROVE LogInv'
    BY <1>3, <2>8, LogKeeps
  <2> QED BY <1>3, <2>1, <2>2, <2>3, <2>4, <2>5, <2>6, <2>7, <2>8 DEF DiskNext
<1> QED BY <1>1, <1>2, <1>3 DEF Next

(* Whatever its writer had put on the medium when it stopped, the log, the  *)
(* table, the headers and the file's size are as LogInv says.               *)
THEOREM LogIsKept == Spec => []LogInv
<1> QED BY DiskInitKept, StepKeeps, PTL DEF Spec

(* A file that a writer of VHDX left at any moment is refused only between  *)
(* the header that opens a log and the log's first entry (_vhdx_replay,     *)
(* _index_vhdx).                                                            *)
THEOREM LogRefusedOnlyBeforeFirstEntry == Spec => []RefusedOnlyBeforeFirstEntry
<1>1. LogInv => RefusedOnlyBeforeFirstEntry
  <2> SUFFICES ASSUME LogInv PROVE RefusedOnlyBeforeFirstEntry
    OBVIOUS
  <2>1. CASE \E l : Shows(l) /\ Look = Gives(hist[Base + l])
    <3>1. PICK l : Look = Gives(hist[Base + l])
      BY <2>1
    <3>2. Gives(hist[Base + l]).refused = ""
      BY DEF Gives
    <3>3. Look.refused = ""
      BY <3>1, <3>2
    <3> QED BY <3>3 DEF RefusedOnlyBeforeFirstEntry
  <2>2. CASE Look = Refuse("no sequence") /\ \A i \in 1..Count : Issued(i)
    <3>1. Look.refused = "no sequence"
      BY <2>2 DEF Refuse
    <3> QED BY <2>2, <3>1 DEF RefusedOnlyBeforeFirstEntry, Issued, Count
  <2> QED BY <2>1, <2>2, LookIs
<1> QED BY <1>1, LogIsKept, PTL

-----------------------------------------------------------------------------
(* Every step is one of the store's, or none.                               *)
LEMMA StoreBegins == Init => Store!Init
<1> SUFFICES ASSUME Init PROVE Store!Init
  OBVIOUS
<1>1. Len(hist) = 1 /\ safe = 1 /\ shown = 1
  BY DEF Init, DiskInit
<1> QED BY <1>1 DEF Store!Init

LEMMA StoreSteps == LogInv /\ [Next]_vars => [Store!Next]_(Store!vars)
<1> SUFFICES ASSUME LogInv, [Next]_vars PROVE Store!Next \/ UNCHANGED <<Len(hist), safe, shown>>
  BY DEF Store!vars
<1>1. hist \in Seq(Tables) /\ Len(hist) \in Nat /\ safe \in 1..Len(hist)
  BY DEF LogInv, LogTypes, SafeKept
<1>2. CASE UNCHANGED vars
  BY <1>2 DEF vars, disk
<1>3. CASE OpenCopy
  <2>1. PICK l : Shows(l) /\ shown' = Base + l
    BY <1>3, OpenCopyShows
  <2>2. /\ Base + l \in 1..Len(hist) /\ shown \in Nat \ {0} /\ shown <= Base + l
        /\ safe \in Nat /\ safe <= Base + l /\ Base + l \in Nat
    BY <2>1, ShowsEnough
  <2>3. PICK x : x = Base + l
    OBVIOUS
  <2>4. x \in shown..Len(hist) /\ x >= safe
    BY <1>1, <2>2, <2>3
  <2>5. hist' = hist /\ safe' = safe
    BY <1>3 DEF OpenCopy, disk
  <2> QED BY <2>1, <2>3, <2>4, <2>5 DEF Store!Next, Store!Show
<1>4. CASE Flush /\ UNCHANGED shown
  <2>1. hist' = hist /\ safe' = Len(hist) /\ shown' = shown
    BY <1>4 DEF Flush
  <2>2. safe = Len(hist) \/ Len(hist) \in (safe + 1)..Len(hist)
    BY <1>1
  <2> QED BY <2>1, <2>2 DEF Store!Next, Store!Sync
<1>5. ASSUME NEW blocks \in SUBSET Blocks, NEW new \in blocks \cup {0}, Log(blocks, new), UNCHANGED shown
      PROVE  Store!Next
  <2>1. hist' = Append(hist, Changed(blocks, new)) /\ safe' = safe /\ shown' = shown
    BY <1>5 DEF Log
  <2>2. Changed(blocks, new) \in Tables
    <3>1. hist' \in Seq(Tables)
      BY <1>5, LogKeeps DEF LogInv, LogTypes
    <3>2. Len(hist') = Len(hist) + 1 /\ hist'[Len(hist) + 1] = Changed(blocks, new)
      BY <1>1, <2>1
    <3>3. Len(hist) + 1 \in 1..Len(hist')
      BY <1>1, <3>2
    <3> QED BY <3>1, <3>2, <3>3
  <2>3. Len(hist') = Len(hist) + 1
    BY <1>1, <2>1, <2>2
  <2> QED BY <2>1, <2>3 DEF Store!Next, Store!Begin
<1>6. CASE (OpenToWrite \/ Close \/ Extend \/ Apply \/ Land \/ HeaderTorn) /\ UNCHANGED shown
  <2>1. hist' = hist /\ safe' = safe
    BY <1>6 DEF OpenToWrite, Close, Extend, Apply, Land, HeaderTorn
  <2> QED BY <1>6, <2>1
<1> QED BY <1>2, <1>3, <1>4, <1>5, <1>6 DEF Next, DiskNext

(* The disk a reader sees is an atomic store: an entry of the log is read   *)
(* whole or not at all, one the medium was said to have is read, and what   *)
(* was read never gives way to an older state (_vhdx_replay).               *)
THEOREM LogIsAtomic == Spec => IsAtomic
<1>1. Spec => Store!Init /\ [][Store!Next]_(Store!vars)
  BY StoreBegins, StoreSteps, LogIsKept, PTL DEF Spec
<1> QED BY <1>1 DEF IsAtomic, Store!Spec
=============================================================================
