------------------------------ MODULE DiskChain ------------------------------
(***************************************************************************)
(* How ewfprobe.py reads a disk of VHD, VHDX, VMDK or QCOW through the      *)
(* disks under it: what it checks of a file when it opens it, which of the  *)
(* files in reach it takes for the one a file was made over, and what it    *)
(* gives for a sector (_index_vhd, _index_vhdx, _index_vmdk, _index_qcow    *)
(* and the functions they call).  It keeps nothing, so it is a function of  *)
(* the files, looked at in every state.                                     *)
(***************************************************************************)
EXTENDS DiskHost

CONSTANTS
    MaxParents      \* _VIRTUAL_MAX_PARENTS: files one disk may be over

ASSUME ChainAssumption == MaxParents \in Nat

-----------------------------------------------------------------------------
(* virtual_disk_kind(): what tells the format of a file.  Of a fixed VHD it *)
(* is at the end, of the others at the start.                               *)
OfItsKind(f) == ~Raw(f.n) /\ ~(kind = "VHD" /\ flat /\ f.n = 1 /\ f.kept < f.places)

StoredPlaces(f) == {f.disk.table[b].at : b \in {x \in DOMAIN f.disk.table : f.disk.table[x].is = "stored"}}

(* What is checked when a file is opened: its tables, and, of a format that *)
(* says so there, that each block it stores is inside it.                   *)
TablesInside(f) == f.kept >= 0
BlocksInside(f) == TablesInside(f) /\ \A at \in StoredPlaces(f) : at <= f.kept

HoldsVhd(f) == BlocksInside(f)
HoldsVhdx(f) == BlocksInside(f)
HoldsVmdk(f) == IF flat /\ f.n = 1 THEN BlocksInside(f) ELSE TablesInside(f)
HoldsQcow(f) == TablesInside(f)

HoldsItself(f) ==
    /\ OfItsKind(f)
    /\ CASE kind = "VHD" -> HoldsVhd(f)
         [] kind = "VHDX" -> HoldsVhdx(f)
         [] kind = "VMDK" -> HoldsVmdk(f)
         [] OTHER -> HoldsQcow(f)

(* Mutant: a disk's identifier is its own, whatever is written to it.       *)
IsOfDisk(f, base) == kind \in Qcow \/ f.n = base.disk

(* Whether a file is what another was made over, by what that records: the  *)
(* unique identifier of a VHD, the DataWriteGuid of a VHDX or the content   *)
(* id of a VMDK, which a write changes, or nothing.                         *)
HasUniqueId(f, base) == f.n = base.disk
HasDataWriteGuid(f, base) == f.n = base.disk /\ f.version = base.version
HasContentId(f, base) == f.n = base.disk /\ f.version = base.version

IsBase(f, base) ==
    CASE kind = "VHD" -> HasUniqueId(f, base)
      [] kind = "VHDX" -> HasDataWriteGuid(f, base)
      [] kind = "VMDK" -> HasContentId(f, base)
      [] OTHER -> TRUE

(* Where it is looked for: where the name that is recorded points, and      *)
(* beside the file; of an absolute name a QCOW is looked for beside first.  *)
Beside(path, base) == <<path[1], base.disk>>
Pointed(base) == <<"base", base.disk>>

Candidates(path, base) ==
    IF kind \in Qcow /\ naming = "absolute" THEN <<Beside(path, base), Pointed(base)>>
    ELSE <<Pointed(base), Beside(path, base)>>

-----------------------------------------------------------------------------
(* A disk as it is opened: its files, the topmost first, or why it is not.  *)
Refused(why) == [refused |-> why, chain |-> <<>>]
Opened(chain) == [refused |-> "", chain |-> chain]

(* What a candidate gives when the files in opening are being opened, and   *)
(* parent is what opening it gives.                                         *)
Given(path, opening, c, parent) ==
    LET base == files[path].disk.base
    IN IF c \notin Copied THEN Refused("missing")
       ELSE IF c \in opening THEN Refused("loop")
       ELSE IF kind \in Qcow /\ Raw(base.disk) THEN Opened(<<path, c>>)
       ELSE IF kind \notin Qcow /\ ~OfItsKind(files[c]) THEN Refused("foreign")
       ELSE IF parent.refused # "" THEN parent
       ELSE IF ~IsBase(files[c], base) THEN Refused("another")
       ELSE Opened(<<path>> \o parent.chain)

(* Mutant: the first file that is not the one looked for ends the search.   *)
PassedIfMissing(given) == given.refused = "missing"

(* A candidate that is of another kind, or that opens and is not the file   *)
(* looked for, is passed over; one that cannot be opened ends the search.   *)
Passed(given) == given.refused \in {"missing", "foreign", "another"}

Taken(first, second) ==
    IF ~Passed(first) THEN first ELSE IF ~Passed(second) THEN second ELSE Refused("parentless")

(* EwfImage(): a file, when those in opening are being opened over it and   *)
(* left more may be; below is what it is when fewer may.                    *)
OpenOver(left, below) ==
    [path \in Copied |-> [opening \in SUBSET Copied |->
        LET base == files[path].disk.base
            over == opening \cup {path}
            given(i) == LET c == Candidates(path, base)[i] IN Given(path, over, c, below[c][over])
        IN IF ~HoldsItself(files[path]) THEN Refused("cut")
           ELSE IF base = None THEN Opened(<<path>>)
           ELSE IF left = 0 THEN Refused("deep")
           ELSE Taken(given(1), given(2))]]

Open(path) ==
    LET open[left \in 0..MaxParents] == OpenOver(left, open[left - 1])
    IN open[MaxParents][path][{}]

-----------------------------------------------------------------------------
Unread == -1    \* a read that is refused
Garbage == -2   \* a container's own bytes

(* Whether a sector comes from the file, is of zeros, or comes from below.  *)
FromVhd(f, e, s) ==
    IF e.is = "absent" \/ (f.disk.base # None /\ s \notin e.own) THEN "below" ELSE "file"

FromVhdx(f, e, s) ==
    IF e.is = "stored" THEN IF f.disk.base = None \/ s \in e.own THEN "file" ELSE "below"
    ELSE IF e.is = "zero" THEN "zeros" ELSE "below"

FromVmdk(e) == CASE e.is = "absent" -> "below" [] e.is = "zero" -> "zeros" [] OTHER -> "file"

FromQcow(e, s) ==
    IF kind = "QCOWX" THEN IF s \in e.own THEN "file" ELSE IF s \in e.zeros THEN "zeros" ELSE "below"
    ELSE CASE e.is = "absent" -> "below" [] e.is = "zero" -> "zeros" [] OTHER -> "file"

From(f, e, s) ==
    CASE kind = "VHD" -> FromVhd(f, e, s)
      [] kind = "VHDX" -> FromVhdx(f, e, s)
      [] kind = "VMDK" -> FromVmdk(e)
      [] OTHER -> FromQcow(e, s)

(* A raw file has no end of its own: past it there are zeros.               *)
ReadRaw(f, b, s) ==
    IF b > f.kept THEN 0 ELSE IF Raw(f.n) THEN f.disk.table[b].data[s] ELSE Garbage

(* Sector s of block b of the i-th file of a chain, when below is that of   *)
(* the file under it.  Past the end of one below there are zeros.           *)
ReadFile(chain, i, b, s, below) ==
    LET f == files[chain[i]]
        e == f.disk.table[b]
        from == From(f, e, s)
    IN IF i > 1 /\ Raw(files[chain[i - 1]].disk.base.disk) THEN ReadRaw(f, b, s)
       ELSE IF b \notin DOMAIN f.disk.table \/ from = "zeros" THEN 0
       ELSE IF from = "below" THEN below
       ELSE IF e.at > f.kept THEN Unread
       ELSE e.data[s]

ReadSector(chain, b, s) ==
    LET read[n \in 0..Len(chain)] ==
            IF n = 0 THEN 0 ELSE ReadFile(chain, Len(chain) - n + 1, b, s, read[n - 1])
    IN read[Len(chain)]

-----------------------------------------------------------------------------
ChainSpec == HostInit /\ [][HostNext]_host

-----------------------------------------------------------------------------
(* What the format leaves unsaid: a VHD's identifier stays when it is       *)
(* written to, a QCOW knows the file below it by its name alone, and a raw  *)
(* file does not say how long it is.                                        *)
Unsaid(chain) ==
    \E i \in 2..Len(chain) :
        LET base == files[chain[i - 1]].disk.base
            f == files[chain[i]]
        IN \/ kind = "VHD" /\ f.n = base.disk /\ f.version # base.version
           \/ kind \in Qcow /\ (f.n # base.disk \/ f.version # base.version)
           \/ Raw(f.n) /\ f.kept < f.places

(* Each sector that is read is as the guest last saw it, whatever files lie *)
(* in reach under the name of one below, and wherever one was cut short: a  *)
(* part that is lost is refused and never read as zeros or through to the   *)
(* disk below, unless the format has no way to tell.                        *)
ReadsAsTheGuestLeft ==
    \A path \in Copied :
        LET opened == Open(path)
            view == files[path].disk.view
        IN opened.refused = "" /\ ~Unsaid(opened.chain) =>
            \A b \in DOMAIN view : \A s \in Sectors :
                ReadSector(opened.chain, b, s) \in {view[b][s], Unread}

(* The files a disk needs are all in reach, whole.                          *)
Complete(path) ==
    LET complete[p \in Copied] ==
            LET f == files[p]
                base == f.disk.base
            IN /\ f.kept = f.places
               /\ base = None \/ \E c \in {Beside(p, base), Pointed(base)} \cap Copied :
                      files[c].n = base.disk /\ files[c].version = base.version /\ complete[c]
    IN complete[path]

(* A disk whose files are all in reach and whole is opened and read through *)
(* to the end, whatever whole copies of other files or of other times lie   *)
(* under their names, unless one of those has no parent in its own reach or *)
(* the format, QCOW, takes any file of the name.                            *)
WhatIsThereIsRead ==
    LET unread(opened, view) ==
            \/ opened.refused # ""
            \/ \E b \in DOMAIN view : \E s \in Sectors : ReadSector(opened.chain, b, s) = Unread
        needed == {p \in Copied : Complete(p) /\ ~Raw(files[p].n)}
        others == {p \in Copied \ needed : ~Raw(files[p].n)}
        anyName == kind \in Qcow /\ \E p \in Copied : p[2] # files[p].n
    IN CutShort = {} /\ ~anyName /\ (\A p \in others : Open(p).refused = "") =>
            \A p \in needed : ~unread(Open(p), files[p].disk.view)
=============================================================================
