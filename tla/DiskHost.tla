------------------------------ MODULE DiskHost ------------------------------
(***************************************************************************)
(* The host of a virtual machine and the person who copies its disks: what  *)
(* ewfprobe.py is given of a chain of differencing disks.  None of it is    *)
(* code of this repository.                                                 *)
(*                                                                          *)
(* A guest writes to a disk, whose first file may grow or be of full size;  *)
(* a snapshot gives it a new file over the one it had, which must not       *)
(* change any more, and may.  Files are copied at any time into two         *)
(* folders, under their own names or another's, and a copy may be cut short.*)
(***************************************************************************)
EXTENDS Numbers, Sequences, SequencesExt, FiniteSetsExt

CONSTANTS
    Kinds,          \* formats: of VHD, VHDX, VMDK, QCOW, and QCOWX, that with subclusters
    Sectors,        \* sectors of a block
    MaxBlocks,      \* bound: blocks of a disk
    MaxDisks,       \* bound: files the host makes
    MaxWrites,      \* bound: writes, by the guest or past it
    MaxFiles,       \* bound: files copied
    MaxFaults       \* bound: files under another's name, and files cut short

ASSUME HostAssumption ==
    /\ Kinds \subseteq {"VHD", "VHDX", "VMDK", "QCOW", "QCOWX"}
    /\ IsFiniteSet(Sectors)
    /\ MaxBlocks \in Nat \ {0}
    /\ {MaxDisks, MaxWrites, MaxFiles, MaxFaults} \subseteq Nat

VARIABLES
    kind,       \* the format of the disks
    flat,       \* whether the first is of full size: fixed, FLAT or, of QCOW, raw
    naming,     \* whether a file names the one it is over "relative" to itself or "absolute"
    disks,      \* the host's files: the versions each went through
    files       \* the copies, by folder and name: a file's name is its disk's number

host == <<kind, flat, naming, disks, files>>

Qcow == {"QCOW", "QCOWX"}
Bitmaps == {"VHD", "VHDX", "QCOWX"}    \* those that say which sectors of a block they hold

Nothing == [s \in Sectors |-> 0]
Absent == [is |-> "absent", at |-> 0, own |-> {}, zeros |-> {}, data |-> Nothing]
None == [disk |-> 0, version |-> 0]

HostInit ==
    /\ kind \in Kinds /\ flat \in BOOLEAN
    /\ naming \in {"relative"} \cup IF kind = "QCOW" THEN {"absolute"} ELSE {}
    /\ LET full == [is |-> "stored", at |-> 1, own |-> Sectors, zeros |-> {}, data |-> Nothing]
       IN disks = <<<<[base |-> None, table |-> <<IF flat THEN full ELSE Absent>>, view |-> <<Nothing>>]>>>>
    /\ files = << >>

-----------------------------------------------------------------------------
Raw(n) == flat /\ n = 1 /\ kind \in Qcow

Places(d) == Max({0} \cup {d.table[b].at : b \in DOMAIN d.table})

Now(n) == Last(disks[n])

Writes == SumTo([n \in 1..Len(disks) |-> Len(disks[n]) - 1], Len(disks))

(* What is under a file is still as it was when that was made over it.      *)
Sound(n) ==
    LET sound[i \in 1..Len(disks)] ==
            LET base == Now(i).base
            IN IF base = None THEN TRUE
               ELSE Len(disks[base.disk]) = base.version /\ sound[base.disk]
    IN sound[n]

Change(n, b, entry, seen) ==
    /\ files = << >> /\ Writes < MaxWrites /\ Sound(n)
    /\ disks' = [disks EXCEPT ![n] =
                    Append(@, [Now(n) EXCEPT !.table[b] = entry, !.view[b] = seen])]
    /\ UNCHANGED <<kind, flat, naming, files>>

(* A block that is given a place holds all its sectors, with what was seen  *)
(* there before, unless the format can say that it does not.                *)
Write(n, b, s) ==
    LET d == Now(n)
        e == d.table[b]
        new == Writes + 1
        partly == kind \in Bitmaps /\ d.base # None /\ (e.is = "absent" \/ kind = "QCOWX")
        entry == IF e.is = "stored"
                 THEN [e EXCEPT !.own = @ \cup {s}, !.zeros = @ \ {s}, !.data[s] = new]
                 ELSE [is |-> "stored", at |-> Places(d) + 1,
                       own |-> IF partly THEN {s} ELSE Sectors, zeros |-> e.zeros \ {s},
                       data |-> [(IF partly THEN Nothing ELSE d.view[b]) EXCEPT ![s] = new]]
    IN Change(n, b, entry, [d.view[b] EXCEPT ![s] = new])

(* A block is zeroed without being stored, where the format can say so.     *)
Zero(n, b) ==
    /\ kind # "VHD" /\ ~Raw(n) /\ Now(n).view[b] # Nothing
    /\ Change(n, b, [Absent EXCEPT !.is = "zero", !.zeros = Sectors], Nothing)

(* A new file over the last.  It may be of a larger disk.                   *)
Snapshot(blocks) ==
    LET n == Len(disks)
        d == Now(n)
        seen(b) == IF b \in DOMAIN d.view THEN d.view[b] ELSE Nothing
    IN /\ n < MaxDisks /\ files = << >> /\ Sound(n)
       /\ blocks >= Len(d.view)
       /\ disks' = Append(disks, <<[base |-> [disk |-> n, version |-> Len(disks[n])],
                                    table |-> [b \in 1..blocks |-> Absent],
                                    view |-> [b \in 1..blocks |-> seen(b)]]>>)
       /\ UNCHANGED <<kind, flat, naming, files>>

-----------------------------------------------------------------------------
Folders == {"here", "base"}
Paths == Folders \X (1..MaxDisks)

Copied == DOMAIN files
CutShort == {p \in Copied : files[p].kept < files[p].places}
Faults == Cardinality(CutShort) + Cardinality({p \in Copied : p[2] # files[p].n})

(* A copy of a file as it is or was; kept is how many of its places it has. *)
(* It disturbs nothing, and all that a file was is at hand, so that copies  *)
(* may as well come last.  The first is of the last disk, to be read.       *)
Copy(path, n, version) ==
    /\ Cardinality(Copied) < MaxFiles
    /\ files = << >> => n = Len(disks) /\ path = <<"here", n>>
    /\ path[2] # n => Faults < MaxFaults
    /\ CutShort = {}
    /\ LET d == disks[n][version]
           file == [n |-> n, version |-> version, disk |-> d, places |-> Places(d), kept |-> Places(d)]
       IN files' = [p \in Copied \cup {path} |-> IF p = path THEN file ELSE files[p]]
    /\ UNCHANGED <<kind, flat, naming, disks>>

(* -1: not even its tables.                                                 *)
Cut(path, kept) ==
    /\ Faults < MaxFaults /\ kept < files[path].kept
    /\ files' = [files EXCEPT ![path].kept = kept]
    /\ UNCHANGED <<kind, flat, naming, disks>>

HostNext ==
    \/ \E n \in 1..Len(disks) : \E b \in DOMAIN Now(n).table :
          \/ \E s \in Sectors : Write(n, b, s)
          \/ Zero(n, b)
    \/ \E blocks \in 1..MaxBlocks : Snapshot(blocks)
    \/ \E path \in Paths \ Copied : \E n \in 1..Len(disks) : \E v \in 1..Len(disks[n]) : Copy(path, n, v)
    \/ \E path \in Copied : \E kept \in -1..MaxBlocks : Cut(path, kept)
=============================================================================
