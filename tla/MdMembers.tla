------------------------------ MODULE MdMembers ------------------------------
(***************************************************************************)
(* The members of a Linux md array as the md driver leaves them, which is   *)
(* what qnxprobe.py is given.  The driver is not part of the program: it is *)
(* modelled from what _md_roles(), _md_judge() and RaidReader take for      *)
(* granted of it (the order of its writes, and what each superblock says).  *)
(*                                                                         *)
(* One stripe of the array stands for all: chunk c of it is on the member   *)
(* of role c, P and Q on the last.  A chunk's content is the number of the  *)
(* write it came from; what a member of parity holds is, for each chunk,    *)
(* the write its parity was made of.                                        *)
(***************************************************************************)
EXTENDS Integers, FiniteSets, FiniteSetsExt

CONSTANTS
    Arrays,     \* the arrays looked at, each a record of level and n
    Devices,    \* the devices, by number: of n, 1..n are the first members
    MaxEvents,  \* bound on the event count of the superblocks, by level
    MaxWrites   \* bound on the number of writes

(* The levels md protects as it does here, with the members they need.      *)
ASSUME MembersAssumption ==
    /\ \A x \in Arrays :
          /\ x.level \in {0, 1, 5, 6}
          /\ x.n \in Nat /\ x.n >= (CASE x.level = 5 -> 2 [] x.level = 6 -> 3 [] OTHER -> 1)
    /\ Devices \subseteq Nat \ {0}
    /\ MaxWrites \in Nat

Spare == -1
FaultyRole == -2
Blank == 0      \* the content of a device that has never been in the array
Made == 1       \* that of the array as it was made

VARIABLES
    a,          \* the array
    mem,        \* what the driver's next superblocks will say
    sb,         \* the superblock of each device
    todo,       \* the devices that do not have the last superblock yet
    disk,       \* the content of each device
    writing,    \* the write under way: its chunk, its number, where it is to land
    acked       \* for each chunk, the last write reported done

drive == <<a, mem, sb, todo, disk, writing, acked>>

Roles == 0..(a.n - 1)
Parity == CASE a.level = 5 -> {a.n - 1}
            [] a.level = 6 -> {a.n - 2, a.n - 1}
            [] OTHER -> {}
Chunks == IF a.level = 1 THEN {0} ELSE Roles \ Parity
Allowed == CASE a.level = 0 -> 0
             [] a.level = 1 -> a.n - 1
             [] a.level = 5 -> 1
             [] a.level = 6 -> 2

Holds(role, c) == a.level = 1 \/ role = c \/ role \in Parity

NoWrite == [chunk |-> -1, number |-> 0, left |-> {}]

(* The devices the driver reads and writes, those with what they hold up to *)
(* date, and the roles that no device fills as it should.                   *)
Attached == {d \in Devices : mem.roles[d] # FaultyRole}
InSync == {d \in Devices : mem.roles[d] \in Roles} \ mem.recovering
Unfilled(insync, bad) == Roles \ {mem.roles[d] : d \in insync \ bad}

Fresh(role) == [c \in Chunks |-> IF role \in Roles /\ Holds(role, c) THEN Made ELSE Blank]

DriveInit ==
    /\ a \in Arrays
    /\ mem = [events |-> 1, clean |-> TRUE, recovering |-> {}, bad |-> {},
              roles |-> [d \in Devices |-> IF d <= a.n THEN d - 1 ELSE Spare]]
    /\ sb = [d \in Devices |-> mem]
    /\ todo = {}
    /\ disk = [d \in Devices |-> Fresh(mem.roles[d])]
    /\ writing = NoWrite
    /\ acked = [c \in Chunks |-> Made]

(* A change of the record, which goes to each device in turn.               *)
Update(new) ==
    /\ mem.events < MaxEvents[a.level]
    /\ mem' = [new EXCEPT !.events = mem.events + 1]
    /\ todo' = {d \in Devices : new.roles[d] # FaultyRole}
    /\ UNCHANGED <<a, sb>>

Flush ==
    /\ \E d \in todo :
          /\ sb' = [sb EXCEPT ![d] = mem]
          /\ todo' = todo \ {d}
    /\ UNCHANGED <<a, mem, disk, writing, acked>>

(* The array is marked not clean before it is written to, and clean when no *)
(* write is under way.                                                      *)
GoDirty ==
    /\ todo = {} /\ mem.clean
    /\ Update([mem EXCEPT !.clean = FALSE])
    /\ UNCHANGED <<disk, writing, acked>>

GoClean ==
    /\ todo = {} /\ ~mem.clean /\ writing = NoWrite
    /\ Update([mem EXCEPT !.clean = TRUE])
    /\ UNCHANGED <<disk, writing, acked>>

WriteBegins ==
    /\ todo = {} /\ ~mem.clean /\ writing = NoWrite
    /\ \E c \in Chunks :
          LET number == Max({acked[x] : x \in Chunks}) + 1
          IN /\ number <= Made + MaxWrites
             /\ writing' = [chunk |-> c, number |-> number,
                            left |-> {d \in InSync \ mem.bad : Holds(mem.roles[d], c)}]
    /\ UNCHANGED <<a, mem, sb, todo, disk, acked>>

WriteLands ==
    /\ \E d \in writing.left :
          /\ disk' = [disk EXCEPT ![d][writing.chunk] = writing.number]
          /\ writing' = [writing EXCEPT !.left = @ \ {d}]
    /\ UNCHANGED <<a, mem, sb, todo, acked>>

(* It is reported done only when every superblock says what went wrong.     *)
WriteEnds ==
    /\ writing # NoWrite /\ writing.left = {} /\ todo = {}
    /\ acked' = [acked EXCEPT ![writing.chunk] = writing.number]
    /\ writing' = NoWrite
    /\ UNCHANGED <<a, mem, sb, todo, disk>>

(* A member fails, at any time, and its superblock is never written again.  *)
Fails ==
    /\ \E d \in InSync :
          /\ Cardinality(Unfilled(InSync \ {d}, mem.bad)) <= Allowed
          /\ Update([mem EXCEPT !.roles[d] = FaultyRole])
          /\ writing' = [writing EXCEPT !.left = @ \ {d}]
    /\ UNCHANGED <<disk, acked>>

(* A write does not reach a member, which lists the place as bad.           *)
GoesBad ==
    /\ \E d \in writing.left :
          /\ Cardinality(Unfilled(InSync, mem.bad \cup {d})) <= Allowed
          /\ Update([mem EXCEPT !.bad = @ \cup {d}])
          /\ writing' = [writing EXCEPT !.left = @ \ {d}]
    /\ UNCHANGED <<disk, acked>>

(* A spare takes the place of a member that failed, and is up to date when  *)
(* the stripe has been rebuilt onto it.                                     *)
SpareJoins ==
    /\ todo = {}
    /\ \E d \in {x \in Devices : mem.roles[x] = Spare} :
          \E r \in Roles \ {mem.roles[x] : x \in Devices} :
             Update([mem EXCEPT !.roles[d] = r, !.recovering = @ \cup {d}])
    /\ UNCHANGED <<disk, writing, acked>>

SpareRebuilt ==
    /\ todo = {} /\ writing = NoWrite
    /\ \E d \in mem.recovering :
          /\ disk' = [disk EXCEPT ![d] =
                 [c \in Chunks |-> IF Holds(mem.roles[d], c) THEN acked[c] ELSE Blank]]
          /\ Update([mem EXCEPT !.recovering = @ \ {d}])
    /\ UNCHANGED <<writing, acked>>

Drive ==
    \/ Flush \/ GoDirty \/ GoClean \/ WriteBegins \/ WriteLands \/ WriteEnds
    \/ Fails \/ GoesBad \/ SpareJoins \/ SpareRebuilt
=============================================================================
