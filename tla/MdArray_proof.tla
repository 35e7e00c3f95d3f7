---------------------------- MODULE MdArray_proof ----------------------------
(***************************************************************************)
(* Proofs about MdArray for arrays of any number of members, any devices,   *)
(* any number of writes and of faults: nothing stale and nothing made up is *)
(* read of an array, all that is there is read, and an array with too few   *)
(* members is refused.                                                      *)
(***************************************************************************)
EXTENDS MdArray, Numbers_proof, FiniteSetTheorems

-----------------------------------------------------------------------------
(* The inductive invariant of the driver: what its superblocks say of each  *)
(* other and of what is on the devices.                                     *)

(* A superblock, a chunk's content, and a write under way.                  *)
Super == [events : Nat, clean : BOOLEAN, recovering : SUBSET Devices, bad : SUBSET Devices,
          roles : [Devices -> Roles \cup {Spare, FaultyRole}]]
Numbers == Blank..(Made + MaxWrites)
Writes == [chunk : Chunks, number : Numbers, left : SUBSET Devices]

DriveType ==
    /\ a \in Arrays
    /\ mem \in Super /\ sb \in [Devices -> Super]
    /\ todo \subseteq Devices
    /\ disk \in [Devices -> [Chunks -> Numbers]]
    /\ acked \in [Chunks -> Numbers]
    /\ writing = NoWrite \/ writing \in Writes

(* Of two superblocks the one with more events knows what the other knew: a *)
(* role is only ever lost to a failure.                                     *)
Earlier(x, y) ==
    x.events <= y.events =>
        /\ x.events = y.events => x = y
        /\ \A d \in Devices :
              /\ x.roles[d] = FaultyRole => y.roles[d] = FaultyRole
              /\ x.roles[d] \in Roles => y.roles[d] \in {x.roles[d], FaultyRole}

History ==
    \A d \in Devices :
       /\ sb[d].events \in 1..mem.events
       /\ Earlier(sb[d], mem)
       /\ \A e \in Devices : Earlier(sb[d], sb[e])

(* What a device says of itself, which is never that it failed; a device in *)
(* sync says so, one being rebuilt does not, and no two fill one role.      *)
Owns ==
    \A d \in Devices :
       /\ Own(d) \in Roles \cup {Spare}
       /\ d \in todo => mem.roles[d] # FaultyRole
       /\ d \notin todo /\ mem.roles[d] # FaultyRole => sb[d] = mem
       /\ d \in InSync => Own(d) = mem.roles[d]
       /\ d \in mem.recovering => Own(d) = Spare \/ d \in sb[d].recovering
       /\ \A e \in Devices : mem.roles[d] \in Roles /\ mem.roles[d] = mem.roles[e] => d = e

(* While a write is under way every device of the array has a later         *)
(* superblock than any that says clean, and it goes to devices in sync.     *)
UnderWay ==
    writing # NoWrite =>
        /\ ~mem.clean
        /\ \A d \in Attached, f \in Devices : sb[f].clean => sb[f].events < sb[d].events
        /\ writing.left \subseteq InSync \ mem.bad
        /\ \A d \in writing.left : Holds(mem.roles[d], writing.chunk)

(* A device in sync has the last write of each chunk, or the one under way  *)
(* if it has landed there.                                                  *)
UpToDate ==
    \A d \in InSync \ mem.bad, c \in Chunks :
       Holds(mem.roles[d], c) =>
          disk[d][c] = IF writing.chunk = c /\ d \notin writing.left THEN writing.number ELSE acked[c]

(* A device that says it is up to date is so, or failed and every device of *)
(* the array says that it did.                                              *)
Says(d) == Own(d) \in Roles /\ d \notin sb[d].recovering /\ d \notin sb[d].bad

Told(d) == mem.roles[d] = FaultyRole /\ \A e \in Attached : sb[e].roles[d] = FaultyRole

FreshOrTold ==
    \A d \in Devices :
       Says(d) => Told(d) \/ \A c \in Chunks : Holds(Own(d), c) => disk[d][c] \in Current(c)

(* Two devices that the program would count with a superblock that says     *)
(* clean are in step, on both sides of the event it allows them to be late. *)
Counted(d, f) ==
    /\ Says(d)
    /\ sb[d].events <= sb[f].events /\ sb[f].events <= sb[d].events + 1
    /\ Role(d, f) \in Roles

InStepWhenClean ==
    \A f, d, e \in Devices :
       sb[f].clean /\ Counted(d, f) /\ Counted(e, f) =>
          \A c \in Chunks : Holds(Own(d), c) /\ Holds(Own(e), c) => disk[d][c] = disk[e][c]

DriveInv == DriveType /\ History /\ Owns /\ UnderWay /\ UpToDate /\ FreshOrTold /\ InStepWhenClean

-----------------------------------------------------------------------------
(* Roles and chunks are small numbers, and a driver's step keeps them.      *)
LEMMA Shapes ==
    ASSUME a \in Arrays
    PROVE  /\ a.n \in Nat \ {0} /\ a.level \in {0, 1, 5, 6}
           /\ Roles = 0..(a.n - 1) /\ Roles \subseteq Nat
           /\ Chunks \subseteq Roles /\ Parity \subseteq Roles
           /\ \A c \in Chunks : c \in Nat /\ (a.level = 1 \/ c \notin Parity)
           /\ NoWrite.chunk \notin Chunks
  BY MembersAssumption DEF Roles, Chunks, Parity, NoWrite

(* A driver's step keeps the array.                                         *)
LEMMA SameArray ==
    ASSUME a' = a
    PROVE  /\ Roles' = Roles /\ Chunks' = Chunks /\ Parity' = Parity /\ Super' = Super
           /\ Writes' = Writes
           /\ \A r, c : Holds(r, c)' <=> Holds(r, c)
  BY DEF Roles, Chunks, Parity, Holds, Super, Writes

(* Every step of the driver keeps it.                                       *)
LEMMA DriveKeepsArray == Drive => a' = a
  BY DEF Drive, Flush, GoDirty, GoClean, WriteBegins, WriteLands, WriteEnds, Fails, GoesBad,
         SpareJoins, SpareRebuilt, Update

-----------------------------------------------------------------------------
(* The record changes: each superblock stays as it is, the next one has one *)
(* more event, and a role is only ever lost to a failure.                   *)
Changed ==
    /\ a' = a /\ sb' = sb
    /\ mem' \in Super /\ mem'.events = mem.events + 1
    /\ todo' = {d \in Devices : mem'.roles[d] # FaultyRole}
    /\ \A d \in Devices :
          /\ mem.roles[d] = FaultyRole => mem'.roles[d] = FaultyRole
          /\ mem.roles[d] \in Roles => mem'.roles[d] \in {mem.roles[d], FaultyRole}

(* What becomes of the record when it is changed.                           *)
LEMMA Changes ==
    ASSUME DriveType, NEW new \in Super, Update(new),
           \A d \in Devices :
              /\ mem.roles[d] = FaultyRole => new.roles[d] = FaultyRole
              /\ mem.roles[d] \in Roles => new.roles[d] \in {mem.roles[d], FaultyRole}
    PROVE  /\ Changed
           /\ mem'.clean = new.clean /\ mem'.recovering = new.recovering
           /\ mem'.bad = new.bad /\ mem'.roles = new.roles
<1>1. /\ mem' = [new EXCEPT !.events = mem.events + 1] /\ a' = a /\ sb' = sb
      /\ todo' = {d \in Devices : new.roles[d] # FaultyRole}
      /\ mem.events \in Nat
  BY DEF Update, DriveType, Super
<1>2. /\ mem' \in Super /\ mem'.events = mem.events + 1
      /\ mem'.clean = new.clean /\ mem'.recovering = new.recovering
      /\ mem'.bad = new.bad /\ mem'.roles = new.roles
  BY <1>1 DEF Super
<1> QED BY <1>1, <1>2 DEF Changed

(* The changes of the record, each with what it keeps.                      *)
Marked ==
    /\ Changed /\ todo = {}
    /\ mem'.recovering = mem.recovering /\ mem'.bad = mem.bad /\ mem'.roles = mem.roles
    /\ (mem.clean \/ writing = NoWrite)
    /\ UNCHANGED <<disk, writing, acked>>

Lost(d) ==
    /\ Changed
    /\ mem'.clean = mem.clean /\ mem'.recovering = mem.recovering /\ mem'.bad = mem.bad
    /\ mem'.roles = [mem.roles EXCEPT ![d] = FaultyRole]
    /\ writing' = [writing EXCEPT !.left = @ \ {d}]
    /\ UNCHANGED <<disk, acked>>

Listed(d) ==
    /\ Changed
    /\ mem'.clean = mem.clean /\ mem'.recovering = mem.recovering /\ mem'.bad = mem.bad \cup {d}
    /\ mem'.roles = mem.roles
    /\ writing' = [writing EXCEPT !.left = @ \ {d}]
    /\ UNCHANGED <<disk, acked>>

Joined(d, r) ==
    /\ Changed /\ todo = {} /\ mem.roles[d] = Spare /\ r \notin {mem.roles[x] : x \in Devices}
    /\ mem'.clean = mem.clean /\ mem'.recovering = mem.recovering \cup {d} /\ mem'.bad = mem.bad
    /\ mem'.roles = [mem.roles EXCEPT ![d] = r]
    /\ UNCHANGED <<disk, writing, acked>>

Rebuilds(d) ==
    /\ Changed /\ todo = {} /\ writing = NoWrite
    /\ mem'.clean = mem.clean /\ mem'.recovering = mem.recovering \ {d} /\ mem'.bad = mem.bad
    /\ mem'.roles = mem.roles
    /\ disk' = [disk EXCEPT ![d] =
                    [c \in Chunks |-> IF Holds(mem.roles[d], c) THEN acked[c] ELSE Blank]]
    /\ UNCHANGED <<writing, acked>>

(* Every step of the driver is one of these or is about a write.            *)
LEMMA Steps ==
    ASSUME DriveType, Drive
    PROVE  \/ Flush \/ WriteBegins \/ WriteLands \/ WriteEnds \/ Marked
           \/ \E d \in InSync : Lost(d)
           \/ \E d \in writing.left : d \in Devices /\ Listed(d)
           \/ \E d \in Devices, r \in Roles : Joined(d, r)
           \/ \E d \in mem.recovering : d \in Devices /\ Rebuilds(d)
<1>0. mem \in Super /\ mem.roles \in [Devices -> Roles \cup {Spare, FaultyRole}] /\ Roles \subseteq Nat
  BY Shapes DEF DriveType, Super
<1>1. CASE GoDirty
  <2> DEFINE new == [mem EXCEPT !.clean = FALSE]
  <2>1. new \in Super /\ new.recovering = mem.recovering /\ new.bad = mem.bad /\ new.roles = mem.roles
    BY <1>0 DEF Super
  <2>2. Update(new) /\ todo = {} /\ mem.clean /\ UNCHANGED <<disk, writing, acked>>
    BY <1>1 DEF GoDirty
  <2> HIDE DEF new
  <2>3. Changed /\ mem'.recovering = new.recovering /\ mem'.bad = new.bad /\ mem'.roles = new.roles
    BY <2>1, <2>2, Changes
  <2> QED BY <2>1, <2>2, <2>3 DEF Marked
<1>2. CASE GoClean
  <2> DEFINE new == [mem EXCEPT !.clean = TRUE]
  <2>1. new \in Super /\ new.recovering = mem.recovering /\ new.bad = mem.bad /\ new.roles = mem.roles
    BY <1>0 DEF Super
  <2>2. Update(new) /\ todo = {} /\ writing = NoWrite /\ UNCHANGED <<disk, writing, acked>>
    BY <1>2 DEF GoClean
  <2> HIDE DEF new
  <2>3. Changed /\ mem'.recovering = new.recovering /\ mem'.bad = new.bad /\ mem'.roles = new.roles
    BY <2>1, <2>2, Changes
  <2> QED BY <2>1, <2>2, <2>3 DEF Marked
<1>3. CASE Fails
  <2>1. PICK d \in InSync :
           /\ Update([mem EXCEPT !.roles[d] = FaultyRole])
           /\ writing' = [writing EXCEPT !.left = @ \ {d}]
           /\ UNCHANGED <<disk, acked>>
    BY <1>3 DEF Fails
  <2> DEFINE new == [mem EXCEPT !.roles[d] = FaultyRole]
  <2>2. new \in Super /\ new.clean = mem.clean /\ new.recovering = mem.recovering /\ new.bad = mem.bad
        /\ new.roles = [mem.roles EXCEPT ![d] = FaultyRole]
    BY <1>0 DEF Super
  <2>3. Update(new)
    BY <2>1
  <2> HIDE DEF new
  <2>4. /\ Changed /\ mem'.clean = new.clean /\ mem'.recovering = new.recovering
        /\ mem'.bad = new.bad /\ mem'.roles = new.roles
    <3>1. \A x \in Devices :
             /\ mem.roles[x] = FaultyRole => new.roles[x] = FaultyRole
             /\ mem.roles[x] \in Roles => new.roles[x] \in {mem.roles[x], FaultyRole}
      BY <1>0, <2>2
    <3> QED BY <2>2, <2>3, <3>1, Changes
  <2>5. Lost(d)
    BY <2>1, <2>2, <2>4 DEF Lost
  <2> QED BY <2>5
<1>4. CASE GoesBad
  <2>1. PICK d \in writing.left :
           /\ Update([mem EXCEPT !.bad = @ \cup {d}])
           /\ writing' = [writing EXCEPT !.left = @ \ {d}]
           /\ UNCHANGED <<disk, acked>>
    BY <1>4 DEF GoesBad
  <2>2. d \in Devices
    BY DEF DriveType, Writes, NoWrite
  <2> DEFINE new == [mem EXCEPT !.bad = @ \cup {d}]
  <2>3. new \in Super /\ new.clean = mem.clean /\ new.recovering = mem.recovering
        /\ new.bad = mem.bad \cup {d} /\ new.roles = mem.roles
    BY <1>0, <2>2 DEF Super
  <2>4. Update(new)
    BY <2>1
  <2> HIDE DEF new
  <2>5. /\ Changed /\ mem'.clean = new.clean /\ mem'.recovering = new.recovering
        /\ mem'.bad = new.bad /\ mem'.roles = new.roles
    BY <2>3, <2>4, Changes
  <2>6. Listed(d)
    BY <2>1, <2>3, <2>5 DEF Listed
  <2> QED BY <2>2, <2>6
<1>5. CASE SpareJoins
  <2>1. PICK d \in {x \in Devices : mem.roles[x] = Spare}, r \in Roles \ {mem.roles[x] : x \in Devices} :
           /\ Update([mem EXCEPT !.roles[d] = r, !.recovering = @ \cup {d}])
           /\ UNCHANGED <<disk, writing, acked>> /\ todo = {}
    BY <1>5 DEF SpareJoins
  <2> DEFINE new == [mem EXCEPT !.roles[d] = r, !.recovering = @ \cup {d}]
  <2>2. new \in Super /\ new.clean = mem.clean /\ new.recovering = mem.recovering \cup {d}
        /\ new.bad = mem.bad /\ new.roles = [mem.roles EXCEPT ![d] = r]
    BY <1>0 DEF Super
  <2>3. Update(new)
    BY <2>1
  <2> HIDE DEF new
  <2>4. /\ Changed /\ mem'.clean = new.clean /\ mem'.recovering = new.recovering
        /\ mem'.bad = new.bad /\ mem'.roles = new.roles
    <3>1. \A x \in Devices :
             /\ mem.roles[x] = FaultyRole => new.roles[x] = FaultyRole
             /\ mem.roles[x] \in Roles => new.roles[x] \in {mem.roles[x], FaultyRole}
      BY <1>0, <2>1, <2>2 DEF Spare, FaultyRole
    <3> QED BY <2>2, <2>3, <3>1, Changes
  <2>5. Joined(d, r)
    BY <2>1, <2>2, <2>4 DEF Joined
  <2> QED BY <2>5
<1>6. CASE SpareRebuilt
  <2>1. PICK d \in mem.recovering :
           /\ Update([mem EXCEPT !.recovering = @ \ {d}])
           /\ disk' = [disk EXCEPT ![d] =
                  [c \in Chunks |-> IF Holds(mem.roles[d], c) THEN acked[c] ELSE Blank]]
           /\ UNCHANGED <<writing, acked>> /\ todo = {} /\ writing = NoWrite
    BY <1>6 DEF SpareRebuilt
  <2>2. d \in Devices
    BY <1>0 DEF Super
  <2> DEFINE new == [mem EXCEPT !.recovering = @ \ {d}]
  <2>3. new \in Super /\ new.clean = mem.clean /\ new.recovering = mem.recovering \ {d}
        /\ new.bad = mem.bad /\ new.roles = mem.roles
    BY <1>0 DEF Super
  <2>4. Update(new)
    BY <2>1
  <2> HIDE DEF new
  <2>5. /\ Changed /\ mem'.clean = new.clean /\ mem'.recovering = new.recovering
        /\ mem'.bad = new.bad /\ mem'.roles = new.roles
    BY <2>3, <2>4, Changes
  <2>6. Rebuilds(d)
    BY <2>1, <2>3, <2>5 DEF Rebuilds
  <2> QED BY <2>2, <2>6
<1> QED BY <1>1, <1>2, <1>3, <1>4, <1>5, <1>6 DEF Drive

-----------------------------------------------------------------------------
(* The next state is of the type.                                           *)
LEMMA TypeKept ==
    ASSUME DriveType, Drive
    PROVE  DriveType'
<1>0. /\ a' = a /\ Roles' = Roles /\ Chunks' = Chunks /\ Super' = Super /\ Writes' = Writes
      /\ \A r, c : Holds(r, c)' <=> Holds(r, c)
  BY DriveKeepsArray, SameArray
<1>1. SUFFICES /\ mem' \in Super /\ sb' \in [Devices -> Super] /\ todo' \subseteq Devices
               /\ disk' \in [Devices -> [Chunks -> Numbers]]
               /\ acked' \in [Chunks -> Numbers]
               /\ writing' = NoWrite \/ writing' \in Writes
  BY <1>0 DEF DriveType, Numbers
<1>2. ASSUME NEW d PROVE [writing EXCEPT !.left = @ \ {d}] \in Writes \cup {NoWrite}
  <2>1. CASE writing = NoWrite
    <3>1. NoWrite.left \ {d} = {} /\ NoWrite = [chunk |-> -1, number |-> 0, left |-> {}]
      BY DEF NoWrite
    <3>2. [NoWrite EXCEPT !.left = {}] = NoWrite
      BY <3>1
    <3> QED BY <2>1, <3>1, <3>2
  <2>2. CASE writing \in Writes
    BY <2>2 DEF Writes
  <2> QED BY <2>1, <2>2 DEF DriveType
<1>3. CASE Flush
  BY <1>3 DEF Flush, DriveType
<1>4. CASE WriteBegins
  <2> DEFINE W == {acked[x] : x \in Chunks}
  <2>1. PICK c \in Chunks :
           /\ Max(W) + 1 <= Made + MaxWrites
           /\ writing' = [chunk |-> c, number |-> Max(W) + 1,
                          left |-> {d \in InSync \ mem.bad : Holds(mem.roles[d], c)}]
    BY <1>4 DEF WriteBegins
  <2>2. W \subseteq Numbers /\ W # {}
    BY DEF DriveType
  <2> HIDE DEF W
  <2>3. Max(W) \in Numbers
    <3>1. MaxWrites \in Nat /\ Made + MaxWrites \in Nat
      BY MembersAssumption DEF Made
    <3>2. W \subseteq Nat /\ \A x \in W : x <= Made + MaxWrites
      BY <2>2, <3>1 DEF Numbers, Blank
    <3> QED BY <2>2, <3>1, <3>2, GreatestOf
  <2>4. Max(W) + 1 \in Numbers
    BY <2>1, <2>3, MembersAssumption DEF Numbers, Blank, Made
  <2>5. {d \in InSync \ mem.bad : Holds(mem.roles[d], c)} \subseteq Devices
    BY DEF InSync
  <2>6. writing' \in Writes
    BY <2>1, <2>4, <2>5 DEF Writes
  <2> QED BY <1>4, <2>6 DEF WriteBegins, DriveType
<1>5. CASE WriteLands
  <2>1. PICK d \in writing.left :
           /\ disk' = [disk EXCEPT ![d][writing.chunk] = writing.number]
           /\ writing' = [writing EXCEPT !.left = @ \ {d}]
    BY <1>5 DEF WriteLands
  <2>2. writing \in Writes
    BY DEF DriveType, NoWrite
  <2>3. d \in Devices /\ writing.chunk \in Chunks /\ writing.number \in Numbers
    BY <2>2 DEF Writes
  <2>4. disk' \in [Devices -> [Chunks -> Numbers]]
    BY <2>1, <2>3 DEF DriveType
  <2> QED BY <1>2, <1>5, <2>1, <2>4 DEF WriteLands, DriveType
<1>6. CASE WriteEnds
  <2>1. writing \in Writes
    BY <1>6 DEF WriteEnds, DriveType
  <2>2. writing.chunk \in Chunks /\ writing.number \in Numbers
    BY <2>1 DEF Writes
  <2>3. acked' \in [Chunks -> Numbers]
    BY <1>6, <2>2 DEF WriteEnds, DriveType
  <2> QED BY <1>6, <2>3 DEF WriteEnds, DriveType
<1>7. CASE Marked
  BY <1>7 DEF Marked, Changed, DriveType
<1>8. ASSUME NEW d \in InSync, Lost(d)
      PROVE  /\ mem' \in Super /\ sb' \in [Devices -> Super] /\ todo' \subseteq Devices
             /\ disk' \in [Devices -> [Chunks -> Numbers]]
             /\ acked' \in [Chunks -> Numbers]
             /\ writing' = NoWrite \/ writing' \in Writes
  BY <1>2, <1>8 DEF Lost, Changed, DriveType
<1>9. ASSUME NEW d \in writing.left, Listed(d)
      PROVE  /\ mem' \in Super /\ sb' \in [Devices -> Super] /\ todo' \subseteq Devices
             /\ disk' \in [Devices -> [Chunks -> Numbers]]
             /\ acked' \in [Chunks -> Numbers]
             /\ writing' = NoWrite \/ writing' \in Writes
  BY <1>2, <1>9 DEF Listed, Changed, DriveType
<1>10. ASSUME NEW d \in Devices, NEW r \in Roles, Joined(d, r)
       PROVE  /\ mem' \in Super /\ sb' \in [Devices -> Super] /\ todo' \subseteq Devices
              /\ disk' \in [Devices -> [Chunks -> Numbers]]
              /\ acked' \in [Chunks -> Numbers]
              /\ writing' = NoWrite \/ writing' \in Writes
  BY <1>10 DEF Joined, Changed, DriveType
<1>11. ASSUME NEW d \in mem.recovering, d \in Devices, Rebuilds(d)
       PROVE  /\ mem' \in Super /\ sb' \in [Devices -> Super] /\ todo' \subseteq Devices
              /\ disk' \in [Devices -> [Chunks -> Numbers]]
              /\ acked' \in [Chunks -> Numbers]
              /\ writing' = NoWrite \/ writing' \in Writes
  <2>1. Blank \in Numbers
    BY MembersAssumption DEF Numbers, Blank, Made
  <2>2. [c \in Chunks |-> IF Holds(mem.roles[d], c) THEN acked[c] ELSE Blank] \in [Chunks -> Numbers]
    BY <2>1 DEF DriveType
  <2> QED BY <1>11, <2>2 DEF Rebuilds, Changed, DriveType
<1> QED BY <1>3, <1>4, <1>5, <1>6, <1>7, <1>8, <1>9, <1>10, <1>11, Steps

(* The superblocks go on knowing what the earlier ones knew.                *)
LEMMA HistoryKept ==
    ASSUME DriveType, History, Drive
    PROVE  History'
<1>0. a' = a /\ Roles' = Roles /\ \A x, y : Earlier(x, y)' <=> Earlier(x, y)
  BY DriveKeepsArray, SameArray DEF Earlier
<1>1. /\ mem \in Super /\ mem.events \in Nat /\ \A d \in Devices : sb[d] \in Super /\ sb[d].events \in Nat
  BY DEF DriveType, Super
<1>2. ASSUME Changed PROVE History'
  <2>1. \A d \in Devices :
           /\ sb'[d].events \in 1..mem'.events
           /\ Earlier(sb'[d], mem')
    BY <1>1, <1>2 DEF Changed, History, Earlier
  <2> QED BY <1>0, <1>2, <2>1 DEF Changed, History
<1>3. CASE Flush
  <2>1. PICK d \in todo : sb' = [sb EXCEPT ![d] = mem] /\ mem' = mem
    BY <1>3 DEF Flush
  <2>2. d \in Devices /\ 1 <= mem.events
    <3>1. d \in Devices
      BY DEF DriveType
    <3> QED BY <1>1, <3>1 DEF History
  <2>3. \A e \in Devices : Earlier(mem, sb[e]) /\ Earlier(mem, mem) /\ Earlier(sb[e], mem)
    <3>1. Earlier(mem, mem)
      BY DEF Earlier
    <3>2. ASSUME NEW e \in Devices, mem.events <= sb[e].events PROVE sb[e] = mem
      BY <1>1, <3>2 DEF History, Earlier
    <3> QED BY <3>1, <3>2 DEF Earlier, History
  <2>4. \A e \in Devices : sb'[e] = IF e = d THEN mem ELSE sb[e]
    BY <2>1, <2>2 DEF DriveType
  <2>5. ASSUME NEW e \in Devices
        PROVE  /\ sb'[e].events \in 1..mem'.events
               /\ Earlier(sb'[e], mem')
               /\ \A f \in Devices : Earlier(sb'[e], sb'[f])
    <3> HIDE DEF Earlier
    <3>1. sb'[e].events \in 1..mem'.events
      BY <1>1, <2>1, <2>2, <2>4 DEF History
    <3>2. Earlier(sb'[e], mem')
      BY <2>1, <2>3, <2>4
    <3>3. \A f \in Devices : Earlier(sb'[e], sb'[f])
      BY <2>3, <2>4 DEF History
    <3> QED BY <3>1, <3>2, <3>3
  <2> QED BY <1>0, <2>5 DEF History
<1>4. ASSUME UNCHANGED <<mem, sb>> PROVE History'
  BY <1>0, <1>4 DEF History
<1> QED BY <1>2, <1>3, <1>4, Steps DEF WriteBegins, WriteLands, WriteEnds, Marked, Lost, Listed,
           Joined, Rebuilds

(* A device goes on saying of itself what the driver says of it.            *)
LEMMA OwnsKept ==
    ASSUME DriveType, History, Owns, Drive
    PROVE  Owns'
<1>0. /\ a' = a /\ Roles' = Roles /\ Roles \subseteq Nat
  BY DriveKeepsArray, SameArray, Shapes DEF DriveType
<1>1. /\ mem \in Super /\ mem.roles \in [Devices -> Roles \cup {Spare, FaultyRole}]
      /\ \A d \in Devices : sb[d] \in Super
  BY DEF DriveType, Super
<1> DEFINE OwnsOf(d) ==
       /\ Own(d) \in Roles \cup {Spare}
       /\ d \in todo => mem.roles[d] # FaultyRole
       /\ d \notin todo /\ mem.roles[d] # FaultyRole => sb[d] = mem
       /\ d \in InSync => Own(d) = mem.roles[d]
       /\ d \in mem.recovering => Own(d) = Spare \/ d \in sb[d].recovering
       /\ \A e \in Devices : mem.roles[d] \in Roles /\ mem.roles[d] = mem.roles[e] => d = e
<1>2. SUFFICES ASSUME NEW d \in Devices PROVE OwnsOf(d)'
  BY DEF Owns
<1>3. OwnsOf(d)
  BY DEF Owns
<1>4. CASE Flush
  <2>1. PICK x \in todo : sb' = [sb EXCEPT ![x] = mem] /\ todo' = todo \ {x} /\ mem' = mem
    BY <1>4 DEF Flush
  <2>2. x \in Devices /\ mem.roles[x] \in Roles \cup {Spare}
    <3>1. x \in Devices
      BY DEF DriveType
    <3> QED BY <1>1, <3>1 DEF Owns
  <2>3. sb'[d] = IF d = x THEN mem ELSE sb[d]
    BY <2>1, <2>2 DEF DriveType
  <2>4. InSync' = InSync
    BY <1>0, <2>1 DEF InSync
  <2> QED BY <1>0, <1>3, <2>1, <2>2, <2>3, <2>4 DEF Own
<1>5. CASE UNCHANGED <<a, mem, sb, todo>>
  <2>1. InSync' = InSync
    BY <1>0, <1>5 DEF InSync
  <2> QED BY <1>0, <1>3, <1>5, <2>1 DEF Own
<1>6. ASSUME Changed
      PROVE  /\ Own(d)' = Own(d) /\ sb'[d] = sb[d]
             /\ d \in todo' <=> mem'.roles[d] # FaultyRole
  BY <1>6 DEF Changed, Own
<1>7. CASE Marked
  <2>1. Changed /\ mem'.recovering = mem.recovering /\ mem'.roles = mem.roles
    BY <1>7 DEF Marked
  <2>2. InSync' = InSync
    BY <1>0, <2>1 DEF InSync
  <2> QED BY <1>0, <1>3, <1>6, <2>1, <2>2
<1>8. ASSUME NEW x \in InSync, Lost(x) PROVE OwnsOf(d)'
  <2>1. Changed /\ mem'.recovering = mem.recovering /\ mem'.roles = [mem.roles EXCEPT ![x] = FaultyRole]
    BY <1>8 DEF Lost
  <2>2. x \in Devices
    BY DEF InSync
  <2>3. \A e \in Devices : mem'.roles[e] = IF e = x THEN FaultyRole ELSE mem.roles[e]
    BY <1>1, <2>1, <2>2
  <2>4. d \in InSync' => d \in InSync /\ d # x
    BY <1>0, <2>1, <2>3 DEF InSync, FaultyRole
  <2>5. \A e \in Devices : mem'.roles[d] \in Roles /\ mem'.roles[d] = mem'.roles[e] => d = e
    BY <1>0, <1>3, <2>3 DEF FaultyRole
  <2> QED BY <1>0, <1>3, <1>6, <2>1, <2>3, <2>4, <2>5
<1>9. ASSUME NEW x, Listed(x) PROVE OwnsOf(d)'
  <2>1. Changed /\ mem'.recovering = mem.recovering /\ mem'.roles = mem.roles
    BY <1>9 DEF Listed
  <2>2. InSync' = InSync
    BY <1>0, <2>1 DEF InSync
  <2> QED BY <1>0, <1>3, <1>6, <2>1, <2>2
<1>10. ASSUME NEW x \in Devices, NEW r \in Roles, Joined(x, r) PROVE OwnsOf(d)'
  <2>1. /\ Changed /\ mem'.recovering = mem.recovering \cup {x} /\ mem'.roles = [mem.roles EXCEPT ![x] = r]
        /\ todo = {} /\ mem.roles[x] = Spare /\ \A e \in Devices : mem.roles[e] # r
    BY <1>10 DEF Joined
  <2>2. \A e \in Devices : mem'.roles[e] = IF e = x THEN r ELSE mem.roles[e]
    BY <1>1, <2>1
  <2>3. d \in InSync' => d \in InSync
    BY <1>0, <2>1, <2>2 DEF InSync
  <2>4. d = x => Own(d) = Spare
    BY <1>3, <2>1 DEF Own, Spare, FaultyRole
  <2>5. \A e \in Devices : mem'.roles[d] \in Roles /\ mem'.roles[d] = mem'.roles[e] => d = e
    BY <1>0, <1>3, <2>1, <2>2
  <2>6. d \in InSync => d # x
    BY <1>0, <2>1 DEF InSync, Spare
  <2> QED BY <1>0, <1>3, <1>6, <2>1, <2>2, <2>3, <2>4, <2>5, <2>6
<1>11. ASSUME NEW x \in mem.recovering, Rebuilds(x) PROVE OwnsOf(d)'
  <2>1. /\ Changed /\ mem'.recovering = mem.recovering \ {x} /\ mem'.roles = mem.roles
        /\ todo = {}
    BY <1>11 DEF Rebuilds
  <2>2. d \in InSync' => mem.roles[d] \in Roles
    BY <1>0, <2>1 DEF InSync
  <2>3. d \in InSync' => Own(d) = mem.roles[d]
    BY <1>0, <1>3, <2>1, <2>2 DEF Own, FaultyRole
  <2> QED BY <1>0, <1>3, <1>6, <2>1, <2>3
<1> HIDE DEF OwnsOf
<1> QED BY <1>4, <1>5, <1>7, <1>8, <1>9, <1>10, <1>11, Steps DEF WriteBegins, WriteLands, WriteEnds

(* While a write is under way, no superblock that says clean comes level    *)
(* with that of a device of the array.                                      *)
LEMMA UnderWayKept ==
    ASSUME DriveType, History, Owns, UnderWay, Drive
    PROVE  UnderWay'
<1>0. /\ a' = a /\ Roles' = Roles /\ Roles \subseteq Nat /\ \A r, c : Holds(r, c)' <=> Holds(r, c)
  BY DriveKeepsArray, SameArray, Shapes DEF DriveType
<1>1. /\ mem \in Super /\ mem.roles \in [Devices -> Roles \cup {Spare, FaultyRole}]
      /\ \A d \in Devices : sb[d] \in Super /\ sb[d].events \in Nat
      /\ mem.events \in Nat
  BY DEF DriveType, Super
<1>2. CASE writing' = NoWrite
  BY <1>2 DEF UnderWay
<1>3. SUFFICES ASSUME writing' # NoWrite PROVE UnderWay'
  BY <1>2
<1>4. CASE Flush
  <2>1. /\ mem' = mem /\ writing' = writing /\ writing # NoWrite /\ ~mem.clean
        /\ InSync' = InSync /\ Attached' = Attached
    BY <1>0, <1>3, <1>4 DEF Flush, UnderWay, InSync, Attached
  <2>2. PICK x \in todo : sb' = [sb EXCEPT ![x] = mem]
    BY <1>4 DEF Flush
  <2>3. x \in Attached
    <3>1. x \in Devices
      BY DEF DriveType
    <3> QED BY <3>1 DEF Owns, Attached
  <2>4. \A e \in Devices : sb'[e] = IF e = x THEN mem ELSE sb[e]
    BY <2>2 DEF DriveType
  <2>5. ASSUME NEW d \in Attached, NEW f \in Devices, sb'[f].clean
        PROVE  sb'[f].events < sb'[d].events
    <3>1. d \in Devices /\ f # x /\ sb[f].clean
      BY <2>1, <2>4, <2>5 DEF Attached
    <3>2. sb[f].events < sb[d].events /\ sb[f].events < sb[x].events
      BY <2>1, <2>3, <3>1 DEF UnderWay
    <3>3. x \in Devices /\ sb[x].events \in 1..mem.events
      BY <2>3 DEF Attached, History
    <3>4. sb[f].events < mem.events
      BY <1>1, <3>2, <3>3
    <3> QED BY <2>4, <3>1, <3>2, <3>4
  <2> QED BY <1>0, <2>1, <2>5 DEF UnderWay
<1>5. CASE WriteBegins
  <2>1. PICK c \in Chunks : writing'.chunk = c
                            /\ writing'.left = {d \in InSync \ mem.bad : Holds(mem.roles[d], c)}
    BY <1>5 DEF WriteBegins
  <2>2. /\ mem' = mem /\ sb' = sb /\ todo = {} /\ ~mem.clean /\ InSync' = InSync /\ Attached' = Attached
    BY <1>0, <1>5 DEF WriteBegins, InSync, Attached
  <2>3. ASSUME NEW d \in Attached, NEW f \in Devices, sb[f].clean
        PROVE  sb[f].events < sb[d].events
    <3>1. d \in Devices /\ sb[d] = mem
      BY <2>2 DEF Attached, Owns
    <3>2. sb[f].events \in 1..mem.events /\ sb[f].events # mem.events
      BY <1>1, <2>2, <2>3 DEF History, Earlier
    <3> QED BY <1>1, <3>1, <3>2
  <2> QED BY <1>0, <2>1, <2>2, <2>3 DEF UnderWay
<1>6. CASE WriteLands
  <2>1. PICK d \in writing.left : writing' = [writing EXCEPT !.left = @ \ {d}]
    BY <1>6 DEF WriteLands
  <2>2. writing # NoWrite /\ writing \in Writes
    BY <2>1 DEF NoWrite, DriveType
  <2>3. writing'.left \subseteq writing.left /\ writing'.chunk = writing.chunk
    BY <2>1, <2>2 DEF Writes
  <2>4. UNCHANGED <<mem, sb>> /\ InSync' = InSync /\ Attached' = Attached
    BY <1>0, <1>6 DEF WriteLands, InSync, Attached
  <2> QED BY <1>0, <2>2, <2>3, <2>4 DEF UnderWay
<1>7. CASE WriteEnds
  BY <1>3, <1>7 DEF WriteEnds
<1>8. CASE Marked
  <2>1. writing' = writing /\ (mem.clean \/ writing = NoWrite)
    BY <1>8 DEF Marked
  <2> QED BY <1>3, <2>1 DEF UnderWay
<1>9. ASSUME Changed, mem'.clean = mem.clean, writing # NoWrite, writing'.left \subseteq writing.left,
             writing'.chunk = writing.chunk, Attached' \subseteq Attached,
             writing'.left \subseteq InSync' \ mem'.bad,
             \A d \in writing'.left : mem'.roles[d] = mem.roles[d]
      PROVE  UnderWay'
  BY <1>0, <1>9 DEF UnderWay, Changed
<1>10. \A x : /\ writing' = [writing EXCEPT !.left = @ \ {x}]
              => /\ writing # NoWrite
                 /\ writing'.left = writing.left \ {x} /\ writing'.chunk = writing.chunk
  <2>1. ASSUME NEW x, writing' = [writing EXCEPT !.left = @ \ {x}], writing = NoWrite PROVE FALSE
    <3>1. NoWrite.left \ {x} = {} /\ [NoWrite EXCEPT !.left = {}] = NoWrite
      BY DEF NoWrite
    <3> QED BY <1>3, <2>1, <3>1
  <2>2. writing # NoWrite => writing \in Writes
    BY DEF DriveType
  <2> QED BY <2>1, <2>2 DEF Writes
<1>11. ASSUME NEW x \in InSync, Lost(x) PROVE UnderWay'
  <2>1. /\ Changed /\ mem'.clean = mem.clean /\ mem'.recovering = mem.recovering /\ mem'.bad = mem.bad
        /\ mem'.roles = [mem.roles EXCEPT ![x] = FaultyRole]
        /\ writing' = [writing EXCEPT !.left = @ \ {x}]
    BY <1>11 DEF Lost
  <2>2. x \in Devices
    BY DEF InSync
  <2>3. \A e \in Devices : mem'.roles[e] = IF e = x THEN FaultyRole ELSE mem.roles[e]
    BY <1>1, <2>1, <2>2
  <2>4. writing # NoWrite /\ writing'.left = writing.left \ {x} /\ writing'.chunk = writing.chunk
    BY <1>10, <2>1
  <2>5. Attached' \subseteq Attached /\ InSync \ {x} \subseteq InSync'
    BY <1>0, <2>1, <2>3 DEF Attached, InSync
  <2>6. writing.left \subseteq InSync \ mem.bad /\ InSync \subseteq Devices
    BY <2>4 DEF UnderWay, InSync
  <2> QED BY <1>9, <2>1, <2>3, <2>4, <2>5, <2>6
<1>12. ASSUME NEW x \in writing.left, Listed(x) PROVE UnderWay'
  <2>1. /\ Changed /\ mem'.clean = mem.clean /\ mem'.recovering = mem.recovering
        /\ mem'.bad = mem.bad \cup {x}
        /\ mem'.roles = mem.roles /\ writing' = [writing EXCEPT !.left = @ \ {x}]
    BY <1>12 DEF Listed
  <2>2. writing # NoWrite /\ writing'.left = writing.left \ {x} /\ writing'.chunk = writing.chunk
    BY <1>10, <2>1
  <2>3. Attached' = Attached /\ InSync' = InSync
    BY <1>0, <2>1 DEF Attached, InSync
  <2>4. writing.left \subseteq InSync \ mem.bad
    BY <2>2 DEF UnderWay
  <2> QED BY <1>9, <2>1, <2>2, <2>3, <2>4
<1>13. ASSUME NEW x \in Devices, NEW r \in Roles, Joined(x, r) PROVE UnderWay'
  <2>1. /\ Changed /\ mem'.clean = mem.clean /\ mem'.recovering = mem.recovering \cup {x}
        /\ mem'.bad = mem.bad /\ mem'.roles = [mem.roles EXCEPT ![x] = r] /\ mem.roles[x] = Spare
        /\ writing' = writing
    BY <1>13 DEF Joined
  <2>2. \A e \in Devices : mem'.roles[e] = IF e = x THEN r ELSE mem.roles[e]
    BY <1>1, <2>1
  <2>3. x \notin InSync /\ InSync \subseteq InSync' /\ Attached' \subseteq Attached /\ InSync \subseteq Devices
    BY <1>0, <2>1, <2>2 DEF InSync, Attached, Spare, FaultyRole
  <2>4. writing # NoWrite /\ writing.left \subseteq InSync \ mem.bad
    BY <1>3, <2>1 DEF UnderWay
  <2> QED BY <1>9, <2>1, <2>2, <2>3, <2>4
<1>14. ASSUME NEW x, Rebuilds(x) PROVE FALSE
  BY <1>3, <1>14 DEF Rebuilds
<1> QED BY <1>4, <1>5, <1>6, <1>7, <1>8, <1>11, <1>12, <1>13, <1>14, Steps

(* A device in sync stays up to date.                                       *)
LEMMA UpToDateKept ==
    ASSUME DriveType, History, Owns, UnderWay, UpToDate, Drive
    PROVE  UpToDate'
<1>0. /\ a' = a /\ Roles' = Roles /\ Chunks' = Chunks /\ \A r, c : Holds(r, c)' <=> Holds(r, c)
      /\ NoWrite.chunk \notin Chunks /\ Roles \subseteq Nat
  BY DriveKeepsArray, SameArray, Shapes DEF DriveType
<1>1. /\ mem \in Super /\ mem.roles \in [Devices -> Roles \cup {Spare, FaultyRole}]
      /\ InSync \subseteq Devices
  BY DEF DriveType, Super, InSync
<1> DEFINE Old(d, c) == IF writing.chunk = c /\ d \notin writing.left THEN writing.number ELSE acked[c]
<1>2. SUFFICES ASSUME NEW d \in InSync' \ mem'.bad, NEW c \in Chunks, Holds(mem'.roles[d], c)
               PROVE  disk'[d][c] = Old(d, c)'
  BY <1>0 DEF UpToDate
<1>3. ASSUME d \in InSync \ mem.bad, mem'.roles[d] = mem.roles[d] PROVE disk[d][c] = Old(d, c)
  BY <1>2, <1>3 DEF UpToDate
<1>4. ASSUME UNCHANGED <<mem, disk, writing, acked>> PROVE disk'[d][c] = Old(d, c)'
  <2>1. InSync' = InSync
    BY <1>0, <1>4 DEF InSync
  <2> QED BY <1>2, <1>3, <1>4, <2>1
<1>5. CASE WriteBegins
  <2>1. PICK k \in Chunks : writing'.chunk = k
                            /\ writing'.left = {x \in InSync \ mem.bad : Holds(mem.roles[x], k)}
    BY <1>5 DEF WriteBegins
  <2>2. UNCHANGED <<mem, disk, acked>> /\ writing = NoWrite /\ InSync' = InSync
    BY <1>0, <1>5 DEF WriteBegins, InSync
  <2>3. disk[d][c] = acked[c]
    BY <1>0, <1>2, <1>3, <2>2
  <2>4. c = k => d \in writing'.left
    BY <1>2, <2>1, <2>2
  <2> QED BY <2>1, <2>2, <2>3, <2>4
<1>6. CASE WriteLands
  <2>1. PICK x \in writing.left :
           /\ disk' = [disk EXCEPT ![x][writing.chunk] = writing.number]
           /\ writing' = [writing EXCEPT !.left = @ \ {x}]
    BY <1>6 DEF WriteLands
  <2>2. writing \in Writes /\ writing # NoWrite
    BY <2>1 DEF DriveType, NoWrite
  <2>3. /\ writing'.left = writing.left \ {x} /\ writing'.chunk = writing.chunk
        /\ writing'.number = writing.number /\ x \in Devices /\ writing.chunk \in Chunks
    BY <2>1, <2>2 DEF Writes
  <2>4. UNCHANGED <<mem, acked>> /\ InSync' = InSync
    BY <1>0, <1>6 DEF WriteLands, InSync
  <2>5. disk[d][c] = Old(d, c) /\ d \in Devices
    BY <1>1, <1>2, <1>3, <2>4
  <2>6. disk'[d][c] = IF d = x /\ c = writing.chunk THEN writing.number ELSE disk[d][c]
    <3>1. disk \in [Devices -> [Chunks -> Numbers]]
      BY DEF DriveType
    <3> QED BY <2>1, <2>3, <2>5, <3>1
  <2> QED BY <2>3, <2>4, <2>5, <2>6
<1>7. CASE WriteEnds
  <2>1. /\ writing # NoWrite /\ writing.left = {} /\ writing' = NoWrite
        /\ acked' = [acked EXCEPT ![writing.chunk] = writing.number]
        /\ UNCHANGED <<mem, disk>> /\ InSync' = InSync
    BY <1>0, <1>7 DEF WriteEnds, InSync
  <2>2. writing.chunk \in Chunks /\ acked \in [Chunks -> Numbers]
    BY <2>1 DEF DriveType, Writes
  <2>3. acked'[c] = IF c = writing.chunk THEN writing.number ELSE acked[c]
    BY <2>1, <2>2
  <2>4. disk[d][c] = Old(d, c)
    BY <1>2, <1>3, <2>1
  <2> QED BY <1>0, <2>1, <2>3, <2>4
<1>8. CASE Marked
  <2>1. UNCHANGED <<disk, writing, acked>> /\ InSync' = InSync /\ mem'.roles = mem.roles /\ mem'.bad = mem.bad
    BY <1>0, <1>8 DEF Marked, InSync
  <2> QED BY <1>2, <1>3, <2>1
<1>9. \A x : writing' = [writing EXCEPT !.left = @ \ {x}]
             => /\ writing'.left = writing.left \ {x} /\ writing'.chunk = writing.chunk
                /\ writing'.number = writing.number
  BY DEF DriveType, Writes, NoWrite
<1>10. ASSUME NEW x \in InSync, Lost(x) PROVE disk'[d][c] = Old(d, c)'
  <2>1. /\ mem'.recovering = mem.recovering /\ mem'.bad = mem.bad /\ UNCHANGED <<disk, acked>>
        /\ mem'.roles = [mem.roles EXCEPT ![x] = FaultyRole]
        /\ writing' = [writing EXCEPT !.left = @ \ {x}]
    BY <1>10 DEF Lost
  <2>2. d \in InSync /\ d # x /\ mem'.roles[d] = mem.roles[d]
    BY <1>0, <1>1, <1>2, <2>1 DEF InSync, FaultyRole
  <2> QED BY <1>2, <1>3, <1>9, <2>1, <2>2
<1>11. ASSUME NEW x, Listed(x) PROVE disk'[d][c] = Old(d, c)'
  <2>1. /\ mem'.recovering = mem.recovering /\ mem'.bad = mem.bad \cup {x} /\ UNCHANGED <<disk, acked>>
        /\ mem'.roles = mem.roles
        /\ writing' = [writing EXCEPT !.left = @ \ {x}] /\ InSync' = InSync
    BY <1>0, <1>11 DEF Listed, InSync
  <2> QED BY <1>2, <1>3, <1>9, <2>1
<1>12. ASSUME NEW x \in Devices, NEW r \in Roles, Joined(x, r) PROVE disk'[d][c] = Old(d, c)'
  <2>1. /\ mem'.recovering = mem.recovering \cup {x} /\ mem'.bad = mem.bad
        /\ mem'.roles = [mem.roles EXCEPT ![x] = r] /\ UNCHANGED <<disk, writing, acked>>
    BY <1>12 DEF Joined
  <2>2. d \in InSync /\ mem'.roles[d] = mem.roles[d]
    BY <1>0, <1>1, <1>2, <2>1 DEF InSync
  <2> QED BY <1>2, <1>3, <2>1, <2>2
<1>13. ASSUME NEW x \in mem.recovering, x \in Devices, Rebuilds(x) PROVE disk'[d][c] = Old(d, c)'
  <2>1. /\ mem'.recovering = mem.recovering \ {x} /\ mem'.bad = mem.bad /\ mem'.roles = mem.roles
        /\ disk' = [disk EXCEPT ![x] =
                      [k \in Chunks |-> IF Holds(mem.roles[x], k) THEN acked[k] ELSE Blank]]
        /\ UNCHANGED <<writing, acked>> /\ writing = NoWrite
    BY <1>13 DEF Rebuilds
  <2>2. disk \in [Devices -> [Chunks -> Numbers]] /\ d \in Devices
    BY <1>2 DEF DriveType, InSync
  <2>3. CASE d = x
    BY <1>0, <1>2, <2>1, <2>2, <2>3
  <2>4. CASE d # x
    <3>1. d \in InSync \ mem.bad /\ disk'[d] = disk[d]
      BY <1>0, <1>2, <2>1, <2>2, <2>4 DEF InSync
    <3> QED BY <1>2, <1>3, <2>1, <3>1
  <2> QED BY <2>3, <2>4
<1> HIDE DEF Old
<1> QED BY <1>4, <1>5, <1>6, <1>7, <1>8, <1>10, <1>11, <1>12, <1>13, Steps DEF Flush

(* No device comes to say it is up to date unless it is, or all know that   *)
(* it failed.                                                               *)
LEMMA FreshOrToldKept ==
    ASSUME DriveType, History, Owns, UnderWay, UpToDate, FreshOrTold, Drive
    PROVE  FreshOrTold'
<1>0. /\ a' = a /\ Roles' = Roles /\ Chunks' = Chunks /\ \A r, c : Holds(r, c)' <=> Holds(r, c)
      /\ NoWrite.chunk \notin Chunks /\ Roles \subseteq Nat
  BY DriveKeepsArray, SameArray, Shapes DEF DriveType
<1>1. /\ mem \in Super /\ mem.roles \in [Devices -> Roles \cup {Spare, FaultyRole}]
      /\ disk \in [Devices -> [Chunks -> Numbers]]
  BY DEF DriveType, Super
<1> DEFINE FreshOf(d) == Told(d) \/ \A c \in Chunks : Holds(Own(d), c) => disk[d][c] \in Current(c)
<1>2. SUFFICES ASSUME NEW d \in Devices, Says(d)' PROVE FreshOf(d)'
  BY DEF FreshOrTold
<1>3. Says(d) => FreshOf(d)
  BY DEF FreshOrTold
<1>4. CASE Flush
  <2>1. PICK x \in todo : sb' = [sb EXCEPT ![x] = mem]
    BY <1>4 DEF Flush
  <2>2. UNCHANGED <<mem, disk, writing, acked>> /\ Attached' = Attached /\ \A c : Current(c)' = Current(c)
    BY <1>4 DEF Flush, Attached, Current
  <2>3. x \in Devices
    BY DEF DriveType
  <2>4. \A e \in Devices : sb'[e] = IF e = x THEN mem ELSE sb[e]
    BY <2>1, <2>3 DEF DriveType
  <2>5. CASE d = x
    <3>1. Own(d)' = mem.roles[d] /\ d \in InSync \ mem.bad
      BY <1>0, <1>2, <2>4, <2>5 DEF Says, Own, InSync
    <3>2. \A c \in Chunks : Holds(mem.roles[d], c) => disk[d][c] \in Current(c)
      BY <3>1 DEF UpToDate, Current
    <3> QED BY <1>0, <2>2, <3>1, <3>2
  <2>6. CASE d # x
    <3>1. sb'[d] = sb[d] /\ Own(d)' = Own(d) /\ Says(d)
      BY <1>0, <1>2, <2>4, <2>6 DEF Says, Own
    <3>2. Told(d) => Told(d)'
      BY <2>2, <2>4 DEF Told, Attached
    <3> QED BY <1>0, <1>3, <2>2, <3>1, <3>2
  <2> QED BY <2>5, <2>6
<1>5. ASSUME UNCHANGED <<mem, sb>>
      PROVE  Attached' = Attached /\ Own(d)' = Own(d) /\ Says(d) /\ (Told(d)' <=> Told(d))
  BY <1>0, <1>2, <1>5 DEF Attached, Own, Says, Told
<1>6. CASE WriteBegins
  <2>1. /\ Attached' = Attached /\ Own(d)' = Own(d) /\ Says(d) /\ (Told(d)' <=> Told(d))
        /\ UNCHANGED <<mem, sb>>
    BY <1>5, <1>6 DEF WriteBegins
  <2>2. \A c \in Chunks : Current(c) \subseteq Current(c)'
    <3>1. writing = NoWrite /\ acked' = acked
      BY <1>6 DEF WriteBegins
    <3> QED BY <1>0, <3>1 DEF Current
  <2>3. disk' = disk
    BY <1>6 DEF WriteBegins
  <2>4. ASSUME NEW c \in Chunks, disk[d][c] \in Current(c) PROVE disk'[d][c] \in Current(c)'
    BY <2>2, <2>3, <2>4
  <2> QED BY <1>0, <1>2, <1>3, <2>1, <2>4
<1>7. CASE WriteLands
  <2>1. /\ Attached' = Attached /\ Own(d)' = Own(d) /\ Says(d) /\ (Told(d)' <=> Told(d))
        /\ UNCHANGED <<mem, sb>>
    BY <1>5, <1>7 DEF WriteLands
  <2>2. PICK x \in writing.left :
           /\ disk' = [disk EXCEPT ![x][writing.chunk] = writing.number]
           /\ writing' = [writing EXCEPT !.left = @ \ {x}]
           /\ acked' = acked
    BY <1>7 DEF WriteLands
  <2>3. writing \in Writes
    BY <2>2 DEF DriveType, NoWrite
  <2>4. /\ writing'.chunk = writing.chunk /\ writing'.number = writing.number
        /\ x \in Devices /\ writing.chunk \in Chunks
    BY <2>2, <2>3 DEF Writes
  <2>5. \A c : Current(c)' = Current(c)
    BY <2>2, <2>4 DEF Current
  <2>6. ASSUME NEW c \in Chunks, disk[d][c] \in Current(c) PROVE disk'[d][c] \in Current(c)'
    <3>1. disk'[d][c] = IF d = x /\ c = writing.chunk THEN writing.number ELSE disk[d][c]
      BY <1>1, <2>2, <2>4
    <3> QED BY <2>5, <2>6, <3>1 DEF Current
  <2> QED BY <1>0, <1>2, <1>3, <2>1, <2>6
<1>8. CASE WriteEnds
  <2>1. /\ Attached' = Attached /\ Own(d)' = Own(d) /\ Says(d) /\ (Told(d)' <=> Told(d))
        /\ UNCHANGED <<mem, sb>>
    BY <1>5, <1>8 DEF WriteEnds
  <2>2. /\ writing # NoWrite /\ writing.left = {} /\ writing' = NoWrite /\ todo = {} /\ disk' = disk
        /\ acked' = [acked EXCEPT ![writing.chunk] = writing.number]
    BY <1>8 DEF WriteEnds
  <2>3. writing.chunk \in Chunks /\ acked \in [Chunks -> Numbers]
    BY <2>2 DEF DriveType, Writes
  <2>4. \A e \in Attached : sb[e] = mem
    BY <2>2 DEF Attached, Owns
  <2>5. CASE mem.roles[d] = FaultyRole
    <3>1. Told(d)
      BY <2>4, <2>5 DEF Told
    <3> QED BY <2>1, <3>1
  <2>6. CASE mem.roles[d] # FaultyRole
    <3>1. sb[d] = mem /\ d \in InSync \ mem.bad
      BY <1>0, <1>2, <2>1, <2>4, <2>6 DEF Attached, Says, Own, InSync
    <3>2. \A c \in Chunks :
             Holds(mem.roles[d], c) =>
               disk[d][c] = IF writing.chunk = c THEN writing.number ELSE acked[c]
      BY <2>2, <3>1 DEF UpToDate
    <3>3. \A c \in Chunks : acked'[c] = IF writing.chunk = c THEN writing.number ELSE acked[c]
      BY <2>2, <2>3
    <3>4. \A c \in Chunks : acked'[c] \in Current(c)'
      BY DEF Current
    <3> QED BY <1>0, <2>1, <2>2, <3>1, <3>2, <3>3, <3>4 DEF Own
  <2> QED BY <2>5, <2>6
<1>9. ASSUME Changed, disk' = disk, acked' = acked, writing'.chunk = writing.chunk,
             writing'.number = writing.number
      PROVE  FreshOf(d)'
  <2>1. sb'[d] = sb[d] /\ Own(d)' = Own(d) /\ Says(d) /\ Attached' \subseteq Attached
    BY <1>0, <1>2, <1>9 DEF Changed, Own, Says, Attached
  <2>2. Told(d) => Told(d)'
    BY <1>9, <2>1 DEF Told, Changed
  <2>3. \A c : Current(c)' = Current(c)
    BY <1>9 DEF Current
  <2> QED BY <1>0, <1>3, <1>9, <2>1, <2>2, <2>3
<1>10. CASE Marked
  BY <1>9, <1>10 DEF Marked
<1>11. \A x : writing' = [writing EXCEPT !.left = @ \ {x}]
              => writing'.chunk = writing.chunk /\ writing'.number = writing.number
  BY DEF DriveType, Writes, NoWrite
<1>12. ASSUME NEW x, Lost(x) PROVE FreshOf(d)'
  BY <1>9, <1>11, <1>12 DEF Lost
<1>13. ASSUME NEW x, Listed(x) PROVE FreshOf(d)'
  BY <1>9, <1>11, <1>13 DEF Listed
<1>14. ASSUME NEW x, NEW r, Joined(x, r) PROVE FreshOf(d)'
  BY <1>9, <1>14 DEF Joined
<1>15. ASSUME NEW x \in mem.recovering, x \in Devices, Rebuilds(x) PROVE FreshOf(d)'
  <2>1. /\ Changed /\ UNCHANGED <<writing, acked>>
        /\ disk' = [disk EXCEPT ![x] =
                      [k \in Chunks |-> IF Holds(mem.roles[x], k) THEN acked[k] ELSE Blank]]
    BY <1>15 DEF Rebuilds
  <2>2. sb'[d] = sb[d] /\ Own(d)' = Own(d) /\ Says(d) /\ Attached' \subseteq Attached
    BY <1>0, <1>2, <2>1 DEF Changed, Own, Says, Attached
  <2>3. Told(d) => Told(d)'
    BY <2>1, <2>2 DEF Told, Changed
  <2>4. d # x
    BY <1>0, <1>15, <2>2 DEF Owns, Says, Spare
  <2>5. disk'[d] = disk[d] /\ \A c : Current(c)' = Current(c)
    BY <1>1, <2>1, <2>4 DEF Current
  <2> QED BY <1>0, <1>3, <2>2, <2>3, <2>5
<1> HIDE DEF FreshOf
<1> QED BY <1>4, <1>6, <1>7, <1>8, <1>10, <1>12, <1>13, <1>14, <1>15, Steps

(* A superblock that says clean is written once what was under way has      *)
(* ended, by devices that all have it.                                      *)
LEMMA InStepKept ==
    ASSUME DriveInv, Drive, FreshOrTold'
    PROVE  InStepWhenClean'
<1> USE DEF DriveInv
<1>0. /\ a' = a /\ Roles' = Roles /\ Chunks' = Chunks /\ \A r, c : Holds(r, c)' <=> Holds(r, c)
      /\ NoWrite.chunk \notin Chunks /\ Roles \subseteq Nat
  BY DriveKeepsArray, SameArray, Shapes DEF DriveType
<1>1. /\ mem \in Super /\ mem.roles \in [Devices -> Roles \cup {Spare, FaultyRole}]
      /\ disk \in [Devices -> [Chunks -> Numbers]] /\ mem.events \in Nat
      /\ \A d \in Devices : sb[d] \in Super /\ sb[d].events \in Nat
  BY DEF DriveType, Super
<1>2. SUFFICES ASSUME NEW f \in Devices, NEW d \in Devices, NEW e \in Devices,
                      sb'[f].clean, Counted(d, f)', Counted(e, f)',
                      NEW c \in Chunks, Holds(Own(d)', c), Holds(Own(e)', c)
               PROVE  disk'[d][c] = disk'[e][c]
  BY <1>0 DEF InStepWhenClean
<1>3. ASSUME UNCHANGED sb
      PROVE  /\ \A x, y : (Counted(x, y)' <=> Counted(x, y)) /\ (Says(x)' <=> Says(x)) /\ Own(x)' = Own(x)
             /\ disk[d][c] = disk[e][c]
  <2>1. \A x, y : (Counted(x, y)' <=> Counted(x, y)) /\ (Says(x)' <=> Says(x)) /\ Own(x)' = Own(x)
    BY <1>0, <1>3 DEF Counted, Says, Own, Role
  <2> QED BY <1>2, <1>3, <2>1 DEF InStepWhenClean
<1>4. CASE Flush
  <2>1. PICK x \in todo : sb' = [sb EXCEPT ![x] = mem]
    BY <1>4 DEF Flush
  <2>2. UNCHANGED <<mem, disk, writing, acked>> /\ Attached' = Attached
    BY <1>4 DEF Flush, Attached
  <2>3. x \in Devices /\ x \in Attached
    <3>1. x \in Devices
      BY DEF DriveType
    <3> QED BY <3>1 DEF Owns, Attached
  <2>4. \A y \in Devices : sb'[y] = IF y = x THEN mem ELSE sb[y]
    BY <2>1, <2>3 DEF DriveType
  <2>5. CASE sb'[f] = mem
    <3>1. writing = NoWrite
      BY <1>2, <2>5 DEF UnderWay
    <3>2. ASSUME NEW y \in Devices, Counted(y, f)' PROVE ~Told(y)'
      <4>1. SUFFICES ASSUME Told(y)' PROVE FALSE
        OBVIOUS
      <4>2. mem.roles[y] = FaultyRole /\ y # x
        BY <2>2, <2>3, <4>1 DEF Told, Attached
      <4>3. /\ Own(y)' \in Roles /\ sb'[y] = sb[y] /\ sb[y].roles[y] \in Roles /\ Role(y, f)' \in Roles
            /\ sb[y].events <= mem.events /\ mem.events <= sb[y].events + 1
        BY <1>0, <2>4, <2>5, <3>2, <4>2 DEF Counted, Says, Own
      <4>4. sb[y].events # mem.events
        BY <1>0, <4>2, <4>3 DEF History, Earlier, FaultyRole
      <4>5. sb[y].events + 1 = mem.events
        <5>1. sb[y].events \in Nat /\ mem.events \in Nat
          BY <1>1
        <5> QED BY <4>3, <4>4, <5>1
      <4>6. y # f /\ Own(y)' # Spare
        BY <1>0, <2>5, <4>2, <4>3 DEF FaultyRole, Spare
      <4>7. Role(y, f)' = mem.roles[y]
        BY <2>5, <4>3, <4>5, <4>6 DEF Role, Own
      <4> QED BY <1>0, <4>2, <4>3, <4>7 DEF FaultyRole
    <3>3. ASSUME NEW y \in Devices, Counted(y, f)', Holds(Own(y)', c) PROVE disk'[y][c] = acked[c]
      <4>1. Says(y)' /\ ~Told(y)'
        BY <3>2, <3>3 DEF Counted
      <4>2. disk'[y][c] \in Current(c)'
        BY <1>0, <3>3, <4>1 DEF FreshOrTold
      <4> QED BY <1>0, <2>2, <3>1, <4>2 DEF Current
    <3> QED BY <1>2, <3>3
  <2>6. CASE sb'[f] # mem
    <3>1. f # x /\ sb'[f] = sb[f]
      BY <2>4, <2>6
    <3>2. d # x /\ e # x
      <4>1. sb[f].events <= mem.events /\ sb[f].events # mem.events
        BY <1>1, <2>6, <3>1 DEF History, Earlier
      <4>2. ASSUME NEW y \in Devices, Counted(y, f)' PROVE y # x
        <5>1. sb'[y].events <= sb'[f].events
          BY <4>2 DEF Counted
        <5>2. mem.events \in Nat /\ sb[f].events \in Nat
          BY <1>1
        <5>3. y = x => mem.events <= sb[f].events
          BY <2>4, <3>1, <5>1
        <5> QED BY <4>1, <5>2, <5>3
      <4> QED BY <1>2, <4>2
    <3>3. sb'[d] = sb[d] /\ sb'[e] = sb[e]
      BY <2>4, <3>2
    <3>4. Counted(d, f) /\ Counted(e, f) /\ sb[f].clean /\ Own(d)' = Own(d) /\ Own(e)' = Own(e)
      BY <1>0, <1>2, <3>1, <3>3 DEF Counted, Says, Own, Role
    <3> QED BY <1>2, <2>2, <3>4 DEF InStepWhenClean
  <2> QED BY <2>5, <2>6
<1>5. CASE WriteLands
  <2>1. PICK x \in writing.left : disk' = [disk EXCEPT ![x][writing.chunk] = writing.number]
    BY <1>5 DEF WriteLands
  <2>2. writing # NoWrite /\ x \in InSync /\ sb' = sb
    BY <1>5, <2>1 DEF WriteLands, NoWrite, UnderWay
  <2>3. x \in Attached /\ x \in Devices
    BY <1>0, <2>2 DEF InSync, Attached, FaultyRole
  <2>4. sb[f].events < sb[x].events
    BY <1>2, <2>2, <2>3 DEF UnderWay
  <2>5. \A y \in Devices : Counted(y, f)' => y # x
    BY <1>1, <2>2, <2>4 DEF Counted
  <2>6. disk'[d] = disk[d] /\ disk'[e] = disk[e]
    BY <1>1, <1>2, <2>1, <2>5
  <2> QED BY <1>3, <2>2, <2>6
<1>6. ASSUME NEW x \in mem.recovering, x \in Devices, Rebuilds(x) PROVE disk'[d][c] = disk'[e][c]
  <2>1. /\ sb' = sb
        /\ disk' = [disk EXCEPT ![x] =
                      [k \in Chunks |-> IF Holds(mem.roles[x], k) THEN acked[k] ELSE Blank]]
    BY <1>6 DEF Rebuilds, Changed
  <2>2. ~Says(x)
    BY <1>0, <1>6 DEF Owns, Says, Spare
  <2>3. d # x /\ e # x
    BY <1>2, <1>3, <2>1, <2>2 DEF Counted
  <2>4. disk'[d] = disk[d] /\ disk'[e] = disk[e]
    BY <1>1, <2>1, <2>3
  <2> QED BY <1>3, <2>1, <2>4
<1>7. ASSUME UNCHANGED <<sb, disk>> PROVE disk'[d][c] = disk'[e][c]
  BY <1>3, <1>7
<1> QED BY <1>4, <1>5, <1>6, <1>7, Steps DEF WriteBegins, WriteEnds, Marked, Lost, Listed, Joined, Changed

(* All of it at the start.                                                  *)
LEMMA DriveStarts == DriveInit => DriveInv
<1> SUFFICES ASSUME DriveInit PROVE DriveInv
  OBVIOUS
<1>1. a \in Arrays /\ a.n \in Nat \ {0} /\ Roles = 0..(a.n - 1) /\ Roles \subseteq Nat
      /\ Chunks \subseteq Roles /\ NoWrite.chunk \notin Chunks
  BY Shapes DEF DriveInit
<1>2. Made \in Numbers /\ Blank \in Numbers
  BY MembersAssumption DEF Numbers, Made, Blank
<1>3. Devices \subseteq Nat \ {0}
  BY MembersAssumption
<1>4. /\ mem.roles = [d \in Devices |-> IF d <= a.n THEN d - 1 ELSE Spare]
      /\ mem.events = 1 /\ mem.clean /\ mem.recovering = {} /\ mem.bad = {}
      /\ mem \in Super /\ \A d \in Devices : sb[d] = mem
  <2>1. [d \in Devices |-> IF d <= a.n THEN d - 1 ELSE Spare]
          \in [Devices -> Roles \cup {Spare, FaultyRole}]
    BY <1>1, <1>3
  <2> QED BY <2>1 DEF DriveInit, Super
<1>5. /\ todo = {} /\ disk = [d \in Devices |-> Fresh(mem.roles[d])]
      /\ writing = NoWrite /\ acked = [c \in Chunks |-> Made] /\ sb \in [Devices -> Super]
  BY <1>4 DEF DriveInit
<1>6. \A d \in Devices, c \in Chunks :
         disk[d][c] = IF mem.roles[d] \in Roles /\ Holds(mem.roles[d], c) THEN Made ELSE Blank
  BY <1>5 DEF Fresh
<1>7. DriveType
  <2>1. disk \in [Devices -> [Chunks -> Numbers]]
    BY <1>2, <1>5 DEF Fresh
  <2> QED BY <1>1, <1>2, <1>4, <1>5, <2>1 DEF DriveType
<1>8. History
  <2>1. Earlier(mem, mem)
    BY DEF Earlier
  <2> QED BY <1>4, <2>1 DEF History
<1>9. \A d \in Devices : Own(d) = mem.roles[d] /\ (d \in InSync <=> mem.roles[d] \in Roles)
  BY <1>4 DEF Own, InSync
<1>10. Owns
  <2>1. \A d \in Devices : mem.roles[d] \in Roles \cup {Spare}
    BY <1>1, <1>3, <1>4
  <2>2. \A d, e \in Devices : mem.roles[d] \in Roles /\ mem.roles[d] = mem.roles[e] => d = e
    BY <1>1, <1>3, <1>4 DEF Spare
  <2> QED BY <1>1, <1>4, <1>5, <1>9, <2>1, <2>2 DEF Owns, Spare, FaultyRole
<1>11. UnderWay
  BY <1>5 DEF UnderWay
<1>12. UpToDate
  BY <1>1, <1>5, <1>6, <1>9 DEF UpToDate, InSync
<1>13. FreshOrTold
  BY <1>1, <1>5, <1>6, <1>9 DEF FreshOrTold, Says, Current
<1>14. InStepWhenClean
  BY <1>6, <1>9 DEF InStepWhenClean, Counted, Says
<1> QED BY <1>7, <1>8, <1>10, <1>11, <1>12, <1>13, <1>14 DEF DriveInv

(* And after every step of the driver.                                      *)
LEMMA DriveKept == DriveInv /\ Drive => DriveInv'
<1> SUFFICES ASSUME DriveInv, Drive PROVE DriveInv'
  OBVIOUS
<1>1. /\ DriveType /\ History /\ Owns /\ UnderWay /\ UpToDate /\ FreshOrTold /\ InStepWhenClean
  BY DEF DriveInv
<1>2. DriveType' /\ History' /\ Owns' /\ UnderWay' /\ UpToDate' /\ FreshOrTold'
  BY <1>1, TypeKept, HistoryKept, OwnsKept, UnderWayKept, UpToDateKept, FreshOrToldKept
<1>3. InStepWhenClean'
  BY <1>2, InStepKept
<1> QED BY <1>2, <1>3 DEF DriveInv

(* A step that is not the driver's leaves it.                               *)
LEMMA DriveStutters == DriveInv /\ UNCHANGED drive => DriveInv'
<1> SUFFICES ASSUME DriveInv, UNCHANGED drive PROVE DriveInv'
  OBVIOUS
<1>1. a' = a /\ mem' = mem /\ sb' = sb /\ todo' = todo /\ disk' = disk /\ writing' = writing /\ acked' = acked
  BY DEF drive
<1>2. InSync' = InSync /\ Attached' = Attached /\ \A c : Current(c)' = Current(c)
  BY <1>1, SameArray DEF InSync, Attached, Current
<1>3. /\ \A d : Own(d)' = Own(d) /\ (Says(d)' <=> Says(d)) /\ (Told(d)' <=> Told(d))
      /\ \A x, y : (Earlier(x, y)' <=> Earlier(x, y)) /\ (Counted(x, y)' <=> Counted(x, y))
  BY <1>1, <1>2, SameArray DEF Own, Says, Told, Earlier, Counted, Role
<1>4. DriveType' /\ History' /\ Owns' /\ UnderWay'
  BY <1>1, <1>2, <1>3, SameArray DEF DriveInv, DriveType, Numbers, History, Owns, UnderWay
<1>5. UpToDate' /\ FreshOrTold' /\ InStepWhenClean'
  BY <1>1, <1>2, <1>3, SameArray DEF DriveInv, UpToDate, FreshOrTold, InStepWhenClean
<1> QED BY <1>4, <1>5 DEF DriveInv

-----------------------------------------------------------------------------
(* The inductive invariant of the program: the array it put together is of  *)
(* the members given that its freshest superblock allows.                   *)

(* The superblock the program goes by is the latest of those with a role.   *)
Known(fresh) ==
    /\ fresh \in given
    /\ \A e \in given : Own(e) # Spare => Own(fresh) # Spare /\ sb[e].events <= sb[fresh].events

(* Each role is filled by one taken for it, and none of those has more      *)
(* events.                                                                  *)
Fills(m, fresh) ==
    /\ \A r \in DOMAIN m : m[r] \in given /\ Taken(m[r], fresh) /\ Role(m[r], fresh) = r
    /\ \A e \in given : Taken(e, fresh) =>
          Role(e, fresh) \in DOMAIN m /\ sb[e].events <= sb[m[Role(e, fresh)]].events

(* An array with parity that was not stopped clean is read only if all of   *)
(* its members can be.                                                      *)
WholeOrClean(m, clean) == Parity # {} /\ ~clean => \A r \in Roles : Usable(m, r)

Assembled ==
    /\ given \subseteq Devices /\ cut \subseteq given /\ failing \subseteq given
    /\ got \in [Chunks -> {Short, Garbage, NotYet} \cup Numbers]
    /\ given = {} => ~arr.made
    /\ ~arr.made => arr = NotAssembled /\ \A c \in Chunks : got[c] = NotYet
    /\ arr.made => \E fresh \in given :
          /\ Known(fresh) /\ Fills(arr.members, fresh)
          /\ arr.clean = sb[fresh].clean
          /\ ~arr.refused => WholeOrClean(arr.members, arr.clean)

IInv ==
    /\ DriveInv /\ Assembled
    /\ NothingStale /\ NothingMadeUp /\ AllThereIsIsRead /\ IncompleteIsRefused

-----------------------------------------------------------------------------
(* One that is taken fills the role it gives itself (_md_roles), and is at  *)
(* most one event late.                                                     *)
LEMMA TakenSays ==
    ASSUME DriveInv, given \subseteq Devices, NEW fresh, Known(fresh), NEW d \in given, Taken(d, fresh)
    PROVE  /\ d \in Devices /\ fresh \in Devices /\ fresh \in given
           /\ Own(d) \in Roles /\ Role(d, fresh) = Own(d)
           /\ d \notin sb[d].recovering /\ d \notin cut
           /\ sb[d].events <= sb[fresh].events /\ sb[fresh].events <= sb[d].events + 1
<1>1. d \in Devices /\ fresh \in Devices /\ fresh \in given
  BY DEF Known
<1>2. DriveType /\ History /\ Owns
  BY DEF DriveInv
<1>3. /\ a.n \in Nat /\ Roles = 0..(a.n - 1)
      /\ sb[d].roles[d] \in Roles \cup {Spare, FaultyRole} /\ sb[fresh].roles[d] \in Roles \cup {Spare, FaultyRole}
      /\ sb[d].events \in Nat /\ sb[fresh].events \in Nat
  BY <1>1, <1>2, Shapes DEF DriveType, Super
<1>4. Own(d) \in Roles \cup {Spare} /\ Role(d, fresh) \in Roles /\ sb[d].events + 1 >= sb[fresh].events
      /\ d \notin sb[d].recovering /\ d \notin cut
  BY <1>1, <1>2, <1>3 DEF Owns, Taken, Role, Own
<1>5. Own(d) \in Roles /\ Own(d) # Spare
  BY <1>3, <1>4 DEF Role, Spare
<1>6. sb[d].events <= sb[fresh].events
  BY <1>5 DEF Known
<1>7. Role(d, fresh) = Own(d)
  <2>1. Earlier(sb[d], sb[fresh])
    BY <1>1, <1>2 DEF History
  <2>2. sb[fresh].roles[d] \in {Own(d), FaultyRole}
    BY <1>1, <1>5, <1>6, <2>1 DEF Earlier, Own
  <2> QED BY <1>3, <1>4, <2>2 DEF Role, FaultyRole
<1> QED BY <1>1, <1>3, <1>4, <1>5, <1>6, <1>7

(* What the members of an array assembled are.                              *)
LEMMA MembersAre ==
    ASSUME DriveInv, given \subseteq Devices, NEW fresh, Known(fresh), NEW m, Fills(m, fresh)
    PROVE  /\ DOMAIN m \subseteq Roles
           /\ \A r \in DOMAIN m :
                 /\ m[r] \in Devices /\ m[r] \in given /\ Own(m[r]) = r
                 /\ sb[m[r]].events <= sb[fresh].events
                 /\ Reads(m, r) => Says(m[r]) /\ Counted(m[r], fresh)
<1> SUFFICES ASSUME NEW r \in DOMAIN m
             PROVE  /\ r \in Roles /\ m[r] \in Devices /\ m[r] \in given /\ Own(m[r]) = r
                    /\ sb[m[r]].events <= sb[fresh].events
                    /\ Reads(m, r) => Says(m[r]) /\ Counted(m[r], fresh)
  OBVIOUS
<1> DEFINE d == m[r]
<1>1. d \in given /\ Taken(d, fresh) /\ Role(d, fresh) = r
  BY DEF Fills
<1> HIDE DEF d
<1>2. /\ d \in Devices /\ Own(d) \in Roles /\ Role(d, fresh) = Own(d)
      /\ d \notin sb[d].recovering
      /\ sb[d].events <= sb[fresh].events /\ sb[fresh].events <= sb[d].events + 1
  BY <1>1, TakenSays
<1>3. Reads(m, r) => d \notin sb[d].bad
  BY DEF Reads, Usable, d
<1>4. Reads(m, r) => Says(d) /\ Counted(d, fresh)
  BY <1>1, <1>2, <1>3 DEF Says, Counted
<1> QED BY <1>1, <1>2, <1>4 DEF d

(* Where P and Q are.                                                       *)
LEMMA ParityIs ==
    ASSUME a \in Arrays
    PROVE  /\ P \in Int /\ Q = a.n - 1 /\ Data = Roles \ Parity
           /\ a.level = 5 => Parity = {P} /\ P = a.n - 1 /\ P \in Roles /\ Chunks = Data
           /\ a.level = 6 => Parity = {P, Q} /\ P = a.n - 2 /\ P \in Roles /\ Q \in Roles /\ P # Q
                             /\ Chunks = Data
           /\ a.level \in {0, 1} => Parity = {}
           /\ a.level = 0 => Chunks = Roles
           /\ a.level = 1 => Chunks = {0}
           /\ \A c : /\ a.level # 1 => Holds(c, c)
                     /\ a.level = 1 => \A r : Holds(r, c)
                     /\ \A r \in Parity : Holds(r, c)
<1>1. /\ a.n \in Nat \ {0} /\ a.level \in {0, 1, 5, 6} /\ Roles = 0..(a.n - 1)
      /\ a.level = 5 => a.n >= 2
      /\ a.level = 6 => a.n >= 3
  BY MembersAssumption DEF Roles
<1>2. Cardinality({}) = 0
  BY FS_EmptySet
<1>3. Cardinality({a.n - 1}) = 1
  BY FS_Singleton
<1>4. Cardinality({a.n - 2, a.n - 1}) = 2
  <2>1. IsFiniteSet({a.n - 2}) /\ Cardinality({a.n - 2}) = 1
    BY FS_Singleton
  <2> DEFINE x == a.n - 1
             S == {a.n - 2}
  <2>2. IsFiniteSet(S) /\ Cardinality(S) = 1 /\ x \notin S
    BY <1>1, <2>1
  <2> HIDE DEF x, S
  <2>3. Cardinality(S \cup {x}) = 2
    BY <2>2, FS_AddElement
  <2>4. S \cup {x} = {a.n - 2, a.n - 1}
    BY DEF S, x
  <2> QED BY <2>3, <2>4
<1>5. ASSUME a.level = 5 PROVE Parity = {P} /\ P = a.n - 1 /\ P \in Roles /\ Chunks = Data
  <2>1. Parity = {a.n - 1} /\ Chunks = Roles \ Parity
    BY <1>5 DEF Parity, Chunks
  <2>2. P = a.n - 1
    BY <1>3, <2>1 DEF P
  <2> QED BY <1>1, <1>5, <2>1, <2>2 DEF Data
<1>6. ASSUME a.level = 6
      PROVE  Parity = {P, Q} /\ P = a.n - 2 /\ P \in Roles /\ Q \in Roles /\ P # Q /\ Chunks = Data
  <2>1. Parity = {a.n - 2, a.n - 1} /\ Chunks = Roles \ Parity
    BY <1>6 DEF Parity, Chunks
  <2>2. P = a.n - 2
    BY <1>4, <2>1 DEF P
  <2> QED BY <1>1, <1>6, <2>1, <2>2 DEF Data, Q
<1>7. ASSUME a.level \in {0, 1} PROVE Parity = {} /\ P \in Int
  <2>1. Parity = {}
    BY <1>7 DEF Parity
  <2> QED BY <1>1, <1>2, <2>1 DEF P
<1>8. /\ a.level = 0 => Chunks = Roles
      /\ a.level = 1 => Chunks = {0}
  <2>1. a.level = 0 => Chunks = Roles \ {}
    BY <1>7 DEF Chunks
  <2>2. Roles \ {} = Roles
    OBVIOUS
  <2> QED BY <2>1, <2>2 DEF Chunks
<1>9. \A c : /\ a.level # 1 => Holds(c, c)
             /\ a.level = 1 => \A r : Holds(r, c)
             /\ \A r \in Parity : Holds(r, c)
  BY DEF Holds
<1> QED BY <1>1, <1>5, <1>6, <1>7, <1>8, <1>9 DEF Q, Data

(* What is read of a chunk is what a member that holds it has of it, if     *)
(* anything.                                                                *)
LEMMA ContentIsOnAMember ==
    ASSUME a \in Arrays, NEW m, DOMAIN m \subseteq Roles, NEW clean, NEW c \in Chunks
    PROVE  \/ Content(m, clean, c) \in {Short, Garbage}
           \/ \E r \in DOMAIN m :
                 Reads(m, r) /\ Holds(r, c) /\ Content(m, clean, c) = disk[m[r]][c]
<1> DEFINE OnOne(x) == \/ x \in {Short, Garbage}
                       \/ \E r \in DOMAIN m : Reads(m, r) /\ Holds(r, c) /\ x = disk[m[r]][c]
<1>1. \A r : Reads(m, r) => r \in DOMAIN m
  BY DEF Reads, Usable
<1>2. \A k : \A r \in Parity : Reads(m, r) => OnOne(InStep(m, r, c, k))
  BY <1>1, ParityIs DEF InStep
<1>3. a.level \in {0, 1, 5, 6}
  BY Shapes
<1>4. CASE a.level = 0
  BY <1>1, <1>4, ParityIs DEF Content
<1>5. CASE a.level = 1
  <2> DEFINE mirrors == {r \in DOMAIN m : Reads(m, r)}
  <2>1. mirrors \subseteq Nat
    BY Shapes
  <2>2. mirrors # {} => Min(mirrors) \in mirrors
    BY <2>1, MinIsOne
  <2>3. Content(m, clean, c) = IF mirrors # {} THEN disk[m[Min(mirrors)]][c] ELSE Short
    BY <1>5 DEF Content
  <2> HIDE DEF mirrors
  <2>4. CASE mirrors = {}
    BY <2>3, <2>4
  <2>5. CASE mirrors # {}
    <3> DEFINE r == Min(mirrors)
    <3>1. r \in DOMAIN m /\ Reads(m, r)
      BY <2>2, <2>5 DEF mirrors
    <3>2. Holds(r, c)
      BY <1>5, ParityIs
    <3>3. Content(m, clean, c) = disk[m[r]][c]
      BY <2>3, <2>5
    <3> HIDE DEF r
    <3> QED BY <3>1, <3>2, <3>3
  <2> QED BY <2>4, <2>5
<1>6. ASSUME a.level \in {5, 6} PROVE OnOne(Rebuilt(m, c))
  <2> DEFINE here == {r \in Roles \ {c} : Reads(m, r)}
             lost == Data \ here
  <2>1. \A r \in here : Reads(m, r)
    OBVIOUS
  <2>2. CASE a.level = 5
    <3>1. P \in Roles /\ P \in Parity /\ P # c
      BY <2>2, ParityIs
    <3>2. Rebuilt(m, c) = IF Roles \ {c} \subseteq here THEN InStep(m, P, c, Data \ {c}) ELSE Short
      BY <2>2 DEF Rebuilt
    <3> HIDE DEF here, OnOne
    <3>3. OnOne(Short)
      BY DEF OnOne
    <3> QED BY <1>2, <2>1, <3>1, <3>2, <3>3
  <2>3. CASE a.level = 6
    <3>1. P \in Parity /\ Q \in Parity
      BY <2>3, ParityIs
    <3>2. Rebuilt(m, c) =
            CASE lost = {c} /\ P \in here -> InStep(m, P, c, Data \ {c})
              [] lost = {c} /\ P \notin here /\ Q \in here -> InStep(m, Q, c, Data \ {c})
              [] Cardinality(lost) = 2 /\ {P, Q} \subseteq here ->
                   IF \A e \in lost : disk[m[P]][e] = disk[m[Q]][e]
                   THEN IF InStep(m, P, c, Data \ lost) = InStep(m, Q, c, Data \ lost)
                        THEN InStep(m, P, c, Data \ lost) ELSE Garbage
                   ELSE Garbage
              [] OTHER -> Short
      BY <2>3 DEF Rebuilt
    <3> HIDE DEF here, lost, OnOne
    <3>3. OnOne(Short) /\ OnOne(Garbage)
      BY DEF OnOne
    <3>4. /\ P \in here => \A k : OnOne(InStep(m, P, c, k))
          /\ Q \in here => \A k : OnOne(InStep(m, Q, c, k))
      BY <1>2, <2>1, <3>1
    <3>5. CASE lost = {c} /\ P \in here
      <4>1. Cardinality(lost) = 1
        BY <3>5, FS_Singleton
      <4>2. Rebuilt(m, c) = InStep(m, P, c, Data \ {c})
        BY <3>2, <3>5, <4>1
      <4> QED BY <3>4, <3>5, <4>2
    <3>6. CASE lost = {c} /\ P \notin here /\ Q \in here
      BY <3>2, <3>4, <3>6
    <3>7. CASE Cardinality(lost) = 2 /\ {P, Q} \subseteq here
      BY <3>2, <3>3, <3>4, <3>7
    <3> QED BY <3>2, <3>3, <3>5, <3>6, <3>7
  <2> QED BY <1>6, <2>2, <2>3
<1>7. CASE a.level \in {5, 6}
  <2>1. Content(m, clean, c) = IF Reads(m, c) THEN disk[m[c]][c]
                               ELSE IF Usable(m, c) /\ ~clean THEN Short ELSE Rebuilt(m, c)
    BY <1>7 DEF Content
  <2>2. Reads(m, c) => OnOne(disk[m[c]][c])
    BY <1>1, <1>7, ParityIs
  <2> HIDE DEF OnOne
  <2>3. OnOne(Short)
    BY DEF OnOne
  <2>4. OnOne(Content(m, clean, c))
    BY <1>6, <1>7, <2>1, <2>2, <2>3
  <2> QED BY <2>4 DEF OnOne
<1> QED BY <1>3, <1>4, <1>5, <1>7

(* Given one member that was in sync, a chunk is read as it is now, whatever *)
(* others are given with it (_md_roles): a member that failed is told of by  *)
(* the freshest superblock, and is not taken.                               *)
LEMMA ReadIsCurrent ==
    ASSUME DriveInv, given \subseteq Devices, NEW fresh, Known(fresh), NEW m, Fills(m, fresh),
           Live # {}, NEW clean, NEW c \in Chunks
    PROVE  Content(m, clean, c) \in {Short, Garbage} \cup Current(c)
<1>1. DriveType /\ History /\ Owns /\ FreshOrTold /\ fresh \in Devices /\ fresh \in given
  BY DEF DriveInv, Known
<1>2. DOMAIN m \subseteq Roles /\ a \in Arrays /\ Roles \subseteq Nat
  BY <1>1, MembersAre, Shapes DEF DriveType
<1>3. ASSUME NEW r \in DOMAIN m, Reads(m, r), Holds(r, c)
      PROVE  disk[m[r]][c] \in Current(c)
  <2> DEFINE d == m[r]
  <2>1. /\ d \in Devices /\ d \in given /\ Says(d) /\ Own(d) = r /\ Role(d, fresh) = r
        /\ sb[d].events <= sb[fresh].events /\ sb[fresh].events <= sb[d].events + 1
    BY <1>3, MembersAre DEF Fills, Counted
  <2> HIDE DEF d
  <2>2. SUFFICES ~Told(d)
    BY <1>3, <2>1, <2>2, <1>1 DEF FreshOrTold, d
  <2>3. SUFFICES ASSUME Told(d) PROVE FALSE
    OBVIOUS
  <2>4. PICK l \in Live : TRUE
    OBVIOUS
  <2>5. l \in Devices /\ l \in given /\ l \in Attached /\ Own(l) \in Roles
    BY <1>1, <1>2, <2>4 DEF Live, InSync, Attached, Owns, FaultyRole
  <2>6. sb[l].roles[d] = FaultyRole
    BY <2>3, <2>5 DEF Told
  <2>7. sb[l].events <= sb[fresh].events
    BY <1>2, <2>5 DEF Known, Spare
  <2>8. sb[fresh].roles[d] = FaultyRole
    <3>1. Earlier(sb[l], sb[fresh])
      BY <1>1, <2>5 DEF History
    <3> QED BY <2>1, <2>6, <2>7, <3>1 DEF Earlier
  <2>9. r # FaultyRole /\ r # Spare
    BY <1>2, <1>3 DEF FaultyRole, Spare
  <2>10. sb[d].events # sb[fresh].events
    <3>1. Earlier(sb[d], sb[fresh])
      BY <1>1, <2>1 DEF History
    <3> QED BY <2>1, <2>8, <2>9, <3>1 DEF Earlier, Own
  <2>11. sb[d].events + 1 = sb[fresh].events
    <3>1. sb[d].events \in Nat /\ sb[fresh].events \in Nat
      BY <1>1, <2>1 DEF DriveType, Super
    <3> QED BY <2>1, <2>10, <3>1
  <2>12. d # fresh
    BY <2>10
  <2> QED BY <2>1, <2>8, <2>9, <2>11, <2>12 DEF Role
<1> HIDE DEF Current
<1>4. CASE Content(m, clean, c) \in {Short, Garbage}
  BY <1>4
<1>5. CASE \E r \in DOMAIN m : Reads(m, r) /\ Holds(r, c) /\ Content(m, clean, c) = disk[m[r]][c]
  BY <1>3, <1>5
<1> QED BY <1>2, <1>4, <1>5, ContentIsOnAMember

(* A chunk made from parity is what its member has: of an array stopped     *)
(* clean the members are in step (_rebuild), and of one that was not every  *)
(* member is there (_md_judge).                                             *)
LEMMA ReadIsNotMadeUp ==
    ASSUME DriveInv, given \subseteq Devices, NEW fresh, Known(fresh), NEW m, Fills(m, fresh),
           WholeOrClean(m, sb[fresh].clean), NEW c \in Chunks
    PROVE  Content(m, sb[fresh].clean, c) # Garbage
<1> DEFINE clean == sb[fresh].clean
<1>1. DriveType /\ InStepWhenClean /\ fresh \in Devices /\ a \in Arrays
  BY DEF DriveInv, Known, DriveType
<1>2. DOMAIN m \subseteq Roles /\ Roles \subseteq Nat /\ a.level \in {0, 1, 5, 6}
  BY <1>1, MembersAre, Shapes
<1>3. \A r : Reads(m, r) => r \in DOMAIN m
  BY DEF Reads, Usable
<1>4. \A r, x : Reads(m, r) /\ x \in Chunks => disk[m[r]][x] # Garbage
  <2>1. \A n \in Numbers : n # Garbage
    BY MembersAssumption DEF Numbers, Garbage, Blank, Made
  <2> QED BY <1>1, <1>3, <2>1, MembersAre DEF DriveType
<1>5. Short # Garbage
  BY DEF Short, Garbage
<1>6. CASE a.level = 0
  BY <1>2, <1>4, <1>5, <1>6 DEF Content
<1>7. CASE a.level = 1
  <2> DEFINE mirrors == {r \in DOMAIN m : Reads(m, r)}
  <2>1. mirrors \subseteq Nat
    BY <1>2
  <2>2. mirrors # {} => Min(mirrors) \in mirrors
    BY <2>1, MinIsOne
  <2>3. mirrors # {} => Reads(m, Min(mirrors))
    BY <2>2
  <2>4. Content(m, clean, c) = IF mirrors # {} THEN disk[m[Min(mirrors)]][c] ELSE Short
    BY <1>7 DEF Content
  <2> HIDE DEF mirrors
  <2> QED BY <1>4, <1>5, <2>3, <2>4
<1>8. ASSUME a.level \in {5, 6}, clean PROVE Rebuilt(m, c) # Garbage
  <2>1. Chunks = Data /\ \A x : Holds(x, x) /\ \A r \in Parity : Holds(r, x)
    BY <1>1, <1>8, ParityIs
  <2>2. ASSUME NEW d, NEW e, NEW x \in Chunks, Reads(m, d), Reads(m, e), Holds(d, x), Holds(e, x)
        PROVE  disk[m[d]][x] = disk[m[e]][x]
    <3> DEFINE md == m[d]
               me == m[e]
    <3>1. d \in DOMAIN m /\ e \in DOMAIN m
      BY <1>3, <2>2
    <3>2. md \in Devices /\ Own(md) = d /\ Counted(md, fresh)
      BY <2>2, <3>1, MembersAre
    <3>3. me \in Devices /\ Own(me) = e /\ Counted(me, fresh)
      BY <2>2, <3>1, MembersAre
    <3> HIDE DEF md, me
    <3>4. disk[md][x] = disk[me][x]
      BY <1>1, <1>8, <2>2, <3>2, <3>3 DEF InStepWhenClean
    <3> QED BY <3>4 DEF md, me
  <2>3. ASSUME NEW p \in Parity, NEW known \in SUBSET Data, Reads(m, p), \A e \in known : Reads(m, e)
        PROVE  InStep(m, p, c, known) = disk[m[p]][c]
    <3>1. \A e \in known : disk[m[e]][e] = disk[m[p]][e]
      BY <2>1, <2>2, <2>3
    <3> QED BY <3>1 DEF InStep
  <2> DEFINE here == {r \in Roles \ {c} : Reads(m, r)}
             lost == Data \ here
  <2>4. \A r \in here : Reads(m, r)
    OBVIOUS
  <2>5. Data \subseteq Roles
    BY DEF Data
  <2>6. CASE a.level = 5
    <3>1. P \in Roles /\ P \in Parity /\ P # c
      BY <1>1, <2>6, ParityIs
    <3>2. Rebuilt(m, c) = IF Roles \ {c} \subseteq here THEN InStep(m, P, c, Data \ {c}) ELSE Short
      BY <2>6 DEF Rebuilt
    <3> HIDE DEF here
    <3>3. CASE Roles \ {c} \subseteq here
      <4>1. Reads(m, P) /\ \A e \in Data \ {c} : Reads(m, e)
        BY <2>4, <2>5, <3>1, <3>3
      <4>2. InStep(m, P, c, Data \ {c}) = disk[m[P]][c]
        BY <2>3, <3>1, <4>1
      <4> QED BY <1>4, <3>2, <3>3, <4>1, <4>2
    <3> QED BY <1>5, <3>2, <3>3
  <2>7. CASE a.level = 6
    <3>1. P \in Parity /\ Q \in Parity
      BY <1>1, <2>7, ParityIs
    <3>2. Rebuilt(m, c) =
            CASE lost = {c} /\ P \in here -> InStep(m, P, c, Data \ {c})
              [] lost = {c} /\ P \notin here /\ Q \in here -> InStep(m, Q, c, Data \ {c})
              [] Cardinality(lost) = 2 /\ {P, Q} \subseteq here ->
                   IF \A e \in lost : disk[m[P]][e] = disk[m[Q]][e]
                   THEN IF InStep(m, P, c, Data \ lost) = InStep(m, Q, c, Data \ lost)
                        THEN InStep(m, P, c, Data \ lost) ELSE Garbage
                   ELSE Garbage
              [] OTHER -> Short
      BY <2>7 DEF Rebuilt
    <3>3. lost \subseteq Data /\ \A e \in Data \ lost : Reads(m, e)
      OBVIOUS
    <3> HIDE DEF here, lost
    <3>4. CASE lost = {c} /\ P \in here
      <4>1. Cardinality(lost) = 1
        BY <3>4, FS_Singleton
      <4>2. Rebuilt(m, c) = InStep(m, P, c, Data \ {c})
        BY <3>2, <3>4, <4>1
      <4>3. Reads(m, P) /\ \A e \in Data \ {c} : Reads(m, e)
        BY <2>4, <3>3, <3>4
      <4>4. InStep(m, P, c, Data \ {c}) = disk[m[P]][c]
        BY <2>3, <3>1, <4>3
      <4> QED BY <1>4, <4>2, <4>3, <4>4
    <3>5. CASE lost = {c} /\ P \notin here /\ Q \in here
      <4>1. Rebuilt(m, c) = InStep(m, Q, c, Data \ {c})
        BY <3>2, <3>5
      <4>2. Reads(m, Q) /\ \A e \in Data \ {c} : Reads(m, e)
        BY <2>4, <3>3, <3>5
      <4>3. InStep(m, Q, c, Data \ {c}) = disk[m[Q]][c]
        BY <2>3, <3>1, <4>2
      <4> QED BY <1>4, <4>1, <4>2, <4>3
    <3>6. CASE Cardinality(lost) = 2 /\ {P, Q} \subseteq here
      <4>1. lost # {c}
        <5>1. Cardinality({c}) = 1
          BY FS_Singleton
        <5> QED BY <3>6, <5>1
      <4>2. Reads(m, P) /\ Reads(m, Q)
        BY <2>4, <3>6
      <4>3. /\ InStep(m, P, c, Data \ lost) = disk[m[P]][c]
            /\ InStep(m, Q, c, Data \ lost) = disk[m[Q]][c]
        BY <2>3, <3>1, <3>3, <4>2
      <4>4. \A e \in Chunks : disk[m[P]][e] = disk[m[Q]][e]
        <5>1. \A e : Holds(P, e) /\ Holds(Q, e)
          BY <2>1, <3>1
        <5> QED BY <2>2, <4>2, <5>1, Zenon
      <4>5. \A e \in lost : disk[m[P]][e] = disk[m[Q]][e]
        BY <2>1, <3>3, <4>4
      <4>6. Rebuilt(m, c) = disk[m[P]][c]
        BY <3>2, <3>6, <4>1, <4>3, <4>4, <4>5
      <4> QED BY <1>4, <4>2, <4>6
    <3> QED BY <1>5, <3>2, <3>4, <3>5, <3>6
  <2> QED BY <1>8, <2>6, <2>7
<1>9. CASE a.level \in {5, 6}
  <2>1. Content(m, clean, c) = IF Reads(m, c) THEN disk[m[c]][c]
                               ELSE IF Usable(m, c) /\ ~clean THEN Short ELSE Rebuilt(m, c)
    BY <1>9 DEF Content
  <2>2. Parity # {} /\ c \in Roles
    <3>1. a.level = 5 => P \in Parity
      BY <1>1, ParityIs
    <3>2. a.level = 6 => P \in Parity
      BY <1>1, ParityIs
    <3> QED BY <1>1, <1>9, <3>1, <3>2, Shapes
  <2>3. ~clean => Usable(m, c)
    BY <2>2 DEF WholeOrClean
  <2> QED BY <1>4, <1>5, <1>8, <1>9, <2>1, <2>3
<1> QED BY <1>2, <1>6, <1>7, <1>9

-----------------------------------------------------------------------------
(* What is left when no more is missing than the level allows: a member at  *)
(* least, all of a RAID0, all but one of a RAID5, all but two of a RAID6.   *)
LEMMA EnoughLeft ==
    ASSUME a \in Arrays, NEW S \in SUBSET Roles, Cardinality(Roles \ S) <= Allowed
    PROVE  /\ S # {}
           /\ a.level = 0 => S = Roles
           /\ a.level = 5 => \A x, y \in Roles \ S : x = y
           /\ a.level = 6 => \A x, y, z \in Roles \ S : x = y \/ y = z \/ x = z
<1> DEFINE gone == Roles \ S
<1>1. /\ a.n \in Nat \ {0} /\ a.level \in {0, 1, 5, 6} /\ Roles = 0..(a.n - 1)
      /\ a.level = 5 => a.n >= 2
      /\ a.level = 6 => a.n >= 3
  BY MembersAssumption DEF Roles
<1>2. IsFiniteSet(Roles) /\ Cardinality(Roles) = a.n
  <2> DEFINE last == a.n - 1
  <2>1. last \in Nat /\ Roles = 0..last /\ a.n = last + 1
    BY <1>1
  <2> HIDE DEF last
  <2>2. IsFiniteSet(0..last) /\ Cardinality(0..last) = IF 0 > last THEN 0 ELSE last - 0 + 1
    BY <2>1, FS_Interval
  <2> QED BY <2>1, <2>2
<1>3. IsFiniteSet(gone) /\ Cardinality(gone) \in Nat
  BY <1>2, FS_Subset, FS_CardinalityType
<1>4. Allowed \in Nat /\ Allowed < a.n
  BY <1>1 DEF Allowed
<1>5. S # {}
  <2>1. SUFFICES ASSUME S = {} PROVE FALSE
    OBVIOUS
  <2>2. Roles \ S = Roles
    BY <2>1
  <2>3. Cardinality(Roles \ S) = a.n
    BY <1>2, <2>2
  <2> QED BY <1>1, <1>4, <2>3
<1>6. \A T \in SUBSET gone : IsFiniteSet(T) /\ Cardinality(T) <= Cardinality(gone) /\ Cardinality(T) \in Nat
  BY <1>3, FS_Subset, FS_CardinalityType
<1>7. \A x : IsFiniteSet({x}) /\ Cardinality({x}) = 1
  BY FS_Singleton
<1>8. ASSUME NEW x, NEW y, x # y
      PROVE  IsFiniteSet({x, y}) /\ Cardinality({x, y}) = 2
  <2>1. IsFiniteSet({x} \cup {y}) /\ Cardinality({x} \cup {y}) = 1 + 1
    <3> DEFINE T == {x}
    <3>1. IsFiniteSet(T) /\ Cardinality(T) = 1 /\ y \notin T
      BY <1>7, <1>8
    <3> HIDE DEF T
    <3>2. IsFiniteSet(T \cup {y}) /\ Cardinality(T \cup {y}) = 1 + 1
      BY <3>1, FS_AddElement
    <3> QED BY <3>2 DEF T
  <2>2. {x} \cup {y} = {x, y}
    OBVIOUS
  <2> QED BY <2>1, <2>2
<1>9. ASSUME NEW x, NEW y, NEW z, x # y, y # z, x # z
      PROVE  Cardinality({x, y, z}) = 3
  <2>1. Cardinality({x, y} \cup {z}) = 2 + 1
    <3> DEFINE T == {x, y}
    <3>1. IsFiniteSet(T) /\ Cardinality(T) = 2 /\ z \notin T
      BY <1>8, <1>9
    <3> HIDE DEF T
    <3>2. Cardinality(T \cup {z}) = 2 + 1
      BY <3>1, FS_AddElement
    <3> QED BY <3>2 DEF T
  <2>2. {x, y} \cup {z} = {x, y, z}
    OBVIOUS
  <2> QED BY <2>1, <2>2
<1>10. ASSUME a.level = 0 PROVE S = Roles
  <2>1. Cardinality(gone) = 0
    BY <1>3, <1>10 DEF Allowed
  <2>2. gone = {}
    BY <1>3, <2>1, FS_EmptySet
  <2> QED BY <2>2
<1>11. ASSUME a.level = 5, NEW x \in gone, NEW y \in gone, x # y PROVE FALSE
  <2>1. Cardinality({x, y}) = 2 /\ Cardinality({x, y}) <= Cardinality(gone)
    BY <1>6, <1>8, <1>11
  <2> QED BY <1>3, <1>11, <2>1 DEF Allowed
<1>12. ASSUME a.level = 6, NEW x \in gone, NEW y \in gone, NEW z \in gone, x # y, y # z, x # z PROVE FALSE
  <2>1. Cardinality({x, y, z}) = 3 /\ Cardinality({x, y, z}) <= Cardinality(gone)
    BY <1>6, <1>9, <1>12
  <2> QED BY <1>3, <1>12, <2>1 DEF Allowed
<1> QED BY <1>5, <1>10, <1>11, <1>12

(* A chunk is read when enough members are.                                 *)
LEMMA EnoughIsRead ==
    ASSUME DriveInv, given \subseteq Devices, NEW fresh, Known(fresh), NEW m, Fills(m, fresh),
           NEW S \in SUBSET Roles, Cardinality(Roles \ S) <= Allowed, \A r \in S : Reads(m, r),
           NEW clean, clean \/ Parity = {}, NEW c \in Chunks
    PROVE  Content(m, clean, c) # Short
<1>1. DriveType /\ fresh \in Devices /\ a \in Arrays
  BY DEF DriveInv, Known, DriveType
<1>2. DOMAIN m \subseteq Roles /\ Roles \subseteq Nat /\ a.level \in {0, 1, 5, 6} /\ Chunks \subseteq Roles
  BY <1>1, MembersAre, Shapes
<1>3. \A r : Reads(m, r) => r \in DOMAIN m
  BY DEF Reads, Usable
<1>4. \A r, x : Reads(m, r) /\ x \in Chunks => disk[m[r]][x] # Short
  <2>1. \A n \in Numbers : n # Short
    BY MembersAssumption DEF Numbers, Short, Blank, Made
  <2> QED BY <1>1, <1>3, <2>1, MembersAre DEF DriveType
<1>5. Short # Garbage
  BY DEF Short, Garbage
<1>6. CASE a.level = 0
  <2>1. Reads(m, c)
    BY <1>1, <1>2, <1>6, EnoughLeft
  <2> QED BY <1>4, <1>6, <2>1 DEF Content
<1>7. CASE a.level = 1
  <2> DEFINE mirrors == {r \in DOMAIN m : Reads(m, r)}
  <2>1. mirrors \subseteq Nat
    BY <1>2
  <2>2. mirrors # {}
    <3>1. PICK r \in S : TRUE
      BY <1>1, EnoughLeft
    <3> QED BY <1>3, <3>1
  <2>3. Reads(m, Min(mirrors))
    BY <2>1, <2>2, MinIsOne
  <2>4. Content(m, clean, c) = IF mirrors # {} THEN disk[m[Min(mirrors)]][c] ELSE Short
    BY <1>7 DEF Content
  <2> HIDE DEF mirrors
  <2> QED BY <1>4, <2>2, <2>3, <2>4
<1>8. \A p, k : Reads(m, p) => InStep(m, p, c, k) # Short
  BY <1>4, <1>5 DEF InStep
<1>9. ASSUME a.level \in {5, 6}, ~Reads(m, c) PROVE Rebuilt(m, c) # Short
  <2> DEFINE here == {r \in Roles \ {c} : Reads(m, r)}
             lost == Data \ here
  <2>1. Data \subseteq Roles /\ c \in Roles \ S
    BY <1>2, <1>9 DEF Data
  <2>2. \A r \in S : r \in here
    BY <1>9
  <2>3. \A r \in here : Reads(m, r)
    OBVIOUS
  <2>4. c \in lost
    <3>1. Chunks = Data
      BY <1>1, <1>9, ParityIs
    <3> QED BY <3>1
  <2>5. CASE a.level = 5
    <3>1. P \in Roles /\ P # c
      BY <1>1, <2>5, ParityIs
    <3>2. Roles \ {c} \subseteq here
      BY <1>1, <2>1, <2>2, <2>5, EnoughLeft
    <3>3. Rebuilt(m, c) = InStep(m, P, c, Data \ {c})
      BY <2>5, <3>2 DEF Rebuilt
    <3>4. Reads(m, P)
      BY <2>3, <3>1, <3>2
    <3> QED BY <1>8, <3>3, <3>4
  <2>6. CASE a.level = 6
    <3>1. P \in Roles /\ Q \in Roles /\ P # Q /\ P \notin Data /\ Q \notin Data
      <4>1. P \in Parity /\ Q \in Parity
        BY <1>1, <2>6, ParityIs
      <4> QED BY <1>1, <2>6, <4>1, ParityIs DEF Data
    <3>2. Rebuilt(m, c) =
            CASE lost = {c} /\ P \in here -> InStep(m, P, c, Data \ {c})
              [] lost = {c} /\ P \notin here /\ Q \in here -> InStep(m, Q, c, Data \ {c})
              [] Cardinality(lost) = 2 /\ {P, Q} \subseteq here ->
                   IF \A e \in lost : disk[m[P]][e] = disk[m[Q]][e]
                   THEN IF InStep(m, P, c, Data \ lost) = InStep(m, Q, c, Data \ lost)
                        THEN InStep(m, P, c, Data \ lost) ELSE Garbage
                   ELSE Garbage
              [] OTHER -> Short
      BY <2>6 DEF Rebuilt
    <3>3. \A x, y \in Roles \ here : x = c \/ y = c \/ x = y
      <4>1. Roles \ here \subseteq Roles \ S
        BY <2>2
      <4> QED BY <1>1, <2>1, <2>6, <4>1, EnoughLeft
    <3>4. lost \subseteq Roles \ here /\ lost \subseteq Data
      BY <2>1
    <3> HIDE DEF here, lost
    <3>5. CASE P \notin here
      <4>1. lost = {c} /\ Q \in here
        BY <2>4, <3>1, <3>3, <3>4, <3>5, <2>1
      <4>2. Rebuilt(m, c) = InStep(m, Q, c, Data \ {c})
        BY <3>2, <3>5, <4>1
      <4> QED BY <1>8, <2>3, <4>1, <4>2
    <3>6. CASE P \in here /\ lost = {c}
      <4>1. Cardinality(lost) = 1
        BY <3>6, FS_Singleton
      <4>2. Rebuilt(m, c) = InStep(m, P, c, Data \ {c})
        BY <3>2, <3>6, <4>1
      <4> QED BY <1>8, <2>3, <3>6, <4>2
    <3>7. CASE P \in here /\ lost # {c}
      <4>1. PICK x \in lost : x # c
        BY <2>4, <3>7
      <4>2. lost = {c, x}
        BY <2>4, <3>3, <3>4, <4>1
      <4>3. Cardinality(lost) = 2
        <5>1. IsFiniteSet({c}) /\ Cardinality({c}) = 1
          BY FS_Singleton
        <5>2. Cardinality({c} \cup {x}) = 1 + 1
          BY <4>1, <5>1, FS_AddElement
        <5>3. {c} \cup {x} = lost
          BY <4>2
        <5> QED BY <5>2, <5>3
      <4>4. Q \in here
        BY <3>1, <3>3, <3>4, <4>1, <2>4
      <4>5. \/ Rebuilt(m, c) = InStep(m, P, c, Data \ lost)
            \/ Rebuilt(m, c) = Garbage
        BY <3>2, <3>7, <4>3, <4>4
      <4> QED BY <1>5, <1>8, <2>3, <3>7, <4>5
    <3> QED BY <3>5, <3>6, <3>7
  <2> QED BY <1>9, <2>5, <2>6
<1>10. CASE a.level \in {5, 6}
  <2>1. Content(m, clean, c) = IF Reads(m, c) THEN disk[m[c]][c]
                               ELSE IF Usable(m, c) /\ ~clean THEN Short ELSE Rebuilt(m, c)
    BY <1>10 DEF Content
  <2>2. clean
    <3>1. a.level = 5 => P \in Parity
      BY <1>1, ParityIs
    <3>2. a.level = 6 => P \in Parity
      BY <1>1, ParityIs
    <3> QED BY <1>10, <3>1, <3>2
  <2> QED BY <1>4, <1>9, <1>10, <2>1, <2>2
<1> QED BY <1>2, <1>6, <1>7, <1>10

(* When every superblock is written, a member in sync that is whole and     *)
(* reads fills its role.                                                    *)
LEMMA GoodIsThere ==
    ASSUME DriveInv, given \subseteq Devices, todo = {}, NEW fresh, Known(fresh), NEW m, Fills(m, fresh),
           NEW g \in Good
    PROVE  sb[fresh] = mem /\ mem.roles[g] \in Roles /\ Reads(m, mem.roles[g])
<1>1. DriveType /\ History /\ Owns /\ fresh \in Devices
  BY DEF DriveInv, Known
<1>2. Roles \subseteq Nat /\ \A d \in Devices : sb[d].events \in Nat /\ mem.events \in Nat
  BY <1>1, Shapes DEF DriveType, Super
<1>3. /\ g \in Devices /\ g \in given /\ g \in InSync /\ mem.roles[g] \in Roles /\ g \notin mem.recovering
      /\ g \notin mem.bad /\ g \notin cut /\ g \notin failing
  BY DEF Good, Live, InSync
<1>4. sb[g] = mem /\ Own(g) = mem.roles[g] /\ Own(g) \in Roles /\ Own(g) # Spare
  BY <1>1, <1>2, <1>3 DEF Owns, FaultyRole, Spare
<1>5. \A d \in Devices : mem.events <= sb[d].events => sb[d] = mem
  BY <1>1, <1>2 DEF History, Earlier
<1>6. sb[fresh] = mem
  <2>1. mem.events <= sb[fresh].events
    BY <1>3, <1>4 DEF Known
  <2> QED BY <1>1, <1>5, <2>1
<1>7. Role(g, fresh) = Own(g) /\ Taken(g, fresh)
  <2>1. sb[g].events + 1 # sb[fresh].events /\ sb[g].events + 1 >= sb[fresh].events
    BY <1>1, <1>2, <1>4, <1>6
  <2>2. Role(g, fresh) = Own(g)
    BY <2>1 DEF Role
  <2>3. Own(g) # FaultyRole /\ Own(g) < a.n
    BY <1>1, <1>4, Shapes DEF DriveType, FaultyRole
  <2> QED BY <1>3, <1>4, <2>1, <2>2, <2>3 DEF Taken
<1> DEFINE r == mem.roles[g]
           d == m[r]
<1>8. r \in DOMAIN m /\ sb[g].events <= sb[d].events
  BY <1>3, <1>4, <1>7 DEF Fills
<1>9. d \in Devices /\ Own(d) = r
  BY <1>8, MembersAre
<1> HIDE DEF r, d
<1>10. sb[d] = mem
  BY <1>4, <1>5, <1>8, <1>9
<1>11. d = g
  <2>1. mem.roles[d] = r /\ mem.roles[g] = r /\ r \in Roles
    BY <1>3, <1>9, <1>10 DEF Own, r
  <2> QED BY <1>1, <1>3, <1>9, <2>1 DEF Owns
<1>12. Reads(m, r)
  BY <1>3, <1>4, <1>8, <1>11 DEF Reads, Usable, d
<1> QED BY <1>3, <1>6, <1>12 DEF r

-----------------------------------------------------------------------------
(* What _md_assemble() settles on is as the invariant says.                 *)
LEMMA AssembledFrom ==
    ASSUME DriveInv, given \subseteq Devices, NEW fresh \in Freshest, NEW m \in Fillings(fresh)
    PROVE  Known(fresh) /\ Fills(m, fresh)
<1>1. Known(fresh)
  BY DEF Freshest, Latest, Known
<1> DEFINE taken == {d \in given : Taken(d, fresh)}
           claim(r) == {d \in taken : Role(d, fresh) = r}
           filled == {Role(d, fresh) : d \in taken}
<1>2. m \in [filled -> taken] /\ \A r \in filled : m[r] \in Latest(claim(r))
  BY DEF Fillings
<1>3. \A r \in filled : /\ m[r] \in taken /\ Role(m[r], fresh) = r
                        /\ \A e \in taken : Role(e, fresh) = r => sb[e].events <= sb[m[r]].events
  BY <1>2 DEF Latest
<1>4. DOMAIN m = filled
  BY <1>2
<1>5. \A e \in given : Taken(e, fresh) => e \in taken /\ Role(e, fresh) \in filled
  OBVIOUS
<1>6. \A d \in taken : d \in given /\ Taken(d, fresh)
  OBVIOUS
<1> HIDE DEF taken, filled, claim
<1>7. Fills(m, fresh)
  BY <1>3, <1>4, <1>5, <1>6 DEF Fills
<1> QED BY <1>1, <1>7

(* An array with parity that was not stopped clean is refused for the least *)
(* that is missing of it (_md_judge).                                       *)
LEMMA ReadsOnlyWholeOrClean ==
    ASSUME NEW m, NEW clean, ~Refused(m, clean)
    PROVE  WholeOrClean(m, clean)
  BY DEF Refused, WholeOrClean

(* The roles filled are claimed, so an array that lacks too many claims     *)
(* lacks too many members.                                                  *)
LEMMA IncompleteLacks ==
    ASSUME DriveInv, given \subseteq Devices, NEW fresh, Known(fresh), NEW m, Fills(m, fresh),
           NEW clean, Incomplete(fresh)
    PROVE  Refused(m, clean)
<1>1. DriveType /\ fresh \in Devices /\ a \in Arrays
  BY DEF DriveInv, Known, DriveType
<1>2. DOMAIN m \subseteq Roles
  BY MembersAre
<1>3. DOMAIN m \subseteq Claimed(fresh)
  <2>1. \A r \in DOMAIN m : m[r] \in given /\ Own(m[r]) = r /\ r \in Roles
    BY MembersAre
  <2> QED BY <2>1 DEF Claimed
<1> DEFINE unclaimed == Roles \ Claimed(fresh)
           lost == Roles \ DOMAIN m
<1>4. unclaimed \subseteq lost /\ lost \subseteq Roles
  BY <1>3
<1>5. IsFiniteSet(Roles)
  BY <1>1, Shapes, FS_Interval
<1>6. Cardinality(unclaimed) > Allowed
  BY DEF Incomplete
<1>7. Allowed \in Int
  BY <1>1, Shapes DEF Allowed
<1> HIDE DEF unclaimed, lost
<1>8. /\ IsFiniteSet(lost) /\ IsFiniteSet(unclaimed)
      /\ Cardinality(unclaimed) <= Cardinality(lost)
      /\ Cardinality(lost) \in Nat /\ Cardinality(unclaimed) \in Nat
  <2>1. IsFiniteSet(lost)
    BY <1>4, <1>5, FS_Subset
  <2> QED BY <1>4, <2>1, FS_Subset, FS_CardinalityType
<1>9. Cardinality(lost) > Allowed
  BY <1>6, <1>7, <1>8
<1> QED BY <1>9 DEF Refused, lost

(* Nothing is refused of which enough is there.                             *)
LEMMA EnoughIsNotRefused ==
    ASSUME DriveInv, given \subseteq Devices, NEW fresh, Known(fresh), NEW m, Fills(m, fresh),
           NEW S \in SUBSET Roles, Cardinality(Roles \ S) <= Allowed, \A r \in S : Reads(m, r),
           NEW clean, clean \/ Parity = {}
    PROVE  ~Refused(m, clean)
<1>1. DriveType /\ fresh \in Devices /\ a \in Arrays
  BY DEF DriveInv, Known, DriveType
<1>2. DOMAIN m \subseteq Roles /\ IsFiniteSet(Roles) /\ Allowed \in Int
  BY <1>1, MembersAre, Shapes, FS_Interval DEF Allowed
<1>3. S \subseteq DOMAIN m /\ \A r \in S : Usable(m, r)
  BY DEF Reads, Usable
<1> DEFINE missing == Roles \ S
           lost == Roles \ DOMAIN m
<1>4. lost \subseteq missing /\ missing \subseteq Roles /\ Cardinality(missing) <= Allowed
  BY <1>3
<1> HIDE DEF missing, lost
<1>5. Cardinality(lost) <= Cardinality(missing) /\ Cardinality(lost) \in Nat /\ Cardinality(missing) \in Nat
  <2>1. IsFiniteSet(missing)
    BY <1>2, <1>4, FS_Subset
  <2> QED BY <1>4, <2>1, FS_Subset, FS_CardinalityType
<1>6. ~(Cardinality(lost) > Allowed)
  BY <1>2, <1>4, <1>5
<1>7. \A c \in Chunks : Content(m, clean, c) # Short
  BY EnoughIsRead
<1>8. a.level = 0 => \A r \in DOMAIN m : Usable(m, r)
  BY <1>1, <1>2, <1>3, EnoughLeft
<1> QED BY <1>6, <1>7, <1>8 DEF Refused, lost

(* What the invariant is about, when the drive and what is given stay.      *)
LEMMA SameGiven ==
    ASSUME UNCHANGED drive, UNCHANGED <<given, cut, failing>>
    PROVE  /\ Roles' = Roles /\ Chunks' = Chunks /\ Parity' = Parity /\ Allowed' = Allowed
           /\ \A x : Known(x)' <=> Known(x)
           /\ \A m, x : Fills(m, x)' <=> Fills(m, x)
           /\ \A m, b : WholeOrClean(m, b)' <=> WholeOrClean(m, b)
           /\ Live' = Live /\ Good' = Good /\ (Settled' <=> Settled)
           /\ \A c : Current(c)' = Current(c)
           /\ {mem'.roles[d] : d \in Good'} = {mem.roles[d] : d \in Good}
<1>1. UNCHANGED <<a, mem, sb, todo, disk, writing, acked, given, cut, failing>>
  BY DEF drive
<1>2. Roles' = Roles /\ Chunks' = Chunks /\ Parity' = Parity /\ Allowed' = Allowed
  BY <1>1, SameArray DEF Allowed
<1>3. \A d : Own(d)' = Own(d)
  BY <1>1 DEF Own
<1>4. \A d, x : Role(d, x)' = Role(d, x) /\ (Taken(d, x)' <=> Taken(d, x))
  BY <1>1, <1>3 DEF Role, Taken
<1>5. \A x : Known(x)' <=> Known(x)
  BY <1>1, <1>3 DEF Known
<1>6. \A m, x : Fills(m, x)' <=> Fills(m, x)
  BY <1>1, <1>4 DEF Fills
<1>7. \A m, b : WholeOrClean(m, b)' <=> WholeOrClean(m, b)
  BY <1>1, <1>2 DEF WholeOrClean, Usable
<1>8. InSync' = InSync
  BY <1>1, <1>2 DEF InSync
<1>9. Live' = Live /\ Good' = Good
  BY <1>1, <1>8 DEF Live, Good
<1>10. (Settled' <=> Settled) /\ \A c : Current(c)' = Current(c)
  BY <1>1, <1>2 DEF Settled, Current
<1> HIDE DEF Good
<1> QED BY <1>1, <1>2, <1>5, <1>6, <1>7, <1>9, <1>10

-----------------------------------------------------------------------------
(* The driver starts with an array as it was made, and nothing is given.    *)
LEMMA Starts == Init => IInv
<1> SUFFICES ASSUME Init PROVE IInv
  OBVIOUS
<1>1. DriveInv
  BY DriveStarts DEF Init
<1>2. /\ given = {} /\ cut = {} /\ failing = {} /\ arr = NotAssembled /\ got = [c \in Chunks |-> NotYet]
  BY DEF Init
<1>3. ~arr.made /\ ~arr.incomplete /\ \A c \in Chunks : got[c] = NotYet
  BY <1>2 DEF NotAssembled
<1>4. Assembled
  BY <1>2, <1>3 DEF Assembled
<1>5. NothingStale /\ NothingMadeUp
  BY <1>3 DEF NothingStale, NothingMadeUp, NotYet, Garbage
<1>6. AllThereIsIsRead /\ IncompleteIsRefused
  BY <1>3 DEF AllThereIsIsRead, IncompleteIsRefused
<1> QED BY <1>1, <1>4, <1>5, <1>6 DEF IInv

(* Before anything is put together nothing has been read.                   *)
LEMMA NothingReadYet ==
    Assembled /\ ~arr.made => NothingStale /\ NothingMadeUp /\ AllThereIsIsRead /\ IncompleteIsRefused
<1> SUFFICES ASSUME Assembled, ~arr.made
             PROVE  NothingStale /\ NothingMadeUp /\ AllThereIsIsRead /\ IncompleteIsRefused
  OBVIOUS
<1>1. ~arr.incomplete /\ \A c \in Chunks : got[c] = NotYet
  BY DEF Assembled, NotAssembled
<1>2. NothingStale /\ NothingMadeUp
  BY <1>1 DEF NothingStale, NothingMadeUp, NotYet, Garbage
<1> QED BY <1>1, <1>2 DEF AllThereIsIsRead, IncompleteIsRefused

(* A step of the driver.                                                    *)
LEMMA DrivenKeeps == IInv /\ Driven => IInv'
<1> SUFFICES ASSUME IInv, Driven PROVE IInv'
  OBVIOUS
<1>1. /\ DriveInv /\ Assembled /\ Drive /\ given = {}
      /\ UNCHANGED <<given, cut, failing, arr, got>>
  BY DEF IInv, Driven, program
<1>2. DriveInv'
  BY <1>1, DriveKept
<1>3. Assembled'
  <2>1. Chunks' = Chunks /\ Numbers' = Numbers
    BY <1>1, DriveKeepsArray, SameArray DEF Numbers
  <2> QED BY <1>1, <2>1 DEF Assembled
<1>4. (~arr.made)'
  BY <1>1 DEF Assembled
<1>5. (NothingStale /\ NothingMadeUp /\ AllThereIsIsRead /\ IncompleteIsRefused)'
  BY <1>3, <1>4, NothingReadYet, PTL
<1> QED BY <1>2, <1>3, <1>5 DEF IInv

(* The machine stops, and members are given.                                *)
LEMMA StopKeeps == IInv /\ Stop => IInv'
<1> SUFFICES ASSUME IInv, Stop PROVE IInv'
  OBVIOUS
<1>1. /\ DriveInv /\ Assembled /\ UNCHANGED drive /\ UNCHANGED <<arr, got>> /\ given = {}
      /\ given' \subseteq Devices /\ given' # {} /\ cut' \subseteq given' /\ failing' \subseteq given'
  <2>1. given' \in (SUBSET Devices) \ {{}} /\ cut' \in SUBSET given' /\ failing' \in SUBSET given'
    BY DEF Stop
  <2>2. given' \subseteq Devices /\ given' # {} /\ cut' \subseteq given' /\ failing' \subseteq given'
    BY <2>1, Zenon
  <2>3. given = {} /\ UNCHANGED <<drive, arr, got>> /\ UNCHANGED drive
    BY DEF Stop
  <2> QED BY <2>2, <2>3 DEF IInv
<1>2. DriveInv'
  BY <1>1, DriveStutters
<1>3. Assembled'
  <2>1. Chunks' = Chunks /\ Numbers' = Numbers
    BY <1>1, SameArray DEF drive, Numbers
  <2> QED BY <1>1, <2>1 DEF Assembled
<1>4. (~arr.made)'
  BY <1>1 DEF Assembled
<1>5. (NothingStale /\ NothingMadeUp /\ AllThereIsIsRead /\ IncompleteIsRefused)'
  BY <1>3, <1>4, NothingReadYet, PTL
<1> QED BY <1>2, <1>3, <1>5 DEF IInv

(* The array is put together.                                               *)
LEMMA AssembleKeeps == IInv /\ Assemble => IInv'
<1> SUFFICES ASSUME IInv, Assemble PROVE IInv'
  OBVIOUS
<1>1. /\ DriveInv /\ Assembled /\ UNCHANGED drive /\ UNCHANGED <<given, cut, failing, got>>
      /\ given # {} /\ ~arr.made
  BY DEF IInv, Assemble
<1>2. given \subseteq Devices /\ \A c \in Chunks : got[c] = NotYet
  BY <1>1 DEF Assembled
<1>3. PICK fresh \in Freshest : \E m \in Fillings(fresh) :
         arr' = [made |-> TRUE, clean |-> sb[fresh].clean, members |-> m,
                 refused |-> Refused(m, sb[fresh].clean), incomplete |-> Incomplete(fresh)]
  BY DEF Assemble
<1>4. PICK m \in Fillings(fresh) :
         arr' = [made |-> TRUE, clean |-> sb[fresh].clean, members |-> m,
                 refused |-> Refused(m, sb[fresh].clean), incomplete |-> Incomplete(fresh)]
  BY <1>3
<1>5. Known(fresh) /\ Fills(m, fresh) /\ fresh \in given
  BY <1>1, <1>2, AssembledFrom DEF Known
<1>6. /\ arr'.made /\ arr'.members = m /\ arr'.clean = sb[fresh].clean
      /\ arr'.refused = Refused(m, sb[fresh].clean) /\ arr'.incomplete = Incomplete(fresh)
  BY <1>4
<1>7. DriveInv'
  BY <1>1, DriveStutters
<1>8. Assembled'
  <2>1. ~arr'.refused => WholeOrClean(m, sb[fresh].clean)
    BY <1>6, ReadsOnlyWholeOrClean
  <2>2. Numbers' = Numbers /\ sb' = sb
    BY <1>1 DEF Numbers, drive
  <2> QED BY <1>1, <1>2, <1>5, <1>6, <2>1, <2>2, SameGiven DEF Assembled
<1>9. NothingStale' /\ NothingMadeUp'
  BY <1>1, <1>2, SameGiven DEF NothingStale, NothingMadeUp, NotYet, Garbage
<1>10. AllThereIsIsRead'
  <2> DEFINE S == {mem.roles[d] : d \in Good}
  <2>1. SUFFICES ASSUME Settled, Cardinality(Roles \ S) <= Allowed
                 PROVE  ~Refused(m, sb[fresh].clean)
    <3>1. Short \notin {got'[c] : c \in Chunks}
      BY <1>1, <1>2 DEF Short, NotYet
    <3>2. SUFFICES ASSUME Settled', arr'.made, Cardinality(Roles' \ {mem'.roles[d] : d \in Good'}) <= Allowed'
                   PROVE  ~arr'.refused /\ Short \notin {got'[c] : c \in Chunks'}
      BY DEF AllThereIsIsRead
    <3>3. Settled /\ Cardinality(Roles \ S) <= Allowed
      BY <1>1, <3>2, SameGiven
    <3>4. ~Refused(m, sb[fresh].clean)
      BY <2>1, <3>3
    <3> QED BY <1>1, <1>6, <3>1, <3>4, SameGiven
  <2>2. \A g \in Good : sb[fresh] = mem /\ mem.roles[g] \in Roles /\ Reads(m, mem.roles[g])
    BY <1>1, <1>2, <1>5, <2>1, GoodIsThere DEF Settled
  <2>3. S \in SUBSET Roles /\ \A r \in S : Reads(m, r)
    BY <2>2
  <2>4. Good # {}
    <3>1. S # {}
      BY <1>1, <2>1, <2>3, EnoughLeft DEF DriveInv, DriveType
    <3> QED BY <3>1
  <2>5. sb[fresh].clean \/ Parity = {}
    BY <2>1, <2>2, <2>4 DEF Settled
  <2> HIDE DEF S
  <2> QED BY <1>1, <1>2, <1>5, <2>1, <2>3, <2>5, EnoughIsNotRefused
<1>11. IncompleteIsRefused'
  BY <1>1, <1>2, <1>5, <1>6, IncompleteLacks DEF IncompleteIsRefused
<1> QED BY <1>7, <1>8, <1>9, <1>10, <1>11 DEF IInv

(* A chunk is read.                                                         *)
LEMMA ReadKeeps == IInv /\ Read => IInv'
<1> SUFFICES ASSUME IInv, Read PROVE IInv'
  OBVIOUS
<1>1. /\ DriveInv /\ Assembled /\ UNCHANGED drive /\ UNCHANGED <<given, cut, failing, arr>>
      /\ arr.made /\ ~arr.refused
      /\ NothingStale /\ NothingMadeUp /\ AllThereIsIsRead /\ IncompleteIsRefused
  BY DEF IInv, Read
<1>2. given \subseteq Devices /\ got \in [Chunks -> {Short, Garbage, NotYet} \cup Numbers]
  BY <1>1 DEF Assembled
<1> DEFINE m == arr.members
           was(c) == Content(m, arr.clean, c)
<1>3. PICK c \in Chunks : got' = [got EXCEPT ![c] = was(c)]
  BY DEF Read
<1>4. PICK fresh \in given :
         Known(fresh) /\ Fills(m, fresh) /\ arr.clean = sb[fresh].clean /\ WholeOrClean(m, arr.clean)
  BY <1>1 DEF Assembled
<1> DEFINE x == was(c)
<1>5. x # Garbage
  BY <1>1, <1>2, <1>4, ReadIsNotMadeUp
<1>6. Live # {} => x \in {Short, Garbage} \cup Current(c)
  BY <1>1, <1>2, <1>4, ReadIsCurrent
<1>7. x \in {Short, Garbage} \cup Numbers
  <2>1. DriveType /\ a \in Arrays
    BY <1>1 DEF DriveInv, DriveType
  <2>2. DOMAIN m \subseteq Roles /\ \A r \in DOMAIN m : m[r] \in Devices
    BY <1>1, <1>2, <1>4, MembersAre
  <2> HIDE DEF m
  <2>3. \A r \in DOMAIN m : disk[m[r]][c] \in Numbers
    BY <2>1, <2>2 DEF DriveType
  <2> QED BY <2>1, <2>2, <2>3, ContentIsOnAMember
<1>8. Settled /\ Cardinality(Roles \ {mem.roles[d] : d \in Good}) <= Allowed => x # Short
  <2> DEFINE S == {mem.roles[d] : d \in Good}
  <2>1. SUFFICES ASSUME Settled, Cardinality(Roles \ S) <= Allowed PROVE x # Short
    OBVIOUS
  <2>2. \A g \in Good : sb[fresh] = mem /\ mem.roles[g] \in Roles /\ Reads(m, mem.roles[g])
    BY <1>1, <1>2, <1>4, <2>1, GoodIsThere DEF Settled
  <2>3. S \in SUBSET Roles /\ \A r \in S : Reads(m, r)
    BY <2>2
  <2>4. Good # {}
    <3>1. S # {}
      BY <1>1, <2>1, <2>3, EnoughLeft DEF DriveInv, DriveType
    <3> QED BY <3>1
  <2>5. arr.clean \/ Parity = {}
    BY <1>4, <2>1, <2>2, <2>4 DEF Settled
  <2> HIDE DEF S, m
  <2> QED BY <1>1, <1>2, <1>4, <2>1, <2>3, <2>5, EnoughIsRead
<1> HIDE DEF x, m, was
<1>9. \A k \in Chunks : got'[k] = IF k = c THEN x ELSE got[k]
  BY <1>2, <1>3 DEF x
<1>10. DriveInv'
  BY <1>1, DriveStutters
<1>11. Assembled'
  <2>1. Numbers' = Numbers /\ sb' = sb
    BY <1>1 DEF Numbers, drive
  <2>2. got' \in [Chunks -> {Short, Garbage, NotYet} \cup Numbers]
    BY <1>2, <1>3, <1>7 DEF x
  <2> QED BY <1>1, <2>1, <2>2, SameGiven DEF Assembled
<1>12. NothingStale'
  BY <1>1, <1>6, <1>9, SameGiven DEF NothingStale
<1>13. NothingMadeUp'
  BY <1>1, <1>5, <1>9, SameGiven DEF NothingMadeUp
<1>14. AllThereIsIsRead'
  BY <1>1, <1>8, <1>9, SameGiven DEF AllThereIsIsRead
<1>15. IncompleteIsRefused'
  BY <1>1 DEF IncompleteIsRefused
<1> QED BY <1>10, <1>11, <1>12, <1>13, <1>14, <1>15 DEF IInv

(* Nothing happens.                                                         *)
LEMMA StutterKeeps == IInv /\ UNCHANGED vars => IInv'
<1> SUFFICES ASSUME IInv, UNCHANGED vars PROVE IInv'
  OBVIOUS
<1>1. UNCHANGED drive /\ UNCHANGED <<given, cut, failing>> /\ arr' = arr /\ got' = got /\ sb' = sb
  BY DEF vars, program, drive
<1>2. DriveInv'
  BY <1>1, DriveStutters DEF IInv
<1>3. Assembled'
  <2>1. Numbers' = Numbers
    BY DEF Numbers
  <2> QED BY <1>1, <2>1, SameGiven DEF IInv, Assembled
<1>4. NothingStale' /\ NothingMadeUp' /\ AllThereIsIsRead' /\ IncompleteIsRefused'
  BY <1>1, SameGiven DEF IInv, NothingStale, NothingMadeUp, AllThereIsIsRead, IncompleteIsRefused
<1> QED BY <1>2, <1>3, <1>4 DEF IInv

(* The invariant is one.                                                    *)
LEMMA Invariant == Spec => []IInv
<1>1. IInv /\ [Next]_vars => IInv'
  BY DrivenKeeps, StopKeeps, AssembleKeeps, ReadKeeps, StutterKeeps DEF Next
<1> QED BY <1>1, Starts, PTL DEF Spec

(* A superblock never has more events than the driver's, no device says of  *)
(* itself that it failed, the members of an array assembled are of those    *)
(* given, and a chunk is read as what a write wrote, as short, or as bytes  *)
(* of no write.                                                             *)
THEOREM TypeCorrectMd == Spec => []TypeOK
<1>1. IInv => TypeOK
  <2> SUFFICES ASSUME IInv PROVE TypeOK
    OBVIOUS
  <2>1. DriveInv /\ Assembled /\ given \subseteq Devices
    BY DEF IInv, Assembled
  <2>2. \A r \in DOMAIN arr.members : r \in Roles /\ arr.members[r] \in given
    <3>1. CASE arr.made
      <4>1. PICK fresh \in given : Known(fresh) /\ Fills(arr.members, fresh)
        BY <2>1, <3>1 DEF Assembled
      <4> QED BY <2>1, <4>1, MembersAre
    <3>2. CASE ~arr.made
      BY <2>1, <3>2 DEF Assembled, NotAssembled
    <3> QED BY <3>1, <3>2
  <2> QED BY <2>1, <2>2 DEF TypeOK, Assembled, DriveInv, DriveType, History, Owns, Numbers
<1> QED BY <1>1, Invariant, PTL

(* Given one member that was in sync when the machine stopped, no chunk is  *)
(* read as it was before its last write, whatever else is given.            *)
THEOREM MdNothingStale == Spec => []NothingStale
<1>1. IInv => NothingStale
  BY DEF IInv
<1> QED BY <1>1, Invariant, PTL

(* No chunk is rebuilt from a parity that is not of the other chunks.       *)
THEOREM MdNothingMadeUp == Spec => []NothingMadeUp
<1>1. IInv => NothingMadeUp
  BY DEF IInv
<1> QED BY <1>1, Invariant, PTL

(* An array of which no more is missing than its level allows is read in    *)
(* full.                                                                    *)
THEOREM MdAllThereIsIsRead == Spec => []AllThereIsIsRead
<1>1. IInv => AllThereIsIsRead
  BY DEF IInv
<1> QED BY <1>1, Invariant, PTL

(* An array said to have too few members is refused.                        *)
THEOREM MdIncompleteIsRefused == Spec => []IncompleteIsRefused
<1>1. IInv => IncompleteIsRefused
  BY DEF IInv
<1> QED BY <1>1, Invariant, PTL

=============================================================================
