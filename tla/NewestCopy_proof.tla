-------------------------- MODULE NewestCopy_proof --------------------------
(***************************************************************************)
(* Proofs about NewestCopy: however often the writing of a volume was       *)
(* stopped, each reader finds a copy, whole, none older than the last that  *)
(* was safe nor than one read before, for any number of states and crashes. *)
(***************************************************************************)
EXTENDS NewestCopy, TLAPS, FiniteSetTheorems, SequenceTheorems

-----------------------------------------------------------------------------
(* The inductive invariant.  What all formats share first.                  *)
Part == [id : Nat, stamp : Nat, whole : BOOLEAN]
Lesser(x, y) == x.stamp < y.stamp /\ x.id < y.id

(* A reader may be shown this part.                                         *)
Known(x) == safe <= x.id /\ shown <= x.id

(* A state has one record: parts with one id are one.                       *)
Common ==
    /\ fmt \in Formats /\ {issued, safe, shown} \subseteq Nat \ {0}
    /\ medium \in [Copies \X Parts -> Part]
    /\ \A a \in Copies \X Parts :
          /\ medium[a].id <= issued
          /\ IF medium[a].whole THEN medium[a].id > 0 /\ medium[a].stamp > 0 ELSE medium[a].id = 0
          /\ medium[a].id = current.id => medium[a] = current
          /\ \A b \in Copies \X Parts : medium[a].id = medium[b].id /\ medium[a].whole => medium[a] = medium[b]
    /\ current \in Part /\ current.whole /\ current.id \in 1..issued /\ current.stamp > 0
    /\ making \in {0, current.id}
    /\ making = 0 => flying = {} /\ steps = <<>>

Idle == flying = {} /\ steps = <<>>
Then(S, rest) == flying = S /\ steps = rest

(* A writer that has S still to put on the medium, of the places T.         *)
Putting(c, T) == flying = {Put(c, p, current) : p \in T}

Held(c) == At(c, "block")

(* Formats read by the greatest version number, and where the second of two *)
(* copies goes.                                                             *)
Serial == {"QNX6", "ReFS", "APFS", "LUKS2"}
Twice == {"APFS", "LUKS2"}
Second == IF fmt = "APFS" THEN Zero ELSE 2

(* One copy is the newest that is whole, and is not written while the next  *)
(* state is; a state written twice is in it before the second is begun.     *)
SerialAt(c) ==
    /\ Held(c).whole /\ Known(Held(c))
    /\ \A d \in Copies : Held(d).whole => Held(d) = Held(c) \/ Lesser(Held(d), Held(c))
    /\ fmt = "APFS" => c # Zero /\ Held(Zero).whole
    /\ fmt # "LUKS2" => \A d \in Copies \ {Zero, c} : Held(d) # Held(c)
    /\ \/ /\ Idle /\ current = Held(c)
          /\ fmt = "LUKS2" => \A d \in Copies : Held(d) = current
       \/ \E o \in Copies \ {Zero, c} :
             /\ flying = All(o, current) /\ Lesser(Held(c), current)
             /\ fmt = "LUKS2" => o = 1
             /\ steps = IF fmt \in Twice THEN <<All(Second, current)>> ELSE <<>>
       \/ Then({}, <<All(Second, current)>>) /\ current = Held(c) /\ fmt \in Twice /\ c # Second
       \/ \E o \in Copies \ {c} :
             /\ Then(All(o, current), <<>>) /\ current = Held(c) /\ fmt \in Twice
             /\ fmt = "APFS" => o = Zero

SerialInv == fmt \in Serial => \E c \in Copies : SerialAt(c)

(* Btrfs writes its copies at once, T those to come: the primary is new, or *)
(* is the old one, or is torn and one of the others tells.                  *)
BtrfsAt(T) ==
    /\ Then(UNION {All(c, current) : c \in T}, <<>>)
    /\ \A c \in Copies \ T : Held(c) = current
    /\ 1 \notin T => Known(current)
    /\ 1 \in T =>
          /\ \A c, d \in T : Held(c).whole /\ Held(d).whole => Held(c) = Held(d)
          /\ \A c, d \in T : ~Held(c).whole /\ ~Held(d).whole => c = d
          /\ \A c \in T : IF Held(c).whole THEN Lesser(Held(c), current) ELSE Held(c).stamp > 0
          /\ IF Held(1).whole THEN Known(Held(1))
             ELSE IF T = Copies THEN Known(Held(2)) ELSE Known(current)

BtrfsInv == fmt = "Btrfs" => \E T \in SUBSET Copies : BtrfsAt(T)

(* UBI's volume table: while the first copy is not whole the second is.     *)
TableIdle == Idle /\ Held(1) = current /\ Held(2) = current /\ Known(current)
TableFirst ==
    /\ Held(2).whole /\ Known(Held(2)) /\ Lesser(Held(2), current)
    /\ Held(1).whole => Held(1) = Held(2)
    /\ \/ Then(Erase(1), <<All(1, current), Erase(2), All(2, current)>>)
       \/ Then({}, <<All(1, current), Erase(2), All(2, current)>>) /\ ~Held(1).whole
       \/ Then(All(1, current), <<Erase(2), All(2, current)>>) /\ ~Held(1).whole
TableSecond ==
    /\ Held(1) = current /\ Known(current)
    /\ \/ Then({}, <<Erase(2), All(2, current)>>)
       \/ Then(Erase(2), <<All(2, current)>>)
       \/ Then({}, <<All(2, current)>>)
       \/ Then(All(2, current), <<>>)
TableMend == Held(2) = current /\ ~Held(1).whole /\ Known(current) /\ Then(All(1, current), <<>>)

TableInv == fmt = "UBItable" => TableIdle \/ TableFirst \/ TableSecond \/ TableMend

(* The GPT: while the primary is not a table the backup is.                 *)
GptFirst(T) ==
    /\ At(1, "head").whole /\ At(1, "array") = At(1, "head") /\ Known(At(1, "head"))
    /\ Putting(2, T) /\ \A p \in Parts \ T : At(2, p) = current
    /\ \/ steps = <<>> /\ current = At(1, "head")
       \/ steps = <<All(1, current)>> /\ Lesser(At(1, "head"), current)

GptBackup(T) ==
    /\ At(2, "head") = current /\ At(2, "array") = current
    /\ steps = <<>> /\ Putting(1, T) /\ \A p \in Parts \ T : At(1, p) = current
    /\ \A p \in T : At(1, p).id <= current.id
    /\ Known(current)
    /\ Table(1) => Known(At(1, "head"))

GptInv == fmt = "GPT" => \E T \in SUBSET Parts : GptFirst(T) \/ GptBackup(T)

(* F2FS: one pack is whole, and the tail of the other is older.             *)
F2fsAt(c) ==
    LET o == 3 - c
        y == At(c, "head") IN
    /\ y.whole /\ \A p \in Parts : At(c, p) = y
    /\ Known(y) /\ Lesser(At(o, "tail"), y)
    /\ \/ Idle /\ current = y
       \/ /\ Lesser(y, current)
          /\ \E T \in SUBSET {"head", "body"} :
                /\ Putting(o, T) /\ steps = <<{Put(o, "tail", current)}>>
                /\ \A p \in {"head", "body"} \ T : At(o, p) = current
       \/ /\ Lesser(y, current) /\ Then({Put(o, "tail", current)}, <<>>)
          /\ At(o, "head") = current /\ At(o, "body") = current

F2fsInv == fmt = "F2FS" => \E c \in Copies : F2fsAt(c)

(* LVM: of the two texts of an area the header names one, the other is      *)
(* spare; the first area is never behind the second.                        *)
Texts == {"text1", "text2"}
Spare(c) == CHOOSE p \in Texts : At(c, p).id # At(c, "head").id
Area(c) == At(c, "head").whole /\ \E p, q \in Texts : At(c, p) = At(c, "head") /\ At(c, q).id # At(c, "head").id

LvmAreas ==
    /\ Area(1) /\ Area(2) /\ Known(At(1, "head"))
    /\ At(2, "head") = At(1, "head") \/ Lesser(At(2, "head"), At(1, "head"))
LvmRest == Idle /\ current = At(1, "head")
LvmTexts(T) ==
    /\ Lesser(At(1, "head"), current)
    /\ Then({Put(c, Spare(c), current) : c \in T}, <<{Put(1, "head", current)}, {Put(2, "head", current)}>>)
    /\ \A c \in Copies \ T : At(c, Spare(c)) = current
LvmFirst ==
    /\ Lesser(At(1, "head"), current)
    /\ Then({Put(1, "head", current)}, <<{Put(2, "head", current)}>>)
    /\ \A c \in Copies : At(c, Spare(c)) = current
LvmSecond ==
    /\ current = At(1, "head") /\ Lesser(At(2, "head"), current) /\ At(2, Spare(2)) = current
    /\ Then({}, <<{Put(2, "head", current)}>>) \/ Then({Put(2, "head", current)}, <<>>)

LvmInv ==
    fmt = "LVM" => LvmAreas /\ (LvmRest \/ (\E T \in SUBSET Copies : LvmTexts(T)) \/ LvmFirst \/ LvmSecond)

(* UBI: block c is whole, and o is older or does not match.                 *)
UbiWhole(c, o) ==
    /\ At(c, "vid").whole /\ At(c, "data") = At(c, "vid") /\ Known(At(c, "vid"))
    /\ At(o, "vid").whole =>
          \/ Lesser(At(o, "vid"), At(c, "vid"))
          \/ /\ At(o, "vid").stamp > At(c, "vid").stamp
             /\ ~(At(o, "data").whole /\ At(o, "data").id = At(o, "vid").id)
UbiDone(c, o) ==
    /\ current = At(c, "vid")
    /\ Idle \/ Then({}, <<Erase(o)>>) \/ Then(Erase(o), <<>>)

(* The writing of o, from its being erased to its data.                     *)
UbiErase(c, o) == Then(Erase(o), <<{Put(o, "vid", current)}, {Put(o, "data", current)}, Erase(c)>>)
UbiErased(c, o) ==
    /\ At(o, "vid") = Blank /\ At(o, "data") = Blank
    /\ Then({}, <<{Put(o, "vid", current)}, {Put(o, "data", current)}, Erase(c)>>)
UbiVid(c, o) ==
    /\ ~At(o, "vid").whole /\ At(o, "data") = Blank
    /\ Then({Put(o, "vid", current)}, <<{Put(o, "data", current)}, Erase(c)>>)
UbiVidDone(c, o) ==
    /\ At(o, "vid") = current /\ At(o, "data") = Blank
    /\ Then({}, <<{Put(o, "data", current)}, Erase(c)>>)
UbiData(c, o) ==
    /\ At(o, "vid") = current /\ ~At(o, "data").whole
    /\ Then({Put(o, "data", current)}, <<Erase(c)>>)
UbiMake(c, o) ==
    /\ Lesser(At(c, "vid"), current)
    /\ UbiErase(c, o) \/ UbiErased(c, o) \/ UbiVid(c, o) \/ UbiVidDone(c, o) \/ UbiData(c, o)
UbiAt(c, o) == c # o /\ UbiWhole(c, o) /\ (UbiDone(c, o) \/ UbiMake(c, o))

UbiInv == fmt = "UBI" => \E c, o \in Copies : UbiAt(c, o)

(* UBIFS: each block is a log of two nodes.  The first is ahead of the      *)
(* second unless it is being made anew.                                     *)
Log(c) == IF At(c, "node1").whole
          THEN At(c, "node2").whole => Lesser(At(c, "node1"), At(c, "node2"))
          ELSE At(c, "node2") = Blank
Latest(c) == IF At(c, "node2").whole THEN At(c, "node2") ELSE At(c, "node1")

(* Block c is being written, and rest comes after it.                       *)
Follows(S, T, rest) == flying = S /\ steps # <<>> /\ Head(steps) = T /\ Tail(steps) = rest
Logging(c, rest) ==
    \/ /\ Then({Put(c, "node2", current)}, rest)
       /\ At(c, "node1").whole /\ ~At(c, "node2").whole /\ Lesser(At(c, "node1"), current)
    \/ Follows(Erase(c), {Put(c, "node1", current)}, rest)
    \/ At(c, "node1") = Blank /\ Follows({}, {Put(c, "node1", current)}, rest)
    \/ ~At(c, "node1").whole /\ Then({Put(c, "node1", current)}, rest)

UbifsBoth == Idle /\ Latest(1) = current /\ Latest(2) = current /\ Known(current)
UbifsFirst ==
    /\ Latest(2).whole /\ Known(Latest(2))
    /\ Latest(1).whole => Latest(1) = Latest(2)
    /\ \/ current = Latest(2) /\ ~Latest(1).whole /\ Logging(1, <<>>)
       \/ Lesser(Latest(2), current) /\ Logging(1, Appending(2, current))
UbifsSecond ==
    /\ Latest(1) = current /\ Known(current)
    /\ Latest(2).whole => Lesser(Latest(2), current)
    /\ Then({}, Appending(2, current)) \/ Logging(2, <<>>)

UbifsInv == fmt = "UBIFS" => Log(1) /\ Log(2) /\ (UbifsBoth \/ UbifsFirst \/ UbifsSecond)

IInv == /\ Common /\ SerialInv /\ BtrfsInv /\ TableInv /\ GptInv
        /\ F2fsInv /\ LvmInv /\ UbiInv /\ UbifsInv

-----------------------------------------------------------------------------
(* Proofs of steps: what every format's share.                              *)

(* A plan is begun with its first step.                                     *)
LEMMA StartOf ==
    ASSUME NEW a, NEW b, NEW c, NEW d
    PROVE  /\ <<a>> # <<>> /\ Head(<<a>>) = a /\ Tail(<<a>>) = <<>>
           /\ <<a, b>> # <<>> /\ Head(<<a, b>>) = a /\ Tail(<<a, b>>) = <<b>>
           /\ <<a, b, c>> # <<>> /\ Head(<<a, b, c>>) = a /\ Tail(<<a, b, c>>) = <<b, c>>
           /\ <<a, b, c, d>> # <<>> /\ Head(<<a, b, c, d>>) = a /\ Tail(<<a, b, c, d>>) = <<b, c, d>>
  OBVIOUS

(* Blank and what a crash tears are parts of the medium.                    *)
LEMMA PartIs ==
    /\ Blank \in Part /\ First \in Part
    /\ \A s \in Nat : [id |-> 0, stamp |-> s, whole |-> FALSE] \in Part
    /\ \A x \in Part : x.id \in Nat /\ x.stamp \in Nat /\ x.whole \in BOOLEAN
    /\ Blank.id = 0 /\ Blank.stamp = 0 /\ ~Blank.whole
  BY DEF Blank, First, Part

(* What any place of the medium may hold.                                   *)
LEMMA AtIs ==
    ASSUME Common, NEW c \in Copies, NEW p \in Parts
    PROVE  /\ At(c, p) \in Part /\ At(c, p).id \in 0..issued /\ At(c, p).stamp \in Nat
           /\ At(c, p).whole \in BOOLEAN
           /\ At(c, p).whole <=> At(c, p).id > 0
           /\ At(c, p).whole => At(c, p).stamp > 0
           /\ At(c, p).id = current.id => At(c, p) = current
<1>1. <<c, p>> \in Copies \X Parts
  OBVIOUS
<1>2. medium[<<c, p>>] \in Part /\ issued \in Nat
  BY <1>1 DEF Common
<1> PICK x \in Part : x = medium[<<c, p>>]
  BY <1>2
<1>3. x.id <= issued /\ (IF x.whole THEN x.id > 0 /\ x.stamp > 0 ELSE x.id = 0)
      /\ (x.id = current.id => x = current)
  BY <1>1 DEF Common
<1>4. x.id \in Nat /\ x.stamp \in Nat /\ x.whole \in BOOLEAN
  BY PartIs
<1> QED BY <1>2, <1>3, <1>4 DEF At

(* Two whole parts with one id are one.                                     *)
LEMMA OneRecord ==
    ASSUME Common, NEW c \in Copies, NEW p \in Parts, NEW d \in Copies, NEW q \in Parts,
           At(c, p).whole, At(c, p).id = At(d, q).id
    PROVE  At(c, p) = At(d, q)
<1>1. <<c, p>> \in Copies \X Parts /\ <<d, q>> \in Copies \X Parts
  OBVIOUS
<1> QED BY <1>1 DEF Common, At

(* A write of one part changes that part alone.                             *)
LEMMA PutWritten ==
    ASSUME Common, NEW c \in Copies, NEW p \in Parts, NEW x, NEW y,
           medium' = Written(Put(c, p, x), y), fmt' = fmt
    PROVE  /\ Copies' = Copies /\ Parts' = Parts
           /\ medium' = [medium EXCEPT ![<<c, p>>] = y]
           /\ \A d \in Copies, q \in Parts : At(d, q)' = IF d = c /\ q = p THEN y ELSE At(d, q)
<1>1. Copies' = Copies /\ Parts' = Parts
  BY DEF Copies, Parts
<1>2. medium \in [Copies \X Parts -> Part]
  BY DEF Common
<1>3. Put(c, p, x).at = {<<c, p>>}
  BY DEF Put
<1>4. medium' = [at \in Copies \X Parts |-> IF at = <<c, p>> THEN y ELSE medium[at]]
  BY <1>2, <1>3 DEF Written
<1>5. medium' = [medium EXCEPT ![<<c, p>>] = y]
  BY <1>2, <1>4
<1>6. \A d \in Copies, q \in Parts : At(d, q)' = IF d = c /\ q = p THEN y ELSE At(d, q)
  BY <1>4 DEF At
<1> QED BY <1>1, <1>5, <1>6

(* A write is of one place.                                                 *)
LEMMA PutOne ==
    ASSUME NEW c, NEW p, NEW x, NEW d, NEW q, NEW y, Put(c, p, x) = Put(d, q, y)
    PROVE  c = d /\ p = q /\ x = y
<1>1. Put(c, p, x).at = {<<c, p>>} /\ Put(d, q, y).at = {<<d, q>>} /\ Put(c, p, x).part = x /\ Put(d, q, y).part = y
  BY DEF Put
<1>2. <<c, p>> \in {<<d, q>>} /\ x = y
  BY <1>1
<1>3. <<c, p>> = <<d, q>>
  BY <1>2
<1> QED BY <1>2, <1>3

(* Erasing a block leaves it blank.                                         *)
LEMMA EraseWritten ==
    ASSUME Common, NEW c \in Copies, NEW w \in Erase(c),
           medium' = Written(w, w.part), fmt' = fmt
    PROVE  /\ Copies' = Copies /\ Parts' = Parts
           /\ w.part = Blank
           /\ \A d \in Copies, q \in Parts : At(d, q)' = IF d = c THEN Blank ELSE At(d, q)
<1>1. Copies' = Copies /\ Parts' = Parts
  BY DEF Copies, Parts
<1>2. w.at = {c} \X Parts /\ w.part = Blank
  BY DEF Erase
<1>3. medium' = [at \in Copies \X Parts |-> IF at \in {c} \X Parts THEN Blank ELSE medium[at]]
  BY <1>2 DEF Written, Common
<1>4. \A d \in Copies, q \in Parts : At(d, q)' = IF d = c THEN Blank ELSE At(d, q)
  BY <1>3 DEF At
<1> QED BY <1>1, <1>2, <1>4

(* What a writer may find when it starts again.                             *)
Finds == \E c \in Copies, p \in Parts : At(c, p).whole /\ Found = At(c, p)

(* A write under way is of the state being made, or erases.                 *)
Flies == \A w \in flying : w.part \in {current, Blank} /\ w.at \subseteq Copies \X Parts

(* Whichever format's, a write under way keeps to one record for each state.*)
LEMMA WriteKeeps ==
    ASSUME Common, Flies, NEW w \in flying, NEW y \in Part,
           IF y.whole THEN y = current ELSE y.id = 0,
           medium' = Written(w, y), fmt' = fmt, current' = current, issued' = issued,
           safe' = safe, shown' = shown, making' = making,
           flying' \subseteq flying, steps' = steps
    PROVE  Common'
<1> DEFINE D == Copies \X Parts
<1>1. D' = D
  BY DEF Copies, Parts
<1>2. /\ medium \in [D -> Part] /\ current \in Part /\ current.whole /\ current.id \in 1..issued
      /\ current.stamp > 0
      /\ \A a \in D :
          /\ medium[a].id <= issued
          /\ IF medium[a].whole THEN medium[a].id > 0 /\ medium[a].stamp > 0 ELSE medium[a].id = 0
          /\ medium[a].id = current.id => medium[a] = current
          /\ \A b \in D : medium[a].id = medium[b].id /\ medium[a].whole => medium[a] = medium[b]
  BY DEF Common
<1>3. medium' = [a \in D |-> IF a \in w.at THEN y ELSE medium[a]]
  BY <1>2 DEF Written
<1> PICK m : m = medium'
  OBVIOUS
<1>4. m \in [D -> Part] /\ \A a \in D : m[a] = y \/ m[a] = medium[a]
  BY <1>2, <1>3
<1>5. /\ y.id <= issued /\ (y.id = current.id => y = current)
      /\ IF y.whole THEN y.id > 0 /\ y.stamp > 0 ELSE y.id = 0
  BY <1>2, PartIs DEF Common
<1>6. \A a \in D :
          /\ m[a].id <= issued
          /\ IF m[a].whole THEN m[a].id > 0 /\ m[a].stamp > 0 ELSE m[a].id = 0
          /\ m[a].id = current.id => m[a] = current
  BY <1>2, <1>4, <1>5
<1>7. ASSUME NEW a \in D, NEW b \in D, m[a].id = m[b].id, m[a].whole
      PROVE  m[a] = m[b]
  <2>1. CASE m[a] = y
    <3>1. m[a] = current /\ m[b].id = current.id
      BY <1>7, <2>1
    <3> QED BY <1>6, <3>1
  <2>2. CASE m[b] = y
    <3>1. y.whole
      BY <1>5, <1>6, <1>7, <2>2
    <3>2. m[b] = current /\ m[a].id = current.id
      BY <1>7, <2>2, <3>1
    <3> QED BY <1>6, <3>2
  <2>3. CASE m[a] = medium[a] /\ m[b] = medium[b]
    BY <1>2, <1>7, <2>3
  <2> QED BY <1>4, <2>1, <2>2, <2>3
<1>8. /\ fmt' \in Formats /\ {issued', safe', shown'} \subseteq Nat \ {0}
      /\ current' \in Part /\ current'.whole /\ current'.id \in 1..issued' /\ current'.stamp > 0
      /\ making' \in {0, current'.id}
      /\ making' = 0 => flying' = {} /\ steps' = <<>>
  BY DEF Common
<1>9. /\ medium' \in [D' -> Part]
      /\ \A a \in D' :
          /\ medium'[a].id <= issued'
          /\ IF medium'[a].whole THEN medium'[a].id > 0 /\ medium'[a].stamp > 0 ELSE medium'[a].id = 0
          /\ medium'[a].id = current'.id => medium'[a] = current'
          /\ \A b \in D' : medium'[a].id = medium'[b].id /\ medium'[a].whole => medium'[a] = medium'[b]
  BY <1>1, <1>4, <1>6, <1>7
<1> HIDE DEF D
<1> QED BY <1>8, <1>9 DEF Common, D

(* A write that reaches the medium keeps to one record for each state.      *)
LEMMA LandKeeps ==
    ASSUME Common, Flies, NEW w \in flying, Land(w), shown' = shown
    PROVE  Common'
<1>1. w.part \in {current, Blank} /\ current \in Part /\ current.whole
  BY DEF Flies, Common
<1>2. w.part \in Part /\ IF w.part.whole THEN w.part = current ELSE w.part.id = 0
  BY <1>1, PartIs
<1>3. /\ medium' = Written(w, w.part) /\ fmt' = fmt /\ current' = current /\ issued' = issued
      /\ safe' = safe /\ making' = making /\ flying' \subseteq flying /\ steps' = steps
  BY DEF Land
<1> QED BY <1>2, <1>3, WriteKeeps

(* What is torn holds no state, and a version number of two.                *)
LEMMA TearKeeps ==
    ASSUME Common, Flies, NEW w \in flying, Tear(w), shown' = shown
    PROVE  /\ Common'
           /\ \E s \in {medium[at].stamp : at \in w.at} \cup {w.part.stamp} :
                s \in Nat /\ medium' = Written(w, [id |-> 0, stamp |-> s, whole |-> FALSE])
<1>1. PICK s \in {medium[at].stamp : at \in w.at} \cup {w.part.stamp} :
            medium' = Written(w, [id |-> 0, stamp |-> s, whole |-> FALSE])
  BY DEF Tear
<1>2. s \in Nat
  <2>1. CASE s = w.part.stamp
    BY <2>1, PartIs DEF Flies, Common
  <2>2. CASE \E at \in w.at : s = medium[at].stamp
    <3>1. PICK at \in Copies \X Parts : s = medium[at].stamp
      BY <2>2 DEF Flies
    <3>2. medium[at] \in Part
      BY <3>1 DEF Common
    <3> QED BY <3>1, <3>2, PartIs
  <2> QED BY <2>1, <2>2
<1> PICK y : y = [id |-> 0, stamp |-> s, whole |-> FALSE]
  OBVIOUS
<1>3. y \in Part /\ ~y.whole /\ y.id = 0
  BY <1>2, PartIs
<1>4. /\ medium' = Written(w, y) /\ fmt' = fmt /\ current' = current /\ issued' = issued
      /\ safe' = safe /\ making' = making /\ flying' \subseteq flying /\ steps' = steps
  BY <1>1 DEF Tear
<1>5. Common'
  BY <1>3, <1>4, WriteKeeps
<1> QED BY <1>1, <1>2, <1>5

(* A new state has a number no part has.                                    *)
LEMMA BeginKeeps ==
    ASSUME Common, Begin, shown' = shown
    PROVE  /\ Common'
           /\ current' = [id |-> issued + 1, stamp |-> current.stamp + 1, whole |-> TRUE]
           /\ medium' = medium /\ fmt' = fmt /\ safe' = safe /\ making' # 0 /\ making = 0
           /\ flying = {} /\ steps = <<>> /\ Start(Plan(current'))
           /\ Copies' = Copies /\ Parts' = Parts /\ \A c, p : At(c, p)' = At(c, p)
           /\ Lesser(current, current') /\ issued' = issued + 1
<1> PICK x : x = [id |-> issued + 1, stamp |-> current.stamp + 1, whole |-> TRUE]
  OBVIOUS
<1>1. /\ making = 0 /\ issued' = issued + 1 /\ making' = x.id /\ current' = x /\ Start(Plan(x))
      /\ medium' = medium /\ fmt' = fmt /\ safe' = safe
  BY DEF Begin
<1>2. /\ issued \in Nat \ {0} /\ current \in Part /\ current.id \in 1..issued
      /\ flying = {} /\ steps = <<>>
  BY <1>1 DEF Common
<1>3. /\ x \in Part /\ x.whole /\ x.id = issued + 1 /\ x.stamp = current.stamp + 1 /\ x.id \in 1..issued'
      /\ x.stamp > 0 /\ x.id # 0 /\ Lesser(current, x)
  <2>1. current.stamp \in Nat
    BY <1>2, PartIs
  <2>2. x.whole /\ x.id = issued + 1 /\ x.stamp = current.stamp + 1
    OBVIOUS
  <2>3. x \in Part
    BY <1>2, <2>1 DEF Part
  <2> QED BY <1>1, <1>2, <2>1, <2>2, <2>3 DEF Lesser
<1>4. Copies' = Copies /\ Parts' = Parts
  BY <1>1 DEF Copies, Parts
<1>5. \A a \in Copies \X Parts : medium[a].id <= issued /\ medium[a].id \in Nat
  <2> TAKE a \in Copies \X Parts
  <2>1. medium[a] \in Part
    BY DEF Common
  <2> QED BY <2>1, PartIs DEF Common
<1>6. \A a \in Copies \X Parts : medium[a].id <= issued + 1 /\ medium[a].id # x.id
  BY <1>2, <1>3, <1>5
<1>7. \A c, p : At(c, p)' = At(c, p)
  BY <1>1 DEF At
<1>8. Common'
  BY <1>1, <1>2, <1>3, <1>4, <1>6 DEF Common
<1> QED BY <1>1, <1>2, <1>3, <1>4, <1>7, <1>8

(* Steps that leave the medium alone.                                       *)
LEMMA FlushKeeps ==
    ASSUME Common, Flush, shown' = shown
    PROVE  /\ Common' /\ current' = current /\ fmt' = fmt /\ safe' = safe
           /\ flying = {} /\ steps # <<>> /\ flying' = Head(steps) /\ steps' = Tail(steps)
           /\ Copies' = Copies /\ Parts' = Parts /\ \A c, p : At(c, p)' = At(c, p)
<1>1. /\ medium' = medium /\ fmt' = fmt /\ current' = current /\ issued' = issued
      /\ safe' = safe /\ making' = making /\ making # 0 /\ flying = {} /\ steps # <<>>
      /\ flying' = Head(steps) /\ steps' = Tail(steps)
  BY DEF Flush, Start
<1>2. Copies' = Copies /\ Parts' = Parts /\ \A c, p : At(c, p)' = At(c, p)
  BY <1>1 DEF Copies, Parts, At
<1>3. Common'
  BY <1>1, <1>2 DEF Common
<1> QED BY <1>1, <1>2, <1>3

(* When the last step is done the state made becomes the one that is safe.  *)
LEMMA FinishKeeps ==
    ASSUME Common, Finish, shown' = shown
    PROVE  /\ Common' /\ current' = current /\ fmt' = fmt
           /\ safe' = current.id /\ Idle /\ Idle'
           /\ Copies' = Copies /\ Parts' = Parts /\ \A c, p : At(c, p)' = At(c, p)
<1>1. /\ medium' = medium /\ fmt' = fmt /\ current' = current /\ issued' = issued
      /\ safe' = making /\ making # 0 /\ making' = 0 /\ flying = {} /\ steps = <<>>
      /\ flying' = {} /\ steps' = <<>>
  BY DEF Finish
<1>2. Copies' = Copies /\ Parts' = Parts /\ \A c, p : At(c, p)' = At(c, p)
  BY <1>1 DEF Copies, Parts, At
<1>3. making = current.id /\ current.id \in Nat \ {0}
  BY <1>1 DEF Common
<1>4. Common'
  BY <1>1, <1>2, <1>3 DEF Common
<1> QED BY <1>1, <1>2, <1>3, <1>4 DEF Idle

(* A writer that starts again goes on from the part it finds.               *)
LEMMA CrashKeeps ==
    ASSUME Common, Crash, Finds, shown' = shown
    PROVE  /\ Common' /\ current' = Found /\ fmt' = fmt /\ safe' = safe /\ Start(Mending(Found))
           /\ Copies' = Copies /\ Parts' = Parts /\ \A c, p : At(c, p)' = At(c, p)
<1>1. /\ medium' = medium /\ fmt' = fmt /\ current' = Found /\ issued' = issued
      /\ safe' = safe /\ making' = Found.id /\ Start(Mending(Found))
  BY DEF Crash
<1>2. Copies' = Copies /\ Parts' = Parts /\ \A c, p : At(c, p)' = At(c, p)
  BY <1>1 DEF Copies, Parts, At
<1>3. PICK c \in Copies, p \in Parts : At(c, p).whole /\ Found = At(c, p)
  BY DEF Finds
<1>4. /\ Found \in Part /\ Found.whole /\ Found.id \in 1..issued /\ Found.stamp > 0
      /\ making' # 0
  BY <1>1, <1>3, AtIs
<1>5. \A a \in Copies \X Parts : medium[a].id = Found.id => medium[a] = Found
  <2> TAKE a \in Copies \X Parts
  <2>1. <<c, p>> \in Copies \X Parts
    OBVIOUS
  <2> QED BY <1>3, <2>1 DEF Common, At
<1>6. Common'
  BY <1>1, <1>2, <1>4, <1>5 DEF Common
<1> QED BY <1>1, <1>2, <1>6

(* A reader changes nothing of the writer's.                                *)
LEMMA OpenKeeps ==
    ASSUME Common, UNCHANGED writer, shown' \in Nat \ {0}
    PROVE  Common'
<1>1. /\ medium' = medium /\ fmt' = fmt /\ current' = current /\ issued' = issued
      /\ safe' = safe /\ making' = making /\ flying' = flying /\ steps' = steps
  BY DEF writer
<1>2. Copies' = Copies /\ Parts' = Parts
  BY <1>1 DEF Copies, Parts
<1> QED BY <1>1, <1>2 DEF Common

(* What the writer finds is the copy it takes for the newest.               *)
LEMMA FoundIs ==
    ASSUME ~(fmt \in {"GPT", "Btrfs", "UBItable"} /\ Content(1) # Blank), NEW c \in Copies,
           Content(c).stamp \in Nat,
           \A d \in Copies : Content(d) = Content(c)
                             \/ (Content(d).stamp \in Nat /\ Content(d).stamp < Content(c).stamp)
    PROVE  Found = Content(c)
<1> DEFINE whole == {Content(d) : d \in Copies}
<1>1. Found = CHOOSE x \in whole : \A y \in whole : y.stamp <= x.stamp
  BY DEF Found
<1>2. Content(c) \in whole /\ \A y \in whole : y.stamp <= Content(c).stamp
  <2>1. ASSUME NEW y \in whole
        PROVE  y.stamp <= Content(c).stamp
    <3>1. PICK d \in Copies : y = Content(d)
      BY <2>1
    <3>2. CASE Content(d) = Content(c)
      BY <3>1, <3>2
    <3>3. CASE Content(d).stamp \in Nat /\ Content(d).stamp < Content(c).stamp
      BY <3>1, <3>3
    <3> QED BY <3>2, <3>3
  <2> QED BY <2>1
<1>3. \A x \in whole : (\A y \in whole : y.stamp <= x.stamp) => x = Content(c)
  <2> TAKE x \in whole
  <2> HAVE \A y \in whole : y.stamp <= x.stamp
  <2>1. PICK d \in Copies : x = Content(d)
    OBVIOUS
  <2>2. Content(c).stamp <= x.stamp
    BY <1>2
  <2>3. Content(d) = Content(c) \/ (Content(d).stamp \in Nat /\ Content(d).stamp < Content(c).stamp)
    BY <2>1
  <2>4. CASE Content(d).stamp \in Nat /\ Content(d).stamp < Content(c).stamp
    BY <2>1, <2>2, <2>4
  <2> QED BY <2>1, <2>3, <2>4
<1> HIDE DEF whole
<1> QED BY <1>1, <1>2, <1>3

(* GPT, Btrfs and UBI's volume table go on from the first copy that holds.  *)
LEMMA FoundFirst ==
    ASSUME fmt \in {"GPT", "Btrfs", "UBItable"}, Content(1) # Blank
    PROVE  Found = Content(1)
  BY DEF Found

(* Formats whose copies are one block.                                      *)
LEMMA OneBlock ==
    ASSUME Common, fmt \in Serial \cup {"Btrfs", "UBItable"}
    PROVE  /\ Parts = {"block"}
           /\ \A c, x : All(c, x) = {Put(c, "block", x)}
           /\ \A c \in Copies : Content(c) = IF Held(c).whole THEN Held(c) ELSE Blank
<1>1. Parts = {"block"}
  BY DEF Parts, Serial
<1>2. \A c, x : All(c, x) = {Put(c, "block", x)}
  BY <1>1 DEF All
<1>3. ASSUME NEW c \in Copies, Held(c).whole
      PROVE  Content(c) = Held(c)
  <2>1. {p \in Parts : medium[<<c, p>>].whole} = Parts
    BY <1>1, <1>3 DEF Held, At
  <2>2. {medium[<<c, p>>].id : p \in Parts} = {Held(c).id} /\ {medium[<<c, p>>] : p \in Parts} = {Held(c)}
    BY <1>1 DEF Held, At
  <2>3. Cardinality({Held(c).id}) = 1
    BY FS_Singleton
  <2>4. Held(c) # Blank
    BY <1>3, PartIs
  <2>5. Content(c) = CHOOSE x \in {Held(c)} : TRUE
    BY <2>1, <2>2, <2>3 DEF Content, Serial
  <2> QED BY <2>5
<1>4. ASSUME NEW c \in Copies, ~Held(c).whole
      PROVE  Content(c) = Blank
  <2>1. {p \in Parts : medium[<<c, p>>].whole} # Parts
    BY <1>1, <1>4 DEF Held, At
  <2> QED BY <2>1 DEF Content, Serial
<1> QED BY <1>1, <1>2, <1>3, <1>4

(* The newest of the copies of a format of one block is found, unless the   *)
(* writer looks at the first before all others and it holds.                *)
LEMMA FoundNewest ==
    ASSUME Common, fmt \in Serial \cup {"Btrfs", "UBItable"}, fmt \in Serial \/ ~Held(1).whole,
           NEW c \in Copies, Held(c).whole,
           \A d \in Copies : Held(d).whole => Held(d) = Held(c) \/ Held(d).stamp < Held(c).stamp
    PROVE  Found = Held(c) /\ Finds
<1>1. Parts = {"block"} /\ \A d \in Copies : Content(d) = IF Held(d).whole THEN Held(d) ELSE Blank
  BY OneBlock
<1>2. \A d \in Copies : Held(d).stamp \in Nat /\ (Held(d).whole => Held(d).stamp > 0)
  BY <1>1, AtIs DEF Held
<1>3. ~(fmt \in {"GPT", "Btrfs", "UBItable"} /\ Content(1) # Blank)
  <2>1. CASE fmt \in Serial
    BY <2>1 DEF Serial
  <2>2. CASE fmt \in {"Btrfs", "UBItable"} /\ ~Held(1).whole
    <3>1. 1 \in 1..3 /\ 1 \in 1..2
      OBVIOUS
    <3>2. 1 \in Copies
      BY <2>2, <3>1 DEF Copies
    <3> QED BY <1>1, <2>2, <3>2
  <2> QED BY <2>1, <2>2
<1>4. Content(c) = Held(c)
  BY <1>1
<1>5. \A d \in Copies : Content(d) = Content(c)
                        \/ (Content(d).stamp \in Nat /\ Content(d).stamp < Content(c).stamp)
  BY <1>1, <1>2, <1>4, PartIs
<1>6. Found = Held(c)
  BY <1>2, <1>3, <1>4, <1>5, FoundIs
<1> QED BY <1>1, <1>6 DEF Finds, Held

(* A copy with the greatest number is one of those that have it.            *)
LEMMA GreatestIs ==
    ASSUME Common, NEW p \in Parts, NEW S \in SUBSET Copies, NEW c \in S,
           \A d \in S : At(d, p).stamp <= At(c, p).stamp
    PROVE  Greatest(S, p) \in S /\ At(Greatest(S, p), p).stamp = At(c, p).stamp
<1> DEFINE Best(g) == \A d \in S : At(d, p).stamp <= At(g, p).stamp /\ (At(d, p).stamp = At(g, p).stamp => g <= d)
<1> PICK E : E = {d \in S : At(d, p).stamp = At(c, p).stamp}
  OBVIOUS
<1>1. Copies \subseteq {0, 1, 2, 3}
  <2>1. 1..3 = {1, 2, 3} /\ 1..2 = {1, 2}
    OBVIOUS
  <2> QED BY <2>1 DEF Copies, Zero
<1>2. \A d \in S : At(d, p).stamp \in Nat
  BY AtIs
<1>3. \A g \in E : (\A d \in E : g <= d) => Best(g)
  BY <1>1, <1>2
<1>4. \E g \in E : \A d \in E : g <= d
  <2>1. E \subseteq {0, 1, 2, 3} /\ c \in E
    BY <1>1
  <2>2. CASE 0 \in E
    BY <2>1, <2>2
  <2>3. CASE 0 \notin E /\ 1 \in E
    BY <2>1, <2>3
  <2>4. CASE 0 \notin E /\ 1 \notin E /\ 2 \in E
    BY <2>1, <2>4
  <2>5. CASE 0 \notin E /\ 1 \notin E /\ 2 \notin E
    BY <2>1, <2>5
  <2> QED BY <2>2, <2>3, <2>4, <2>5
<1>5. \E g \in S : Best(g)
  BY <1>3, <1>4
<1>6. Greatest(S, p) = CHOOSE g \in S : Best(g)
  BY DEF Greatest
<1>7. Greatest(S, p) \in S /\ Best(Greatest(S, p))
  <2> HIDE DEF Best
  <2> QED BY <1>5, <1>6
<1>8. At(Greatest(S, p), p).stamp <= At(c, p).stamp /\ At(c, p).stamp <= At(Greatest(S, p), p).stamp
  BY <1>7
<1> QED BY <1>2, <1>7, <1>8

(* Places that all hold one record are of its state.                        *)
LEMMA StateIs ==
    ASSUME NEW places, NEW x, places # {}, \A at \in places : medium[at] = x
    PROVE  State(places) = x.id
<1>1. {medium[at] : at \in places} = {x}
  OBVIOUS
<1>2. Cardinality({x}) = 1
  BY FS_Singleton
<1> QED BY <1>1, <1>2 DEF State

(* The copy with the greatest number, when all that have it hold x.         *)
LEMMA GreatestState ==
    ASSUME Common, NEW p \in Parts, NEW S \in SUBSET Copies, NEW c \in S, NEW x, At(c, p) = x,
           \A d \in S : At(d, p) = x \/ At(d, p).stamp < x.stamp
    PROVE  GreatestOf(S, p) # {} /\ State(GreatestOf(S, p)) = x.id
<1>1. \A d \in S : At(d, p).stamp \in Nat
  BY AtIs
<1>2. \A d \in S : At(d, p).stamp <= At(c, p).stamp
  BY <1>1
<1> PICK g : g = Greatest(S, p)
  OBVIOUS
<1>3. g \in S /\ At(g, p).stamp = At(c, p).stamp
  BY <1>2, GreatestIs
<1>4. At(g, p) = x
  BY <1>1, <1>3
<1>5. GreatestOf(S, p) = {<<g, p>>}
  BY DEF GreatestOf
<1> QED BY <1>4, <1>5, StateIs DEF At

-----------------------------------------------------------------------------
(* QNX6, ReFS, APFS and LUKS2.                                              *)

(* The copies of the formats read by the greatest number.                   *)
LEMMA SerialCopies ==
    ASSUME fmt \in Serial
    PROVE  /\ Copies = (IF fmt = "APFS" THEN {0, 1, 2} ELSE {1, 2})
           /\ Copies \ {Zero} = {1, 2} /\ Zero = 0 /\ 1 \in Copies /\ 2 \in Copies
           /\ Second = IF fmt = "APFS" THEN 0 ELSE 2
           /\ fmt \in {"QNX6", "ReFS", "APFS", "LUKS2"} /\ fmt # "Btrfs" /\ fmt # "GPT" /\ fmt # "UBItable"
<1>1. 1..3 = {1, 2, 3} /\ 1..2 = {1, 2}
  OBVIOUS
<1>2. fmt \in {"QNX6", "ReFS", "APFS", "LUKS2"}
  BY DEF Serial
<1>3. Copies = IF fmt = "APFS" THEN {0, 1, 2} ELSE {1, 2}
  BY <1>1, <1>2 DEF Copies, Zero
<1> QED BY <1>2, <1>3 DEF Zero, Second

(* What their writers have under way are blocks of the state being made.    *)
LEMMA SerialFlies ==
    ASSUME Common, fmt \in Serial, NEW c \in Copies, SerialAt(c)
    PROVE  Flies
<1>1. Parts = {"block"} /\ \A d, x : All(d, x) = {Put(d, "block", x)}
  BY OneBlock
<1>2. flying = {} \/ \E o \in Copies : flying = {Put(o, "block", current)}
  BY <1>1 DEF SerialAt, Idle, Then
<1> QED BY <1>1, <1>2 DEF Flies, Put

(* A new state goes over a copy that is not the newest.                     *)
LEMMA SerialBegin ==
    ASSUME Common, fmt \in Serial, NEW c \in Copies, SerialAt(c), Begin, shown' = shown
    PROVE  \E d \in Copies : SerialAt(d)'
<1> PICK x : x = current'
  OBVIOUS
<1>1. /\ Idle /\ current = Held(c) /\ (fmt = "LUKS2" => \A d \in Copies : Held(d) = current)
      /\ fmt' = fmt /\ safe' = safe /\ Start(Plan(x)) /\ Copies' = Copies
      /\ (\A d, p : At(d, p)' = At(d, p)) /\ Lesser(current, x) /\ \A d : Held(d)' = Held(d)
  <2>1. flying = {} /\ steps = <<>>
    BY BeginKeeps
  <2>2. \A d, y : All(d, y) # {} /\ <<All(d, y)>> # <<>>
    BY OneBlock
  <2>3. Idle /\ current = Held(c) /\ (fmt = "LUKS2" => \A d \in Copies : Held(d) = current)
    BY <2>1, <2>2 DEF SerialAt, Idle, Then
  <2> QED BY <2>3, BeginKeeps DEF Held
<1>2. SerialAt(c)
  OBVIOUS
<1>3. /\ Held(c).whole /\ Known(Held(c))
      /\ \A d \in Copies : Held(d).whole => Held(d) = Held(c) \/ Lesser(Held(d), Held(c))
      /\ fmt = "APFS" => c # Zero /\ Held(Zero).whole
      /\ fmt # "LUKS2" => \A d \in Copies \ {Zero, c} : Held(d) # Held(c)
  BY <1>2 DEF SerialAt
<1>4. \A d : Known(Held(d))' <=> Known(Held(d))
  BY <1>1 DEF Known
<1>7. Parts' = Parts /\ (\A d : All(d, current)' = All(d, x)) /\ \A d, y : All(d, y)' = All(d, y)
  <2>1. Parts' = Parts
    BY BeginKeeps
  <2> QED BY <2>1 DEF All, Put
<1>5. ASSUME fmt = "LUKS2"
      PROVE  SerialAt(2)'
  <2>1. Plan(x) = <<All(1, x), All(2, x)>>
    BY <1>5 DEF Plan
  <2>2. flying' = All(1, x) /\ steps' = <<All(2, x)>>
    BY <1>1, <2>1, StartOf DEF Start
  <2>3. Copies = {1, 2} /\ Zero = 0 /\ Second = 2
    BY <1>5, SerialCopies
  <2>4. Second' = 2 /\ Zero # 2 /\ fmt' = "LUKS2" /\ fmt' \in Twice /\ Copies' = Copies
    BY <1>1, <1>5, <2>3 DEF Second, Zero, Twice
  <2>5. Held(2) = Held(c) /\ 2 \in Copies
    BY <1>1, <1>5, <2>3
  <2>6. /\ flying' = All(1, current)' /\ steps' = <<All(2, current)'>>
        /\ Lesser(Held(2), current)' /\ Known(Held(2))' /\ 1 \in Copies \ {Zero, 2}
    BY <1>1, <1>3, <1>4, <1>7, <2>2, <2>3, <2>5 DEF Lesser
  <2>7. (\A d \in Copies : Held(d).whole => Held(d) = Held(2) \/ Lesser(Held(d), Held(2)))'
    BY <1>1, <1>3, <2>5 DEF Lesser
  <2>8. Held(2).whole'
    BY <1>1, <1>3, <2>5
  <2> QED BY <2>4, <2>6, <2>7, <2>8 DEF SerialAt
<1>6. ASSUME fmt # "LUKS2"
      PROVE  SerialAt(c)'
  <2> PICK o \in {1, 2} : o # c
    OBVIOUS
  <2>1. c \in {1, 2} /\ o \in Copies /\ o # Zero
    BY <1>3, <1>6, SerialCopies
  <2>2. Content(c) = current /\ Content(o) # current
    BY <1>1, <1>3, <1>6, <2>1, OneBlock, PartIs
  <2>3. o = CHOOSE d \in Copies \ {Zero} : Content(d) # current
    <3>1. \A d \in Copies \ {Zero} : Content(d) # current <=> d = o
      BY <2>1, <2>2, SerialCopies
    <3> QED BY <2>1, <3>1
  <2>4. Plan(x) = IF fmt = "APFS" THEN <<All(o, x), All(Zero, x)>> ELSE <<All(o, x)>>
    BY <1>6, <2>3, SerialCopies DEF Plan
  <2>5. flying' = All(o, x) /\ steps' = IF fmt = "APFS" THEN <<All(Zero, x)>> ELSE <<>>
    BY <1>1, <2>4, StartOf DEF Start
  <2>6. /\ fmt' # "LUKS2" /\ Copies' = Copies /\ (fmt' \in Twice <=> fmt' = "APFS")
        /\ fmt' = "APFS" => Second' = Zero
        /\ o \in Copies \ {Zero, c}
    BY <1>1, <1>6, <2>1, SerialCopies DEF Twice, Second
  <2>7. /\ flying' = All(o, current)' /\ Lesser(Held(c), current)'
        /\ steps' = IF fmt' \in Twice THEN <<All(Second, current)'>> ELSE <<>>
    BY <1>1, <1>7, <2>5, <2>6 DEF Lesser
  <2>8. /\ Held(c).whole' /\ Known(Held(c))'
        /\ (\A d \in Copies : Held(d).whole => Held(d) = Held(c) \/ Lesser(Held(d), Held(c)))'
        /\ (fmt = "APFS" => c # Zero /\ Held(Zero).whole)'
        /\ (fmt # "LUKS2" => \A d \in Copies \ {Zero, c} : Held(d) # Held(c))'
    BY <1>1, <1>3, <1>4 DEF Lesser
  <2> QED BY <2>6, <2>7, <2>8 DEF SerialAt
<1> QED BY <1>5, <1>6, SerialCopies

(* What a step that keeps the format, and one that keeps the state in the   *)
(* making, leave as they are.                                               *)
LEMMA SameFormat ==
    ASSUME fmt' = fmt
    PROVE  /\ Copies' = Copies /\ Parts' = Parts /\ Second' = Second
           /\ \A c, x : All(c, x)' = All(c, x) /\ Erase(c)' = Erase(c)
           /\ \A c : All(c, current)' = All(c, current')
           /\ current' = current => \A c : All(c, current)' = All(c, current)
<1>1. Copies' = Copies /\ Parts' = Parts /\ Second' = Second
  BY DEF Copies, Parts, Second
<1> QED BY <1>1 DEF All, Put, Erase

(* A write of a block that lands or is torn.                                *)
LEMMA BlockWritten ==
    ASSUME Common, Parts = {"block"}, NEW o \in Copies, NEW x, NEW y, fmt' = fmt,
           medium' = Written(Put(o, "block", x), y)
    PROVE  \A d \in Copies : Held(d)' = IF d = o THEN y ELSE Held(d)
<1>1. "block" \in Parts
  OBVIOUS
<1>2. \A d \in Copies, q \in Parts : At(d, q)' = IF d = o /\ q = "block" THEN y ELSE At(d, q)
  BY <1>1, PutWritten
<1> QED BY <1>1, <1>2 DEF Held

(* The block under way becomes the newest that is whole.                    *)
LEMMA SerialLand ==
    ASSUME Common, fmt \in Serial, NEW c \in Copies, SerialAt(c), NEW w \in flying, Land(w), shown' = shown
    PROVE  \E d \in Copies : SerialAt(d)'
<1>1. Parts = {"block"} /\ \A d, x : All(d, x) = {Put(d, "block", x)}
  BY OneBlock
<1>2. /\ fmt' = fmt /\ current' = current /\ safe' = safe /\ steps' = steps
      /\ medium' = Written(w, w.part) /\ flying' = flying \ {w}
  BY DEF Land
<1>3. /\ Copies' = Copies /\ Second' = Second /\ \A d : All(d, current)' = All(d, current)
      /\ fmt' \in Twice <=> fmt \in Twice
  BY <1>2, SameFormat
<1>4. /\ Held(c).whole /\ Known(Held(c))
      /\ \A d \in Copies : Held(d).whole => Held(d) = Held(c) \/ Lesser(Held(d), Held(c))
      /\ fmt = "APFS" => c # Zero /\ Held(Zero).whole
      /\ fmt # "LUKS2" => \A d \in Copies \ {Zero, c} : Held(d) # Held(c)
  BY DEF SerialAt
<1>5. \A x, y : Lesser(x, y)' <=> Lesser(x, y)
  BY DEF Lesser
<1>6. current \in Part /\ current.whole /\ \A d \in Copies : Held(d) \in Part
  BY <1>1, AtIs DEF Held, Common
<1>7. ASSUME NEW o \in Copies, flying = All(o, current)
      PROVE  flying' = {} /\ \A d \in Copies : Held(d)' = IF d = o THEN current ELSE Held(d)
  <2>1. w = Put(o, "block", current) /\ w.part = current
    BY <1>1, <1>7 DEF Put
  <2> QED BY <1>1, <1>2, <1>7, <2>1, BlockWritten
<1>8. CASE \E o \in Copies \ {Zero, c} :
             /\ flying = All(o, current) /\ Lesser(Held(c), current)
             /\ fmt = "LUKS2" => o = 1
             /\ steps = IF fmt \in Twice THEN <<All(Second, current)>> ELSE <<>>
  <2> PICK o \in Copies \ {Zero, c} :
             /\ flying = All(o, current) /\ Lesser(Held(c), current)
             /\ fmt = "LUKS2" => o = 1
             /\ steps = IF fmt \in Twice THEN <<All(Second, current)>> ELSE <<>>
    BY <1>8
  <2>1. flying' = {} /\ \A d \in Copies : Held(d)' = IF d = o THEN current ELSE Held(d)
    BY <1>7
  <2>2. o \in Copies' /\ Held(o)' = current' /\ Held(o).whole' /\ Known(Held(o))'
    BY <1>2, <1>3, <1>4, <1>6, <2>1, PartIs DEF Known, Lesser, Common
  <2>3. \A d \in Copies : Held(d)'.whole => Held(d)' = current \/ Lesser(Held(d)', current)
    <3> TAKE d \in Copies
    <3>1. CASE d = o
      BY <2>1, <3>1
    <3>2. CASE d # o
      BY <1>4, <1>6, <2>1, <3>2, PartIs DEF Lesser
    <3> QED BY <3>1, <3>2
  <2>4. fmt' = "APFS" => o # Zero /\ Held(Zero)'.whole
    BY <1>2, <1>4, <2>1, SerialCopies
  <2>5. fmt' # "LUKS2" => \A d \in Copies \ {Zero, o} : Held(d)' # current
    <3>1. \A d \in Copies \ {Zero, o} : fmt # "LUKS2" => d = c
      BY <1>4, SerialCopies
    <3>2. Held(c)' # current
      BY <1>6, <2>1, PartIs DEF Lesser
    <3> QED BY <1>2, <3>1, <3>2
  <2>6. CASE fmt \in Twice
    <3>3. o # Second
      BY <2>6, SerialCopies DEF Twice
    <3>4. steps' = <<All(Second, current)>>
      BY <1>2, <2>6
    <3>5. All(Second, current)' = All(Second, current)
      BY <1>2, <1>3
    <3>1. flying' = {} /\ steps' = <<All(Second, current)'>> /\ o # Second'
      BY <1>3, <2>1, <3>3, <3>4, <3>5
    <3>2. Then({}, <<All(Second, current)>>)' /\ fmt' \in Twice
      BY <1>3, <2>6, <3>1 DEF Then
    <3> QED BY <1>2, <1>3, <2>2, <2>3, <2>4, <2>5, <3>1, <3>2 DEF SerialAt, Lesser
  <2>7. CASE fmt \notin Twice
    <3>1. Idle' /\ fmt' # "LUKS2"
      BY <1>2, <2>1, <2>7 DEF Idle, Twice
    <3> QED BY <1>2, <1>3, <2>2, <2>3, <2>4, <2>5, <3>1 DEF SerialAt, Lesser
  <2> QED BY <2>6, <2>7
<1>9. CASE \E o \in Copies \ {c} :
             /\ Then(All(o, current), <<>>) /\ current = Held(c) /\ fmt \in Twice
             /\ fmt = "APFS" => o = Zero
  <2> PICK o \in Copies \ {c} :
             /\ Then(All(o, current), <<>>) /\ current = Held(c) /\ fmt \in Twice
             /\ fmt = "APFS" => o = Zero
    BY <1>9
  <2>1. flying' = {} /\ \A d \in Copies : Held(d)' = IF d = o THEN current ELSE Held(d)
    BY <1>7 DEF Then
  <2>2. Idle' /\ current' = Held(c)' /\ Held(c)' = Held(c) /\ Known(Held(c))'
    BY <1>2, <1>4, <2>1 DEF Idle, Then, Known
  <2>3. \A d \in Copies : Held(d)'.whole => Held(d)' = Held(c)' \/ Lesser(Held(d)', Held(c)')
    BY <1>4, <2>1, <2>2
  <2>4. fmt' = "APFS" => c # Zero /\ Held(Zero)'.whole
    BY <1>2, <1>4, <1>6, <2>1, SerialCopies
  <2>5. fmt' # "LUKS2" => \A d \in Copies \ {Zero, c} : Held(d)' # Held(c)'
    BY <1>2, <1>4, <2>1, <2>2, SerialCopies DEF Twice
  <2>6. fmt' = "LUKS2" => \A d \in Copies : Held(d)' = current'
    BY <1>2, <2>1, <2>2, SerialCopies
  <2> QED BY <1>2, <1>3, <1>4, <2>2, <2>3, <2>4, <2>5, <2>6 DEF SerialAt, Lesser
<1>10. flying # {}
  OBVIOUS
<1> QED BY <1>8, <1>9, <1>10 DEF SerialAt, Idle, Then

(* A torn block holds no state, so the newest whole one is as it was.       *)
LEMMA SerialTear ==
    ASSUME Common, fmt \in Serial, NEW c \in Copies, SerialAt(c), NEW w \in flying, Tear(w), shown' = shown
    PROVE  SerialAt(c)'
<1>1. Parts = {"block"} /\ \A d, x : All(d, x) = {Put(d, "block", x)}
  BY OneBlock
<1>2. /\ fmt' = fmt /\ current' = current /\ safe' = safe /\ steps' = steps /\ flying' = flying
      /\ ~AtOnce(w)
  BY DEF Tear
<1>3. /\ Copies' = Copies /\ Second' = Second /\ \A d : All(d, current)' = All(d, current)
      /\ fmt' \in Twice <=> fmt \in Twice
  BY <1>2, SameFormat
<1>4. PICK s : s \in Nat /\ medium' = Written(w, [id |-> 0, stamp |-> s, whole |-> FALSE])
  BY SerialFlies, TearKeeps
<1>5. PICK o \in Copies \ {c} : flying = All(o, current) /\ (fmt = "APFS" => o # Zero)
  <2>1. flying # {}
    OBVIOUS
  <2>2. PICK o \in Copies \ {c} : flying = All(o, current) 
    BY <2>1 DEF SerialAt, Idle, Then
  <2>3. fmt = "APFS" => o # Zero
    BY <1>1, <1>2, <2>2 DEF AtOnce, Put
  <2> QED BY <2>2, <2>3
<1> PICK y : y = [id |-> 0, stamp |-> s, whole |-> FALSE]
  OBVIOUS
<1>6. ~y.whole /\ \A d \in Copies : Held(d)' = IF d = o THEN y ELSE Held(d)
  <2>1. w = Put(o, "block", current)
    BY <1>1, <1>5
  <2>2. ~y.whole
    OBVIOUS
  <2> QED BY <1>1, <1>2, <1>4, <2>1, <2>2, BlockWritten
<1>7. /\ Held(c).whole /\ Known(Held(c))
      /\ \A d \in Copies : Held(d).whole => Held(d) = Held(c) \/ Lesser(Held(d), Held(c))
      /\ fmt = "APFS" => c # Zero /\ Held(Zero).whole
      /\ fmt # "LUKS2" => \A d \in Copies \ {Zero, c} : Held(d) # Held(c)
  BY DEF SerialAt
<1>8. /\ Held(c)' = Held(c) /\ Held(c).whole' /\ Known(Held(c))'
      /\ (\A d \in Copies : Held(d).whole => Held(d) = Held(c) \/ Lesser(Held(d), Held(c)))'
      /\ (fmt = "APFS" => c # Zero /\ Held(Zero).whole)'
      /\ (fmt # "LUKS2" => \A d \in Copies \ {Zero, c} : Held(d) # Held(c))'
  <2>1. Held(c)' = Held(c)
    BY <1>6
  <2>2. (\A d \in Copies : Held(d).whole => Held(d) = Held(c) \/ Lesser(Held(d), Held(c)))'
    BY <1>3, <1>6, <1>7, <2>1 DEF Lesser
  <2>3. (fmt = "APFS" => c # Zero /\ Held(Zero).whole)'
    BY <1>2, <1>5, <1>6, <1>7, SerialCopies
  <2>4. (fmt # "LUKS2" => \A d \in Copies \ {Zero, c} : Held(d) # Held(c))'
    BY <1>2, <1>3, <1>6, <1>7
  <2> QED BY <1>2, <1>7, <2>1, <2>2, <2>3, <2>4 DEF Known
<1>9. CASE \E d \in Copies \ {Zero, c} :
             /\ flying = All(d, current) /\ Lesser(Held(c), current)
             /\ fmt = "LUKS2" => d = 1
             /\ steps = IF fmt \in Twice THEN <<All(Second, current)>> ELSE <<>>
  <2>1. (\E d \in Copies \ {Zero, c} :
             /\ flying = All(d, current) /\ Lesser(Held(c), current)
             /\ fmt = "LUKS2" => d = 1
             /\ steps = IF fmt \in Twice THEN <<All(Second, current)>> ELSE <<>>)'
    BY <1>2, <1>3, <1>8, <1>9 DEF Lesser
  <2> QED BY <1>8, <2>1 DEF SerialAt
<1>10. CASE \E d \in Copies \ {c} :
             /\ Then(All(d, current), <<>>) /\ current = Held(c) /\ fmt \in Twice
             /\ fmt = "APFS" => d = Zero
  <2>1. (\E d \in Copies \ {c} :
             /\ Then(All(d, current), <<>>) /\ current = Held(c) /\ fmt \in Twice
             /\ fmt = "APFS" => d = Zero)'
    BY <1>2, <1>3, <1>8, <1>10 DEF Then
  <2> QED BY <1>8, <2>1 DEF SerialAt
<1>11. flying # {}
  OBVIOUS
<1> QED BY <1>9, <1>10, <1>11 DEF SerialAt, Idle, Then

(* The second copy is begun when the first holds the state.                 *)
LEMMA SerialFlush ==
    ASSUME Common, fmt \in Serial, NEW c \in Copies, SerialAt(c), Flush, shown' = shown
    PROVE  SerialAt(c)'
<1>1. /\ current' = current /\ fmt' = fmt /\ safe' = safe /\ Copies' = Copies
      /\ flying = {} /\ steps # <<>> /\ flying' = Head(steps) /\ steps' = Tail(steps)
      /\ \A d : Held(d)' = Held(d)
  BY FlushKeeps DEF Held
<1>2. /\ Copies' = Copies /\ Second' = Second /\ (fmt' \in Twice <=> fmt \in Twice)
      /\ \A d : All(d, current)' = All(d, current) /\ All(d, current) # {}
  BY <1>1, SameFormat, OneBlock
<1>3. Then({}, <<All(Second, current)>>) /\ current = Held(c) /\ fmt \in Twice /\ c # Second
  BY <1>1, <1>2 DEF SerialAt, Idle, Then
<1>4. Second \in Copies \ {c} /\ (fmt = "APFS" => Second = Zero)
  BY <1>3, SerialCopies
<1>5. flying' = All(Second, current) /\ steps' = <<>>
  BY <1>1, <1>3, StartOf DEF Then
<1>6. (\E o \in Copies \ {c} :
             /\ Then(All(o, current), <<>>) /\ current = Held(c) /\ fmt \in Twice
             /\ fmt = "APFS" => o = Zero)'
  BY <1>1, <1>2, <1>3, <1>4, <1>5 DEF Then
<1>7. /\ (\A d \in Copies : Held(d).whole => Held(d) = Held(c) \/ Lesser(Held(d), Held(c)))'
      /\ (fmt = "APFS" => c # Zero /\ Held(Zero).whole)'
      /\ (fmt # "LUKS2" => \A d \in Copies \ {Zero, c} : Held(d) # Held(c))'
      /\ (Held(c).whole /\ Known(Held(c)))'
  BY <1>1 DEF SerialAt, Lesser, Known
<1> QED BY <1>6, <1>7 DEF SerialAt

(* What becomes safe is what the newest copy holds.                         *)
LEMMA SerialFinish ==
    ASSUME Common, fmt \in Serial, NEW c \in Copies, SerialAt(c), Finish, shown' = shown
    PROVE  SerialAt(c)'
<1>1. /\ current' = current /\ fmt' = fmt /\ safe' = current.id /\ Copies' = Copies /\ Idle /\ Idle'
      /\ \A d : Held(d)' = Held(d)
  BY FinishKeeps DEF Held
<1>2. \A d : All(d, current) # {}
  BY OneBlock
<1>3. current = Held(c) /\ (fmt = "LUKS2" => \A d \in Copies : Held(d) = current)
  BY <1>1, <1>2 DEF SerialAt, Idle, Then
<1>4. Known(Held(c))'
  BY <1>1, <1>3 DEF SerialAt, Known, Common
<1>5. /\ (\A d \in Copies : Held(d).whole => Held(d) = Held(c) \/ Lesser(Held(d), Held(c)))'
      /\ (fmt = "APFS" => c # Zero /\ Held(Zero).whole)'
      /\ (fmt # "LUKS2" => \A d \in Copies \ {Zero, c} : Held(d) # Held(c))'
      /\ Held(c).whole' /\ current' = Held(c)' /\ (fmt' = "LUKS2" => \A d \in Copies : Held(d)' = current')
  BY <1>1, <1>3 DEF SerialAt, Lesser
<1> QED BY <1>1, <1>4, <1>5 DEF SerialAt

(* A writer that starts again finds the newest whole copy.                  *)
LEMMA SerialFound ==
    ASSUME Common, fmt \in Serial, NEW c \in Copies, SerialAt(c)
    PROVE  Found = Held(c) /\ Finds
<1>1. Held(c).whole /\ \A d \in Copies : Held(d).whole => Held(d) = Held(c) \/ Held(d).stamp < Held(c).stamp
  BY DEF SerialAt, Lesser
<1> QED BY <1>1, FoundNewest

(* It goes on from there, and LUKS2's makes the other copy anew.            *)
LEMMA SerialCrash ==
    ASSUME Common, fmt \in Serial, NEW c \in Copies, SerialAt(c), Crash, shown' = shown
    PROVE  SerialAt(c)'
<1> PICK x : x = Held(c)
  OBVIOUS
<1>1. /\ current' = x /\ fmt' = fmt /\ safe' = safe /\ Copies' = Copies /\ Start(Mending(x))
      /\ \A d : Held(d)' = Held(d)
  BY CrashKeeps, SerialFound DEF Held
<1>2. /\ Copies' = Copies /\ (fmt' \in Twice <=> fmt \in Twice)
      /\ \A d : All(d, current)' = All(d, x)
  BY <1>1, SameFormat
<1>3. /\ (\A d \in Copies : Held(d).whole => Held(d) = Held(c) \/ Lesser(Held(d), Held(c)))'
      /\ (fmt = "APFS" => c # Zero /\ Held(Zero).whole)'
      /\ (fmt # "LUKS2" => \A d \in Copies \ {Zero, c} : Held(d) # Held(c))'
      /\ (Held(c).whole /\ Known(Held(c)))'
  BY <1>1 DEF SerialAt, Lesser, Known
<1> PICK stale : stale = {d \in Copies : Content(d) # x}
  OBVIOUS
<1>4. CASE fmt # "LUKS2" \/ stale = {}
  <2>1. Mending(x) = <<>>
    BY <1>4, SerialCopies DEF Mending, Mirrored
  <2>2. Idle'
    BY <1>1, <2>1 DEF Start, Idle
  <2>3. fmt = "LUKS2" => \A d \in Copies : Held(d) = x
    BY <1>4, OneBlock, PartIs DEF SerialAt
  <2> QED BY <1>1, <1>3, <2>2, <2>3 DEF SerialAt
<1>5. CASE fmt = "LUKS2" /\ stale # {}
  <2>1. Mending(x) = <<UNION {All(d, x) : d \in stale}>>
    BY <1>5 DEF Mending, Mirrored
  <2>2. PICK o : stale = {o} /\ o \in Copies \ {c}
    <3>1. Content(c) = x
      BY OneBlock DEF SerialAt
    <3>2. Copies = {1, 2}
      BY <1>5, SerialCopies
    <3>3. stale \subseteq {1, 2} \ {c}
      BY <3>1, <3>2
    <3> QED BY <1>5, <3>2, <3>3
  <2>3. UNION {All(d, x) : d \in stale} = All(o, x)
    BY <2>2
  <2>4. flying' = All(o, x) /\ steps' = <<>>
    BY <1>1, <2>1, <2>3, StartOf DEF Start
  <2>5. (\E d \in Copies \ {c} :
             /\ Then(All(d, current), <<>>) /\ current = Held(c) /\ fmt \in Twice
             /\ fmt = "APFS" => d = Zero)'
    BY <1>1, <1>2, <1>5, <2>2, <2>4 DEF Then, Twice
  <2> QED BY <1>3, <2>5 DEF SerialAt
<1> QED BY <1>4, <1>5

(* The reader takes the newest.                                             *)
LEMMA SerialReads ==
    ASSUME Common, fmt \in Serial, NEW c \in Copies, SerialAt(c)
    PROVE  Used # {} /\ State(Used) = Held(c).id
<1>1. Parts = {"block"} /\ "block" \in Parts
  BY OneBlock
<1>2. \A d \in Copies : Held(d).stamp \in Nat
  BY <1>1, AtIs DEF Held
<1>3. /\ Held(c).whole /\ \A d \in Copies : Held(d).whole => Held(d) = Held(c) \/ Held(d).stamp < Held(c).stamp
      /\ fmt = "APFS" => c # Zero /\ Held(Zero).whole
  BY DEF SerialAt, Lesser
<1>4. Good \subseteq Copies /\ \A d \in Copies : d \in Good <=> Held(d).whole
  BY DEF Good, Held
<1>5. CASE fmt # "APFS"
  <2>1. Used = GreatestOf(Good, "block")
    BY <1>5, SerialCopies DEF Used, ReadQnx6, ReadRefs, ReadLuks2
  <2>2. c \in Good /\ \A d \in Good : At(d, "block") = Held(c) \/ At(d, "block").stamp < Held(c).stamp
    BY <1>3, <1>4 DEF Held
  <2> QED BY <1>1, <1>4, <2>1, <2>2, GreatestState DEF Held
<1>6. CASE fmt = "APFS"
  <2> PICK newer : newer = {d \in Good \ {Zero} : Held(d).stamp > Held(Zero).stamp}
    OBVIOUS
  <2>1. Used = IF newer = {} THEN {<<Zero, "block">>} ELSE GreatestOf(newer, "block")
    BY <1>6 DEF Used, ReadApfs, Held
  <2>2. Zero \in Copies
    BY <1>6, SerialCopies
  <2>3. CASE Held(Zero) = Held(c)
    <3>1. newer = {}
      BY <1>2, <1>3, <1>4, <2>3
    <3> QED BY <2>1, <2>3, <3>1, StateIs DEF Held, At
  <2>4. CASE Held(Zero).stamp < Held(c).stamp
    <3>1. c \in newer /\ newer \subseteq Copies
      BY <1>2, <1>3, <1>4, <1>6, <2>2, <2>4
    <3>2. \A d \in newer : At(d, "block") = Held(c) \/ At(d, "block").stamp < Held(c).stamp
      BY <1>3, <1>4 DEF Held
    <3> QED BY <1>1, <2>1, <3>1, <3>2, GreatestState DEF Held
  <2> QED BY <1>3, <1>6, <2>2, <2>3, <2>4
<1> QED BY <1>5, <1>6

(* What opening a copy leaves as it is, which is all but what was shown.    *)
LEMMA OpenLeaves ==
    ASSUME UNCHANGED writer
    PROVE  /\ fmt' = fmt /\ Copies' = Copies /\ Parts' = Parts /\ Second' = Second
           /\ flying' = flying /\ steps' = steps /\ current' = current /\ safe' = safe
           /\ \A c, p : At(c, p)' = At(c, p) /\ Held(c)' = Held(c)
           /\ \A c, x : All(c, x)' = All(c, x) /\ Erase(c)' = Erase(c)
           /\ \A c : All(c, current)' = All(c, current)
           /\ Idle' = Idle /\ \A x, y : Lesser(x, y)' = Lesser(x, y)
           /\ \A x, y : Then(x, y)' = Then(x, y)
<1>1. /\ fmt' = fmt /\ flying' = flying /\ steps' = steps /\ current' = current /\ safe' = safe
      /\ medium' = medium
  BY DEF writer
<1>2. /\ Copies' = Copies /\ Parts' = Parts /\ Second' = Second
      /\ \A c, x : All(c, x)' = All(c, x) /\ Erase(c)' = Erase(c)
      /\ \A c : All(c, current)' = All(c, current)
  BY <1>1, SameFormat
<1>3. \A c, p : At(c, p)' = At(c, p) /\ \A d : Held(d)' = Held(d)
  BY <1>1 DEF At, Held
<1>4. Idle' = Idle /\ (\A x, y : Lesser(x, y)' = Lesser(x, y)) /\ \A x, y : Then(x, y)' = Then(x, y)
  BY <1>1 DEF Idle, Lesser, Then
<1> QED BY <1>1, <1>2, <1>3, <1>4

(* What was shown may be shown again, as nothing older is read.             *)
LEMMA SerialOpen ==
    ASSUME Common, fmt \in Serial, NEW c \in Copies, SerialAt(c), UNCHANGED writer,
           shown' \in {shown, State(Used)}
    PROVE  SerialAt(c)'
<1>1. shown' <= Held(c).id /\ Held(c).id \in Nat
  <2>1. Held(c).id \in Nat /\ shown <= Held(c).id
    BY OneBlock, AtIs DEF SerialAt, Known, Held
  <2> QED BY <2>1, SerialReads
<1>2. /\ Held(c)' = Held(c) /\ Copies' = Copies /\ fmt' = fmt /\ current' = current
      /\ safe' = safe /\ (fmt' \in Twice <=> fmt \in Twice)
      /\ flying' = flying /\ steps' = steps /\ Second' = Second
      /\ \A d : Held(d)' = Held(d) /\ All(d, current)' = All(d, current)
  BY OpenLeaves
<1>3. (Held(c).whole /\ Known(Held(c)))'
  BY <1>1, <1>2 DEF SerialAt, Known
<1>4. /\ (\A d \in Copies : Held(d).whole => Held(d) = Held(c) \/ Lesser(Held(d), Held(c)))'
      /\ (fmt = "APFS" => c # Zero /\ Held(Zero).whole)'
      /\ (fmt # "LUKS2" => \A d \in Copies \ {Zero, c} : Held(d) # Held(c))'
  BY <1>2 DEF SerialAt, Lesser
<1>5. CASE /\ Idle /\ current = Held(c)
           /\ fmt = "LUKS2" => \A d \in Copies : Held(d) = current
  <2>1. (/\ Idle /\ current = Held(c)
         /\ fmt = "LUKS2" => \A d \in Copies : Held(d) = current)'
    BY <1>2, <1>5 DEF Idle
  <2> QED BY <1>3, <1>4, <2>1 DEF SerialAt
<1>6. CASE \E d \in Copies \ {Zero, c} :
             /\ flying = All(d, current) /\ Lesser(Held(c), current)
             /\ fmt = "LUKS2" => d = 1
             /\ steps = IF fmt \in Twice THEN <<All(Second, current)>> ELSE <<>>
  <2>1. (\E d \in Copies \ {Zero, c} :
             /\ flying = All(d, current) /\ Lesser(Held(c), current)
             /\ fmt = "LUKS2" => d = 1
             /\ steps = IF fmt \in Twice THEN <<All(Second, current)>> ELSE <<>>)'
    BY <1>2, <1>6 DEF Lesser
  <2> QED BY <1>3, <1>4, <2>1 DEF SerialAt
<1>7. CASE Then({}, <<All(Second, current)>>) /\ current = Held(c) /\ fmt \in Twice /\ c # Second
  <2>1. (Then({}, <<All(Second, current)>>) /\ current = Held(c) /\ fmt \in Twice /\ c # Second)'
    BY <1>2, <1>7 DEF Then
  <2> QED BY <1>3, <1>4, <2>1 DEF SerialAt
<1>8. CASE \E d \in Copies \ {c} :
             /\ Then(All(d, current), <<>>) /\ current = Held(c) /\ fmt \in Twice
             /\ fmt = "APFS" => d = Zero
  <2>1. (\E d \in Copies \ {c} :
             /\ Then(All(d, current), <<>>) /\ current = Held(c) /\ fmt \in Twice
             /\ fmt = "APFS" => d = Zero)'
    BY <1>2, <1>8 DEF Then
  <2> QED BY <1>3, <1>4, <2>1 DEF SerialAt
<1> QED BY <1>5, <1>6, <1>7, <1>8 DEF SerialAt

(* A reader is shown a state that is not older than it should be.           *)
Shows == Used # {} /\ State(Used) \in Nat /\ safe <= State(Used) /\ shown <= State(Used) /\ State(Used) <= issued

(* One step of a writer, or of a reader or of neither.                      *)
WriterStep == WriterNext /\ shown' = shown
ReaderStep == UNCHANGED writer /\ shown' \in {shown, State(Used)}

(* The reader is shown the newest copy that is whole, which writers find    *)
(* too.                                                                     *)
LEMMA SerialShows ==
    ASSUME Common, SerialInv, fmt \in Serial
    PROVE  Shows /\ Flies /\ Finds
<1>1. PICK c \in Copies : SerialAt(c)
  BY DEF SerialInv
<1>2. Used # {} /\ State(Used) = Held(c).id
  BY <1>1, SerialReads
<1>3. Held(c).id \in Nat /\ Held(c).id <= issued /\ Known(Held(c))
  BY <1>1, OneBlock, AtIs DEF SerialAt, Held, Common
<1> QED BY <1>1, <1>2, <1>3, SerialFlies, SerialFound DEF Shows, Known

(* Every step keeps one copy the newest that is whole.                      *)
LEMMA SerialStep ==
    ASSUME Common, SerialInv, fmt \in Serial, WriterStep \/ ReaderStep
    PROVE  SerialInv'
<1>1. PICK c \in Copies : SerialAt(c)
  BY DEF SerialInv
<1>2. fmt' = fmt /\ Copies' = Copies
  <2>1. fmt' = fmt
    BY DEF WriterStep, WriterNext, ReaderStep, writer, Begin, Flush, Finish, Crash, Land, Tear
  <2> QED BY <2>1, SameFormat
<1>3. \E d \in Copies : SerialAt(d)'
  <2>1. CASE WriterStep /\ Begin
    BY <1>1, <2>1, SerialBegin DEF WriterStep
  <2>2. CASE WriterStep /\ Flush
    BY <1>1, <2>2, SerialFlush DEF WriterStep
  <2>3. CASE WriterStep /\ Finish
    BY <1>1, <2>3, SerialFinish DEF WriterStep
  <2>4. CASE WriterStep /\ Crash
    BY <1>1, <2>4, SerialCrash DEF WriterStep
  <2>5. CASE WriterStep /\ \E w \in flying : Land(w)
    BY <1>1, <2>5, SerialLand DEF WriterStep
  <2>6. CASE WriterStep /\ \E w \in flying : Tear(w)
    BY <1>1, <2>6, SerialTear DEF WriterStep
  <2>7. CASE ReaderStep
    BY <1>1, <2>7, SerialOpen DEF ReaderStep
  <2> QED BY <2>1, <2>2, <2>3, <2>4, <2>5, <2>6, <2>7 DEF WriterStep, WriterNext
<1> QED BY <1>2, <1>3 DEF SerialInv

-----------------------------------------------------------------------------
(* Btrfs.                                                                   *)

(* The copies of Btrfs, and when it has none to write.                      *)
LEMMA BtrfsIs ==
    ASSUME Common, fmt = "Btrfs", NEW T \in SUBSET Copies, BtrfsAt(T)
    PROVE  /\ Copies = {1, 2, 3} /\ Parts = {"block"} /\ Zero \notin Copies
           /\ flying = {Put(c, "block", current) : c \in T} /\ steps = <<>>
           /\ flying = {} => T = {}
           /\ Known(current) /\ current \in Part /\ current.whole /\ Flies
           /\ \A c \in Copies : Held(c) \in Part /\ Held(c).stamp \in Nat /\ Held(c).id \in Nat
           /\ \A c \in Copies : Held(c).whole => Held(c).stamp > 0 /\ Held(c).id <= issued
           /\ current.id \in Nat /\ current.id <= issued /\ {safe, shown} \subseteq Nat
<1>1. 1..3 = {1, 2, 3}
  OBVIOUS
<1>2. Copies = {1, 2, 3} /\ Parts = {"block"} /\ Zero \notin Copies
  BY <1>1 DEF Copies, Parts, Zero
<1>3. flying = {Put(c, "block", current) : c \in T} /\ steps = <<>>
  <2>1. UNION {All(c, current) : c \in T} = {Put(c, "block", current) : c \in T}
    BY OneBlock
  <2> QED BY <2>1 DEF BtrfsAt, Then
<1>4. \A c \in Copies : Held(c) \in Part /\ Held(c).stamp \in Nat /\ Held(c).id \in Nat
                        /\ (Held(c).whole => Held(c).stamp > 0 /\ Held(c).id <= issued)
  <2> TAKE c \in Copies
  <2>1. "block" \in Parts
    BY <1>2
  <2> QED BY <2>1, AtIs DEF Held, Common
<1>5. current \in Part /\ current.whole /\ current.id \in Nat /\ current.id <= issued /\ {safe, shown} \subseteq Nat
  BY DEF Common
<1>6. Known(current)
  <2>1. CASE 1 \notin T
    BY <2>1 DEF BtrfsAt
  <2>2. ASSUME NEW c \in T, Held(c).whole, Known(Held(c)), 1 \in T
        PROVE  Known(current)
    <3>1. Lesser(Held(c), current)
      BY <2>2 DEF BtrfsAt
    <3> QED BY <1>4, <1>5, <2>2, <3>1 DEF Known, Lesser
  <2>3. CASE 1 \in T /\ ~Held(1).whole /\ T = Copies
    <3>1. Held(2).whole /\ Known(Held(2)) /\ 2 \in T
      BY <1>2, <2>3 DEF BtrfsAt
    <3> QED BY <2>2, <2>3, <3>1
  <2>4. CASE 1 \in T /\ Held(1).whole
    BY <2>2, <2>4 DEF BtrfsAt
  <2> QED BY <2>1, <2>3, <2>4 DEF BtrfsAt
<1>7. Flies
  BY <1>2, <1>3 DEF Flies, Put
<1> QED BY <1>2, <1>3, <1>4, <1>5, <1>6, <1>7

(* The writing of all copies is begun.                                      *)
LEMMA BtrfsBegin ==
    ASSUME Common, fmt = "Btrfs", NEW T \in SUBSET Copies, BtrfsAt(T), Begin, shown' = shown
    PROVE  \E S \in SUBSET Copies : BtrfsAt(S)'
<1> PICK K : K = Copies
  OBVIOUS
<1> PICK x : x = current'
  OBVIOUS
<1>1. /\ fmt' = fmt /\ safe' = safe /\ Start(Plan(x)) /\ Copies' = Copies /\ flying = {}
      /\ Lesser(current, x) /\ \A d : Held(d)' = Held(d)
  BY BeginKeeps DEF Held
<1>2. T = {} /\ Copies = {1, 2, 3} /\ Known(current) /\ current.whole
  BY <1>1, BtrfsIs
<1>3. \A c \in Copies : Held(c) = current
  BY <1>2 DEF BtrfsAt
<1>4. Plan(x) = <<UNION {All(c, x) : c \in Copies}>>
  BY DEF Plan
<1>5. flying' = UNION {All(c, x) : c \in Copies} /\ steps' = <<>>
  BY <1>1, <1>4, StartOf DEF Start
<1>6. \A c : All(c, current)' = All(c, x)
  BY <1>1, SameFormat
<1>7. Then(UNION {All(c, current) : c \in K}, <<>>)'
  BY <1>1, <1>5, <1>6 DEF Then
<1>8. Known(Held(1))' /\ 1 \in Copies
  BY <1>1, <1>2, <1>3 DEF Known
<1>9. (\A c \in Copies : IF Held(c).whole THEN Lesser(Held(c), current) ELSE Held(c).stamp > 0)'
  BY <1>1, <1>2, <1>3 DEF Lesser
<1>10. \A c \in K : Held(c)' = current /\ Held(c).whole'
  BY <1>1, <1>2, <1>3
<1>11. K = Copies' /\ 1 \in K
  BY <1>1, <1>2
<1>12. (\A c \in K : IF Held(c).whole THEN Lesser(Held(c), current) ELSE Held(c).stamp > 0)'
  BY <1>9, <1>11
<1>13. BtrfsAt(K)'
  BY <1>7, <1>8, <1>10, <1>11, <1>12 DEF BtrfsAt
<1> QED BY <1>13

(* A copy is written: the primary, or another one while it is old or torn.  *)
LEMMA BtrfsLand ==
    ASSUME Common, fmt = "Btrfs", NEW T \in SUBSET Copies, BtrfsAt(T), NEW w \in flying, Land(w), shown' = shown
    PROVE  \E S \in SUBSET Copies : BtrfsAt(S)'
<1>1. /\ Copies = {1, 2, 3} /\ Parts = {"block"} /\ flying = {Put(c, "block", current) : c \in T}
      /\ steps = <<>> /\ Known(current)
  BY BtrfsIs
<1>2. PICK o \in T : w = Put(o, "block", current)
  BY <1>1
<1>3. /\ fmt' = fmt /\ current' = current /\ safe' = safe /\ steps' = steps
      /\ medium' = Written(w, w.part) /\ flying' = flying \ {w}
  BY DEF Land
<1>4. /\ Copies' = Copies /\ \A d : All(d, current)' = All(d, current)
  BY <1>3, SameFormat
<1>5. \A d \in Copies : Held(d)' = IF d = o THEN current ELSE Held(d)
  <2>1. w.part = current
    BY <1>2 DEF Put
  <2> QED BY <1>1, <1>2, <1>3, <2>1, BlockWritten
<1> PICK S : S = T \ {o}
  OBVIOUS
<1>6. Then(UNION {All(c, current) : c \in S}, <<>>)'
  <2>1. \A c, d : Put(c, "block", current) = Put(d, "block", current) => c = d
    BY PutOne
  <2>2. flying' = {Put(c, "block", current) : c \in S}
    BY <1>1, <1>2, <1>3, <2>1
  <2>3. UNION {All(c, current) : c \in S} = {Put(c, "block", current) : c \in S}
    BY OneBlock
  <2> QED BY <1>1, <1>3, <1>4, <2>2, <2>3 DEF Then
<1>7. (\A c \in Copies \ S : Held(c) = current)'
  BY <1>3, <1>4, <1>5 DEF BtrfsAt
<1>8. Known(current)'
  BY <1>1, <1>3 DEF Known
<1>9. ASSUME 1 \in S
      PROVE  (/\ \A c, d \in S : Held(c).whole /\ Held(d).whole => Held(c) = Held(d)
              /\ \A c, d \in S : ~Held(c).whole /\ ~Held(d).whole => c = d
              /\ \A c \in S : IF Held(c).whole THEN Lesser(Held(c), current) ELSE Held(c).stamp > 0
              /\ IF Held(1).whole THEN Known(Held(1))
                 ELSE IF S = Copies THEN Known(Held(2)) ELSE Known(current))'
  <2>1. S \subseteq T /\ S # Copies /\ 1 \in T /\ \A c \in S : Held(c)' = Held(c)
    BY <1>5, <1>9
  <2>2. (/\ \A c, d \in S : Held(c).whole /\ Held(d).whole => Held(c) = Held(d)
         /\ \A c, d \in S : ~Held(c).whole /\ ~Held(d).whole => c = d
         /\ \A c \in S : IF Held(c).whole THEN Lesser(Held(c), current) ELSE Held(c).stamp > 0)'
    BY <1>3, <2>1 DEF BtrfsAt, Lesser
  <2>3. (IF Held(1).whole THEN Known(Held(1))
         ELSE IF S = Copies THEN Known(Held(2)) ELSE Known(current))'
    BY <1>3, <1>4, <1>8, <1>9, <2>1 DEF BtrfsAt, Known
  <2> QED BY <2>2, <2>3
<1>10. BtrfsAt(S)'
  BY <1>6, <1>7, <1>8, <1>9 DEF BtrfsAt
<1> QED BY <1>4, <1>10

(* One block is torn at a time: if the primary is, the others tell.         *)
LEMMA BtrfsTear ==
    ASSUME Common, fmt = "Btrfs", NEW T \in SUBSET Copies, BtrfsAt(T), NEW w \in flying, Tear(w), shown' = shown
    PROVE  BtrfsAt(T)'
<1>1. /\ Copies = {1, 2, 3} /\ Parts = {"block"} /\ flying = {Put(c, "block", current) : c \in T}
      /\ steps = <<>> /\ Known(current) /\ Flies
      /\ \A c \in Copies : Held(c).stamp \in Nat /\ (Held(c).whole => Held(c).stamp > 0)
  BY BtrfsIs
<1>2. PICK o \in T : w = Put(o, "block", current)
  BY <1>1
<1>3. /\ fmt' = fmt /\ current' = current /\ safe' = safe /\ steps' = steps /\ flying' = flying
  BY DEF Tear
<1>4. /\ Copies' = Copies /\ \A d : All(d, current)' = All(d, current)
  BY <1>3, SameFormat
<1>5. PICK s \in {medium[at].stamp : at \in w.at} \cup {w.part.stamp} :
         s \in Nat /\ medium' = Written(w, [id |-> 0, stamp |-> s, whole |-> FALSE])
  BY <1>1, TearKeeps
<1>6. s = Held(o).stamp \/ s = current.stamp
  BY <1>2, <1>5 DEF Put, Held, At
<1> PICK y : y = [id |-> 0, stamp |-> s, whole |-> FALSE]
  OBVIOUS
<1>7. ~y.whole /\ y.stamp = s /\ \A d \in Copies : Held(d)' = IF d = o THEN y ELSE Held(d)
  BY <1>1, <1>2, <1>3, <1>5, BlockWritten
<1>8. ASSUME NEW c \in T, c # o, 1 \in T
      PROVE  Held(c).whole
  <2>1. Put(c, "block", current) \in flying \ {w} /\ <<c, "block">> \in Put(c, "block", current).at
    <3>1. Put(c, "block", current).at = {<<c, "block">>} /\ w.at = {<<o, "block">>}
      BY <1>2 DEF Put
    <3> QED BY <1>1, <1>8, <3>1
  <2>2. ~Torn(<<c, "block">>)
    BY <2>1 DEF Tear
  <2>3. Held(c).id # 0 \/ Held(c) = Blank
    BY <2>2 DEF Torn, Held, At
  <2>4. ~Held(c).whole => Held(c).id = 0 /\ Held(c).stamp > 0
    <3>1. ~Held(c).whole => Held(c).stamp > 0
      BY <1>8 DEF BtrfsAt
    <3>2. ~Held(c).whole => Held(c).id = 0
      BY <1>1, AtIs DEF Held
    <3> QED BY <3>1, <3>2
  <2> QED BY <2>3, <2>4, PartIs
<1>9. Then(UNION {All(c, current) : c \in T}, <<>>)'
  <2>1. flying' = UNION {All(c, current) : c \in T} /\ steps' = <<>>
    BY <1>3 DEF BtrfsAt, Then
  <2> QED BY <1>4, <2>1 DEF Then
<1>10. (\A c \in Copies \ T : Held(c) = current)'
  BY <1>3, <1>4, <1>7 DEF BtrfsAt
<1>11. Known(current)'
  BY <1>1, <1>3 DEF Known
<1>12. ASSUME 1 \in T
       PROVE  (/\ \A c, d \in T : Held(c).whole /\ Held(d).whole => Held(c) = Held(d)
               /\ \A c, d \in T : ~Held(c).whole /\ ~Held(d).whole => c = d
               /\ \A c \in T : IF Held(c).whole THEN Lesser(Held(c), current) ELSE Held(c).stamp > 0
               /\ IF Held(1).whole THEN Known(Held(1))
                  ELSE IF T = Copies THEN Known(Held(2)) ELSE Known(current))'
  <2>1. \A c \in T : c = o \/ (Held(c).whole /\ Held(c)' = Held(c))
    BY <1>7, <1>8, <1>12
  <2>2. Held(o)' = y /\ ~y.whole
    BY <1>7
  <2>3. \A c, d \in T : Held(c)'.whole /\ Held(d)'.whole => Held(c)' = Held(d)'
    BY <1>12, <2>1, <2>2 DEF BtrfsAt
  <2>4. \A c, d \in T : ~Held(c)'.whole /\ ~Held(d)'.whole => c = d
    BY <2>1, <2>2
  <2>5. s > 0
    <3>1. Held(o).stamp > 0
      BY <1>1, <1>12 DEF BtrfsAt
    <3> QED BY <1>6, <3>1 DEF Common
  <2>6. \A c \in T : IF Held(c)'.whole THEN Lesser(Held(c)', current) ELSE Held(c)'.stamp > 0
    BY <1>7, <1>12, <2>1, <2>2, <2>5 DEF BtrfsAt
  <2>7. (IF Held(1).whole THEN Known(Held(1))
         ELSE IF T = Copies THEN Known(Held(2)) ELSE Known(current))'
    <3>1. CASE o # 1
      <4>1. Held(1)' = Held(1) /\ Held(1).whole
        BY <1>12, <2>1, <3>1
      <4> QED BY <1>3, <1>12, <4>1 DEF BtrfsAt, Known
    <3>2. CASE o = 1 /\ T # Copies
      BY <1>4, <1>11, <2>2, <3>2
    <3>3. CASE o = 1 /\ T = Copies
      <4>1. Held(2)' = Held(2) /\ Held(2).whole /\ 2 \in T
        BY <1>1, <2>1, <3>3
      <4>2. Known(Held(2))
        BY <1>12, <3>3, <4>1 DEF BtrfsAt
      <4>3. Known(Held(2))'
        BY <1>3, <4>1, <4>2 DEF Known
      <4> QED BY <1>4, <2>2, <3>3, <4>3
    <3> QED BY <3>1, <3>2, <3>3
  <2> QED BY <1>3, <2>3, <2>4, <2>6, <2>7 DEF Lesser
<1> QED BY <1>9, <1>10, <1>11, <1>12 DEF BtrfsAt

(* When all copies are written the state is safe.                           *)
LEMMA BtrfsFinish ==
    ASSUME Common, fmt = "Btrfs", NEW T \in SUBSET Copies, BtrfsAt(T), Finish, shown' = shown
    PROVE  BtrfsAt(T)'
<1>1. /\ current' = current /\ fmt' = fmt /\ safe' = current.id /\ Copies' = Copies /\ Idle /\ Idle'
      /\ \A d : Held(d)' = Held(d)
  BY FinishKeeps DEF Held
<1>2. T = {} /\ Known(current) /\ current.id \in Nat
  BY <1>1, BtrfsIs DEF Idle
<1>3. Known(current)'
  BY <1>1, <1>2 DEF Known
<1>4. (\A c \in Copies \ T : Held(c) = current)'
  BY <1>1 DEF BtrfsAt
<1>5. Then(UNION {All(c, current) : c \in T}, <<>>)'
  BY <1>1, <1>2 DEF Then, Idle
<1> QED BY <1>2, <1>3, <1>4, <1>5 DEF BtrfsAt

(* What the writer finds, and what a reader does.                           *)
LEMMA BtrfsFound ==
    ASSUME Common, fmt = "Btrfs", NEW T \in SUBSET Copies, BtrfsAt(T)
    PROVE  /\ 1 \notin T => Found = current /\ Held(1) = current
           /\ 1 \in T /\ Held(1).whole => Found = Held(1)
           /\ 1 \in T /\ ~Held(1).whole /\ T = Copies => Found = Held(2) /\ Held(2).whole /\ Held(3) = Held(2)
           /\ 1 \in T /\ ~Held(1).whole /\ T # Copies => Found = current
           /\ Finds /\ Used # {} /\ State(Used) = Found.id
<1>1. /\ Copies = {1, 2, 3} /\ Parts = {"block"} /\ current.whole
      /\ \A c \in Copies : Held(c).stamp \in Nat
      /\ current.stamp \in Nat
  BY BtrfsIs, PartIs
<1>2. \A c \in Copies : Content(c) = IF Held(c).whole THEN Held(c) ELSE Blank
  BY OneBlock
<1>3. Good = {c \in Copies : Held(c).whole}
  BY DEF Good, Held
<1>4. Used = IF Held(1).whole THEN {<<1, "block">>} ELSE GreatestOf(Good, "block")
  BY <1>1, <1>3 DEF Used, ReadBtrfs
<1>5. 1 \notin T => Held(1) = current
  BY <1>1 DEF BtrfsAt
<1>6. CASE Held(1).whole
  <2>1. Found = Held(1)
    <3>1. Content(1) = Held(1) /\ Content(1) # Blank
      BY <1>1, <1>2, <1>6, PartIs
    <3> QED BY <3>1, FoundFirst
  <2>2. Used # {} /\ State(Used) = Held(1).id
    BY <1>4, <1>6, StateIs DEF Held, At
  <2>3. Finds
    BY <1>1, <1>6, <2>1 DEF Finds, Held
  <2> QED BY <1>5, <1>6, <2>1, <2>2, <2>3
<1>7. ASSUME ~Held(1).whole, NEW c \in {2, 3}, Held(c).whole,
             \A d \in {2, 3} : Held(d).whole => Held(d) = Held(c) \/ Held(d).stamp < Held(c).stamp
      PROVE  Found = Held(c) /\ Finds /\ Used # {} /\ State(Used) = Held(c).id
  <2>1. c \in Copies /\ \A d \in Copies : Held(d).whole => Held(d) = Held(c) \/ Held(d).stamp < Held(c).stamp
    BY <1>1, <1>7
  <2>2. Found = Held(c) /\ Finds
    BY <1>7, <2>1, FoundNewest
  <2>3. c \in Good /\ Good \subseteq Copies /\ \A d \in Good : At(d, "block") = Held(c) \/ At(d, "block").stamp < Held(c).stamp
    BY <1>3, <1>7, <2>1 DEF Held
  <2>4. Used # {} /\ State(Used) = Held(c).id
    <3>1. "block" \in Parts /\ At(c, "block") = Held(c) /\ Used = GreatestOf(Good, "block")
      BY <1>1, <1>4, <1>7 DEF Held
    <3> QED BY <2>3, <3>1, GreatestState
  <2> QED BY <2>2, <2>4
<1>8. CASE ~Held(1).whole
  <2>1. 1 \in T
    BY <1>1, <1>5, <1>8
  <2>2. /\ \A c, d \in T : Held(c).whole /\ Held(d).whole => Held(c) = Held(d)
        /\ \A c \in T : c # 1 => Held(c).whole /\ Lesser(Held(c), current)
        /\ \A c \in Copies \ T : Held(c) = current
    BY <1>8, <2>1 DEF BtrfsAt
  <2>3. CASE T = Copies
    <3>1. Held(2).whole /\ Held(3).whole /\ Held(3) = Held(2)
      BY <1>1, <2>2, <2>3
    <3>2. Found = Held(2) /\ Finds /\ Used # {} /\ State(Used) = Held(2).id
      BY <1>7, <1>8, <3>1
    <3> QED BY <1>8, <2>1, <2>3, <3>1, <3>2
  <2>4. CASE T # Copies
    <3>1. PICK c \in {2, 3} : c \notin T
      BY <1>1, <2>1, <2>4
    <3>2. Held(c) = current
      BY <1>1, <2>2, <3>1
    <3>3. \A d \in {2, 3} : Held(d) = current \/ Held(d).stamp < current.stamp
      BY <1>1, <2>2 DEF Lesser
    <3>4. Found = Held(c) /\ Finds /\ Used # {} /\ State(Used) = Held(c).id
      BY <1>1, <1>7, <1>8, <3>2, <3>3
    <3> QED BY <1>8, <2>1, <2>4, <3>2, <3>4
  <2> QED BY <2>3, <2>4
<1> QED BY <1>6, <1>8

(* The copies that do not hold what is found are written anew.              *)
LEMMA BtrfsCrash ==
    ASSUME Common, fmt = "Btrfs", NEW T \in SUBSET Copies, BtrfsAt(T), Crash, shown' = shown
    PROVE  \E S \in SUBSET Copies : BtrfsAt(S)'
<1> PICK x : x = Found
  OBVIOUS
<1>1. /\ current' = x /\ fmt' = fmt /\ safe' = safe /\ Copies' = Copies /\ Start(Mending(x))
      /\ \A d : Held(d)' = Held(d)
  BY CrashKeeps, BtrfsFound DEF Held
<1>2. \A d : All(d, current)' = All(d, x)
  BY <1>1, SameFormat
<1>3. /\ Copies = {1, 2, 3} /\ Known(current) /\ current.whole
      /\ \A c \in Copies : Held(c).stamp \in Nat /\ Held(c).id \in Nat
      /\ current.stamp \in Nat /\ current.id \in Nat
  BY BtrfsIs, PartIs
<1>4. \A c \in Copies : Content(c) = IF Held(c).whole THEN Held(c) ELSE Blank
  BY OneBlock
<1> PICK S : S = {c \in Copies : Content(c) # x}
  OBVIOUS
<1>5. Then(UNION {All(c, current) : c \in S}, <<>>)'
  <2>1. Mending(x) = IF S # {} THEN <<UNION {All(c, x) : c \in S}>> ELSE <<>>
    BY DEF Mending, Mirrored
  <2>2. flying' = UNION {All(c, x) : c \in S} /\ steps' = <<>>
    <3>1. CASE S # {}
      BY <1>1, <2>1, <3>1, StartOf DEF Start
    <3>2. CASE S = {}
      BY <1>1, <2>1, <3>2 DEF Start
    <3> QED BY <3>1, <3>2
  <2> QED BY <1>1, <1>2, <2>2 DEF Then
<1>6. x.whole
  BY <1>3, BtrfsFound
<1>7. (\A c \in Copies \ S : Held(c) = current)'
  <2>1. \A c \in Copies \ S : Held(c) = x
    BY <1>4, <1>6, PartIs
  <2> QED BY <1>1, <2>1
<1>8. Known(x)
  BY <1>3, BtrfsFound DEF BtrfsAt
<1>9. Known(current)'
  BY <1>1, <1>8 DEF Known
<1>10. ASSUME 1 \in S
       PROVE  (/\ \A c, d \in S : Held(c).whole /\ Held(d).whole => Held(c) = Held(d)
               /\ \A c, d \in S : ~Held(c).whole /\ ~Held(d).whole => c = d
               /\ \A c \in S : IF Held(c).whole THEN Lesser(Held(c), current) ELSE Held(c).stamp > 0
               /\ IF Held(1).whole THEN Known(Held(1))
                  ELSE IF S = Copies THEN Known(Held(2)) ELSE Known(current))'
  <2>1. 1 \in T /\ ~Held(1).whole
    BY <1>3, <1>4, <1>10, BtrfsFound
  <2>2. /\ \A c, d \in T : Held(c).whole /\ Held(d).whole => Held(c) = Held(d)
        /\ \A c, d \in T : ~Held(c).whole /\ ~Held(d).whole => c = d
        /\ \A c \in T : IF Held(c).whole THEN Lesser(Held(c), current) ELSE Held(c).stamp > 0
    BY <2>1 DEF BtrfsAt
  <2>3. S \subseteq T /\ S # Copies /\ \A c \in S : Held(c).whole => Lesser(Held(c), x)
    <3>1. CASE T = Copies
      <4>1. x = Held(2) /\ Held(2).whole /\ Held(3) = Held(2)
        BY <2>1, <3>1, BtrfsFound
      <4>2. S = {1}
        BY <1>3, <1>4, <1>10, <4>1
      <4> QED BY <1>3, <2>1, <4>2
    <3>2. CASE T # Copies
      <4>1. x = current
        BY <2>1, <3>2, BtrfsFound
      <4>2. S \subseteq T
        BY <1>3, <1>4, <4>1 DEF BtrfsAt
      <4> QED BY <2>2, <3>2, <4>1, <4>2
    <3> QED BY <3>1, <3>2
  <2>4. /\ \A c, d \in S : Held(c)'.whole /\ Held(d)'.whole => Held(c)' = Held(d)'
        /\ \A c, d \in S : ~Held(c)'.whole /\ ~Held(d)'.whole => c = d
        /\ \A c \in S : IF Held(c)'.whole THEN Lesser(Held(c)', x) ELSE Held(c)'.stamp > 0
    BY <1>1, <2>2, <2>3
  <2> QED BY <1>1, <1>9, <2>1, <2>3, <2>4 DEF Lesser
<1>11. BtrfsAt(S)'
  BY <1>5, <1>7, <1>9, <1>10 DEF BtrfsAt
<1> QED BY <1>1, <1>11

(* What was shown may be shown again.                                       *)
LEMMA BtrfsOpen ==
    ASSUME Common, fmt = "Btrfs", NEW T \in SUBSET Copies, BtrfsAt(T), UNCHANGED writer,
           shown' \in {shown, State(Used)}
    PROVE  BtrfsAt(T)'
<1>1. /\ Copies' = Copies /\ fmt' = fmt /\ current' = current /\ safe' = safe
      /\ flying' = flying /\ steps' = steps
      /\ \A d : Held(d)' = Held(d) /\ All(d, current)' = All(d, current)
  BY OpenLeaves
<1>2. Then(UNION {All(c, current) : c \in T}, <<>>)'
  <2>1. flying' = UNION {All(c, current) : c \in T} /\ steps' = <<>>
    BY <1>1 DEF BtrfsAt, Then
  <2> QED BY <1>1, <2>1 DEF Then
<1>3. (\A c \in Copies \ T : Held(c) = current)'
  BY <1>1 DEF BtrfsAt
<1>4. /\ Copies = {1, 2, 3} /\ Known(current) /\ {safe, shown} \subseteq Nat /\ current.id \in Nat
      /\ \A c \in Copies : Held(c).id \in Nat
  BY BtrfsIs
<1>5. 1 \notin T => Known(current)'
  <2>1. 1 \notin T => shown' <= current.id
    BY <1>4, BtrfsFound DEF Known
  <2> QED BY <1>1, <1>4, <2>1 DEF Known
<1>6. ASSUME 1 \in T
      PROVE  (/\ \A c, d \in T : Held(c).whole /\ Held(d).whole => Held(c) = Held(d)
              /\ \A c, d \in T : ~Held(c).whole /\ ~Held(d).whole => c = d
              /\ \A c \in T : IF Held(c).whole THEN Lesser(Held(c), current) ELSE Held(c).stamp > 0
              /\ IF Held(1).whole THEN Known(Held(1))
                 ELSE IF T = Copies THEN Known(Held(2)) ELSE Known(current))'
  <2>1. (/\ \A c, d \in T : Held(c).whole /\ Held(d).whole => Held(c) = Held(d)
         /\ \A c, d \in T : ~Held(c).whole /\ ~Held(d).whole => c = d
         /\ \A c \in T : IF Held(c).whole THEN Lesser(Held(c), current) ELSE Held(c).stamp > 0)'
    BY <1>1, <1>6 DEF BtrfsAt, Lesser
  <2>2. /\ Held(1).whole => Known(Held(1)) /\ shown' <= Held(1).id
        /\ ~Held(1).whole /\ T = Copies => Known(Held(2)) /\ shown' <= Held(2).id
        /\ ~Held(1).whole /\ T # Copies => Known(current) /\ shown' <= current.id
    <3>1. /\ Held(1).whole => Known(Held(1))
          /\ ~Held(1).whole /\ T = Copies => Known(Held(2))
          /\ ~Held(1).whole /\ T # Copies => Known(current)
      BY <1>6 DEF BtrfsAt
    <3>2. /\ Held(1).whole => State(Used) = Held(1).id
          /\ ~Held(1).whole /\ T = Copies => State(Used) = Held(2).id
          /\ ~Held(1).whole /\ T # Copies => State(Used) = current.id
      BY <1>6, BtrfsFound
    <3> QED BY <1>4, <3>1, <3>2 DEF Known
  <2>3. (IF Held(1).whole THEN Known(Held(1))
         ELSE IF T = Copies THEN Known(Held(2)) ELSE Known(current))'
    BY <1>1, <2>2 DEF Known
  <2> QED BY <2>1, <2>3
<1> QED BY <1>2, <1>3, <1>5, <1>6 DEF BtrfsAt

(* The reader is shown what a writer that starts again would find.          *)
LEMMA BtrfsShows ==
    ASSUME Common, BtrfsInv, fmt = "Btrfs"
    PROVE  Shows /\ Flies /\ Finds
<1>1. PICK T \in SUBSET Copies : BtrfsAt(T)
  BY DEF BtrfsInv
<1>2. Used # {} /\ State(Used) = Found.id /\ Finds /\ Flies
  BY <1>1, BtrfsFound, BtrfsIs
<1>3. Known(Found) /\ Found.id \in Nat /\ Found.id <= issued
  <2>1. /\ \A c \in Copies : Held(c).id \in Nat /\ (Held(c).whole => Held(c).id <= issued)
        /\ current.id \in Nat /\ current.id <= issued /\ Known(current) /\ Copies = {1, 2, 3}
    BY <1>1, BtrfsIs
  <2> QED BY <1>1, <2>1, BtrfsFound DEF BtrfsAt
<1> QED BY <1>2, <1>3 DEF Shows, Known

(* Every step keeps Btrfs's copies in an order the primary can be judged    *)
(* by.                                                                      *)
LEMMA BtrfsStep ==
    ASSUME Common, BtrfsInv, fmt = "Btrfs", WriterStep \/ ReaderStep
    PROVE  BtrfsInv'
<1>1. PICK T \in SUBSET Copies : BtrfsAt(T)
  BY DEF BtrfsInv
<1>2. fmt' = fmt /\ Copies' = Copies
  <2>1. fmt' = fmt
    BY DEF WriterStep, WriterNext, ReaderStep, writer, Begin, Flush, Finish, Crash, Land, Tear
  <2> QED BY <2>1, SameFormat
<1>3. \E S \in SUBSET Copies : BtrfsAt(S)'
  <2>1. CASE WriterStep /\ Begin
    BY <1>1, <2>1, BtrfsBegin DEF WriterStep
  <2>2. CASE WriterStep /\ Flush
    BY <1>1, <2>2, BtrfsIs DEF WriterStep, Flush
  <2>3. CASE WriterStep /\ Finish
    BY <1>1, <2>3, BtrfsFinish DEF WriterStep
  <2>4. CASE WriterStep /\ Crash
    BY <1>1, <2>4, BtrfsCrash DEF WriterStep
  <2>5. CASE WriterStep /\ \E w \in flying : Land(w)
    BY <1>1, <2>5, BtrfsLand DEF WriterStep
  <2>6. CASE WriterStep /\ \E w \in flying : Tear(w)
    BY <1>1, <2>6, BtrfsTear DEF WriterStep
  <2>7. CASE ReaderStep
    BY <1>1, <2>7, BtrfsOpen DEF ReaderStep
  <2> QED BY <2>1, <2>2, <2>3, <2>4, <2>5, <2>6, <2>7 DEF WriterStep, WriterNext
<1> QED BY <1>2, <1>3 DEF BtrfsInv

-----------------------------------------------------------------------------
(* UBI's volume table.                                                      *)

(* The two copies of UBI's volume table, and what one of their writes is.   *)
LEMMA TableIs ==
    ASSUME Common, fmt = "UBItable", TableInv
    PROVE  /\ Copies = {1, 2} /\ Parts = {"block"}
           /\ \A c, x : All(c, x) = {Put(c, "block", x)}
           /\ \A c : Erase(c) = {Put(c, "block", Blank)}
           /\ current.whole /\ current.id \in Nat /\ current.id <= issued /\ current.stamp \in Nat
           /\ {safe, shown} \subseteq Nat
           /\ \A c \in Copies : /\ Held(c).stamp \in Nat /\ Held(c).id \in Nat
                                /\ Held(c).whole => Held(c).id <= issued
                                /\ Content(c) = IF Held(c).whole THEN Held(c) ELSE Blank
           /\ TableIdle \/ TableFirst \/ TableSecond \/ TableMend
           /\ Flies
<1>1. 1..2 = {1, 2}
  OBVIOUS
<1>2. Copies = {1, 2} /\ Parts = {"block"}
  BY <1>1 DEF Copies, Parts
<1>3. \A c, x : All(c, x) = {Put(c, "block", x)}
  BY OneBlock
<1>4. \A c : Erase(c) = {Put(c, "block", Blank)}
  <2> TAKE c
  <2>1. {c} \X Parts = {<<c, "block">>}
    BY <1>2
  <2> QED BY <2>1 DEF Erase, Put
<1>5. current.whole /\ current.id \in Nat /\ current.id <= issued /\ current.stamp \in Nat /\ {safe, shown} \subseteq Nat
  BY PartIs DEF Common
<1>6. \A c \in Copies : /\ Held(c).stamp \in Nat /\ Held(c).id \in Nat
                        /\ Held(c).whole => Held(c).id <= issued
                        /\ Content(c) = IF Held(c).whole THEN Held(c) ELSE Blank
  <2> TAKE c \in Copies
  <2>1. "block" \in Parts
    BY <1>2
  <2> QED BY <2>1, AtIs, OneBlock DEF Held, Common
<1>7. TableIdle \/ TableFirst \/ TableSecond \/ TableMend
  BY DEF TableInv
<1>8. flying = {} \/ \E c \in {1, 2}, x \in {current, Blank} : flying = {Put(c, "block", x)}
  BY <1>3, <1>4, <1>7 DEF TableIdle, TableFirst, TableSecond, TableMend, Idle, Then
<1>9. Flies
  BY <1>2, <1>8 DEF Flies, Put
<1> QED BY <1>2, <1>3, <1>4, <1>5, <1>6, <1>7, <1>9

(* What a writer that starts again finds is what is read.                   *)
LEMMA TableFound ==
    ASSUME Common, fmt = "UBItable", TableInv
    PROVE  /\ Found = IF Held(1).whole THEN Held(1) ELSE Held(2)
           /\ Found.whole /\ Finds /\ Known(Found)
           /\ Used # {} /\ State(Used) = Found.id
           /\ ~Held(1).whole => Held(2).whole
<1>1. /\ Copies = {1, 2} /\ Parts = {"block"}
      /\ TableIdle \/ TableFirst \/ TableSecond \/ TableMend
      /\ current.whole
      /\ \A c \in Copies : Content(c) = IF Held(c).whole THEN Held(c) ELSE Blank
  BY TableIs
<1>2. ~Held(1).whole => Held(2).whole
  BY <1>1 DEF TableIdle, TableFirst, TableSecond, TableMend
<1>3. Good = {c \in Copies : Held(c).whole}
  BY DEF Good, Held
<1>4. CASE Held(1).whole
  <2>1. Found = Held(1)
    <3>1. Content(1) = Held(1) /\ Content(1) # Blank
      BY <1>1, <1>4, PartIs
    <3> QED BY <3>1, FoundFirst
  <2>2. Known(Held(1))
    BY <1>1, <1>4 DEF TableIdle, TableFirst, TableSecond, TableMend
  <2>3. Min(Good) = 1
    <3>1. 1 \in Good /\ \A d \in Good : 1 <= d /\ (d <= 1 => d = 1)
      BY <1>1, <1>3, <1>4
    <3> QED BY <3>1 DEF Min
  <2>4. Used = {<<1, "block">>}
    <3>1. Good # {}
      BY <1>1, <1>3, <1>4
    <3> QED BY <2>3, <3>1 DEF Used, ReadUbiTable
  <2>5. Finds
    BY <1>1, <1>4, <2>1 DEF Finds, Held
  <2> QED BY <1>4, <2>1, <2>2, <2>4, <2>5, StateIs DEF Held, At
<1>5. CASE ~Held(1).whole
  <2>1. Held(2).whole
    BY <1>2, <1>5
  <2>2. Found = Held(2) /\ Finds
    BY <1>1, <1>5, <2>1, FoundNewest
  <2>3. Known(Held(2))
    BY <1>1, <1>5 DEF TableIdle, TableFirst, TableSecond, TableMend
  <2>4. Good = {2}
    BY <1>1, <1>3, <1>5, <2>1
  <2>5. Min(Good) = 2
    BY <2>4 DEF Min
  <2>6. Used = {<<2, "block">>}
    BY <2>4, <2>5 DEF Used, ReadUbiTable
  <2> QED BY <1>5, <2>1, <2>2, <2>3, <2>6, StateIs DEF Held, At
<1> QED BY <1>2, <1>4, <1>5

(* The first copy is to be erased, while the second holds the old table.    *)
LEMMA TableBegin ==
    ASSUME Common, fmt = "UBItable", TableInv, Begin, shown' = shown
    PROVE  TableFirst'
<1> PICK x : x = current'
  OBVIOUS
<1>1. /\ fmt' = fmt /\ safe' = safe /\ Start(Plan(x)) /\ flying = {} /\ steps = <<>>
      /\ Lesser(current, x) /\ \A d : Held(d)' = Held(d)
  BY BeginKeeps DEF Held
<1>2. TableIdle
  <2>1. All(1, current) # {} /\ All(2, current) # {} /\ (TableIdle \/ TableFirst \/ TableSecond \/ TableMend)
    BY TableIs
  <2>2. /\ <<All(1, current), Erase(2), All(2, current)>> # <<>> /\ <<Erase(2), All(2, current)>> # <<>>
        /\ <<All(2, current)>> # <<>>
    BY StartOf
  <2> QED BY <1>1, <2>1, <2>2 DEF TableFirst, TableSecond, TableMend, Then
<1>3. Plan(x) = <<Erase(1), All(1, x), Erase(2), All(2, x)>>
  BY DEF Plan
<1>4. flying' = Erase(1) /\ steps' = <<All(1, x), Erase(2), All(2, x)>>
  BY <1>1, <1>3, StartOf DEF Start
<1>5. \A d : All(d, current)' = All(d, x) /\ Erase(d)' = Erase(d)
  BY <1>1, SameFormat
<1>6. Then(Erase(1), <<All(1, current), Erase(2), All(2, current)>>)'
  BY <1>1, <1>4, <1>5 DEF Then
<1>7. (Held(2).whole /\ Known(Held(2)) /\ Lesser(Held(2), current) /\ (Held(1).whole => Held(1) = Held(2)))'
  <2>1. Held(1) = current /\ Held(2) = current /\ Known(current) /\ current.whole
    BY <1>2, TableIs DEF TableIdle
  <2> QED BY <1>1, <2>1 DEF Known, Lesser
<1> QED BY <1>6, <1>7 DEF TableFirst

(* An erased copy is blank, and a written one holds the table.              *)
LEMMA TableLand ==
    ASSUME Common, fmt = "UBItable", TableInv, NEW w \in flying, Land(w), shown' = shown
    PROVE  (TableIdle \/ TableFirst \/ TableSecond \/ TableMend)'
<1>1. /\ Copies = {1, 2} /\ Parts = {"block"}
      /\ \A c, x : All(c, x) = {Put(c, "block", x)}
      /\ \A c : Erase(c) = {Put(c, "block", Blank)}
      /\ current.whole /\ current.id \in Nat /\ {safe, shown} \subseteq Nat
      /\ Held(2).id \in Nat
      /\ TableIdle \/ TableFirst \/ TableSecond \/ TableMend
  BY TableIs
<1>2. /\ fmt' = fmt /\ current' = current /\ safe' = safe /\ steps' = steps
      /\ medium' = Written(w, w.part) /\ flying' = flying \ {w}
  BY DEF Land
<1>3. \A d : All(d, current)' = All(d, current) /\ Erase(d)' = Erase(d)
  BY <1>2, SameFormat
<1>4. ASSUME NEW o \in {1, 2}, NEW x, flying = {Put(o, "block", x)}
      PROVE  flying' = {} /\ Held(o)' = x /\ Held(3 - o)' = Held(3 - o)
  <2>1. w = Put(o, "block", x) /\ w.part = x /\ o \in Copies /\ 3 - o \in Copies /\ 3 - o # o
    BY <1>1, <1>4 DEF Put
  <2> QED BY <1>1, <1>2, <1>4, <2>1, BlockWritten
<1>5. \A y : Known(y)' <=> Known(y)
  BY <1>2 DEF Known
<1>6. ~Blank.whole
  BY PartIs
<1>7. CASE TableFirst /\ flying = Erase(1)
  <2>1. flying' = {} /\ Held(1)' = Blank /\ Held(2)' = Held(2)
    BY <1>1, <1>4, <1>7
  <2>2. steps' = <<All(1, current), Erase(2), All(2, current)>>
    <3>2. Put(1, "block", current) # Put(1, "block", Blank)
      BY <1>1, <1>6, PutOne
    <3>3. All(1, current) # Erase(1) /\ Erase(1) # {}
      BY <1>1, <3>2
    <3> QED BY <1>2, <1>7, <3>3 DEF TableFirst, Then
  <2>3. TableFirst'
    BY <1>2, <1>3, <1>5, <1>6, <1>7, <2>1, <2>2 DEF TableFirst, Then, Lesser
  <2> QED BY <2>3
<1>8. CASE TableFirst /\ Then(All(1, current), <<Erase(2), All(2, current)>>)
  <2>1. flying' = {} /\ Held(1)' = current
    BY <1>1, <1>4, <1>8 DEF Then
  <2>2. Known(current)
    BY <1>1, <1>8 DEF TableFirst, Known, Lesser
  <2>3. TableSecond'
    BY <1>2, <1>3, <1>5, <1>8, <2>1, <2>2 DEF TableSecond, Then
  <2> QED BY <2>3
<1>9. CASE TableSecond /\ Then(Erase(2), <<All(2, current)>>)
  <2>1. flying' = {} /\ Held(1)' = Held(1)
    BY <1>1, <1>4, <1>9 DEF Then
  <2>2. TableSecond'
    BY <1>2, <1>3, <1>5, <1>9, <2>1 DEF TableSecond, Then
  <2> QED BY <2>2
<1>10. CASE TableSecond /\ Then(All(2, current), <<>>)
  <2>1. flying' = {} /\ Held(2)' = current /\ Held(1)' = Held(1)
    BY <1>1, <1>4, <1>10 DEF Then
  <2>2. TableIdle'
    BY <1>2, <1>5, <1>10, <2>1 DEF TableSecond, TableIdle, Idle, Then
  <2> QED BY <2>2
<1>11. CASE TableMend
  <2>1. flying' = {} /\ Held(1)' = current /\ Held(2)' = Held(2)
    BY <1>1, <1>4, <1>11 DEF TableMend, Then
  <2>2. TableIdle'
    BY <1>2, <1>5, <1>11, <2>1 DEF TableMend, TableIdle, Idle, Then
  <2> QED BY <2>2
<1>12. flying # {}
  OBVIOUS
<1> QED BY <1>1, <1>7, <1>8, <1>9, <1>10, <1>11, <1>12 DEF TableIdle, TableFirst, TableSecond, Idle, Then

(* A copy that is torn was not whole, so the other is still read.           *)
LEMMA TableTear ==
    ASSUME Common, fmt = "UBItable", TableInv, NEW w \in flying, Tear(w), shown' = shown
    PROVE  (TableIdle \/ TableFirst \/ TableSecond \/ TableMend)'
<1>1. /\ Copies = {1, 2} /\ Parts = {"block"}
      /\ \A c, x : All(c, x) = {Put(c, "block", x)}
      /\ \A c : Erase(c) = {Put(c, "block", Blank)}
      /\ TableIdle \/ TableFirst \/ TableSecond \/ TableMend
  BY TableIs
<1>2. /\ fmt' = fmt /\ current' = current /\ safe' = safe /\ steps' = steps /\ flying' = flying
      /\ w.part # Blank
  BY DEF Tear, AtOnce
<1>3. \A d : All(d, current)' = All(d, current) /\ Erase(d)' = Erase(d)
  BY <1>2, SameFormat
<1>4. PICK s : s \in Nat /\ medium' = Written(w, [id |-> 0, stamp |-> s, whole |-> FALSE])
  BY TableIs, TearKeeps
<1>5. ASSUME NEW o \in {1, 2}, flying = All(o, current)
      PROVE  ~Held(o)'.whole /\ Held(3 - o)' = Held(3 - o)
  <2>1. w = Put(o, "block", current) /\ o \in Copies /\ 3 - o \in Copies /\ 3 - o # o
    BY <1>1, <1>5
  <2> QED BY <1>1, <1>2, <1>4, <2>1, BlockWritten
<1>6. \A y : Known(y)' <=> Known(y)
  BY <1>2 DEF Known
<1>7. \A c : flying # Erase(c)
  BY <1>1, <1>2 DEF Put
<1>8. CASE TableFirst /\ Then(All(1, current), <<Erase(2), All(2, current)>>)
  <2>1. ~Held(1)'.whole /\ Held(2)' = Held(2)
    BY <1>5, <1>8 DEF Then
  <2>2. TableFirst'
    BY <1>2, <1>3, <1>6, <1>8, <2>1 DEF TableFirst, Then, Lesser
  <2> QED BY <2>2
<1>9. CASE TableSecond /\ Then(All(2, current), <<>>)
  <2>1. Held(1)' = Held(1)
    BY <1>5, <1>9 DEF Then
  <2>2. TableSecond'
    BY <1>2, <1>3, <1>6, <1>9, <2>1 DEF TableSecond, Then
  <2> QED BY <2>2
<1>10. CASE TableMend
  <2>1. ~Held(1)'.whole /\ Held(2)' = Held(2)
    BY <1>5, <1>10 DEF TableMend, Then
  <2>2. TableMend'
    BY <1>2, <1>3, <1>6, <1>10, <2>1 DEF TableMend, Then
  <2> QED BY <2>2
<1>11. flying # {}
  OBVIOUS
<1> QED BY <1>1, <1>7, <1>8, <1>9, <1>10, <1>11 DEF TableIdle, TableFirst, TableSecond, Idle, Then

(* The next copy is begun when the last is done.                            *)
LEMMA TableFlush ==
    ASSUME Common, fmt = "UBItable", TableInv, Flush, shown' = shown
    PROVE  (TableIdle \/ TableFirst \/ TableSecond \/ TableMend)'
<1>1. /\ current' = current /\ fmt' = fmt /\ safe' = safe
      /\ flying = {} /\ steps # <<>> /\ flying' = Head(steps) /\ steps' = Tail(steps)
      /\ \A d : Held(d)' = Held(d)
  BY FlushKeeps DEF Held
<1>2. \A d : All(d, current)' = All(d, current) /\ Erase(d)' = Erase(d)
  BY <1>1, SameFormat
<1>3. \A y : Known(y)' <=> Known(y)
  BY <1>1 DEF Known
<1>4. /\ \A d : All(d, current) # {} /\ Erase(d) # {}
      /\ TableIdle \/ TableFirst \/ TableSecond \/ TableMend
  BY TableIs
<1>5. CASE TableFirst /\ Then({}, <<All(1, current), Erase(2), All(2, current)>>) /\ ~Held(1).whole
  <2>1. flying' = All(1, current) /\ steps' = <<Erase(2), All(2, current)>>
    BY <1>1, <1>5, StartOf DEF Then
  <2>2. TableFirst'
    BY <1>1, <1>2, <1>3, <1>5, <2>1 DEF TableFirst, Then, Lesser
  <2> QED BY <2>2
<1>6. CASE TableSecond /\ Then({}, <<Erase(2), All(2, current)>>)
  <2>1. flying' = Erase(2) /\ steps' = <<All(2, current)>>
    BY <1>1, <1>6, StartOf DEF Then
  <2>2. TableSecond'
    BY <1>1, <1>2, <1>3, <1>6, <2>1 DEF TableSecond, Then
  <2> QED BY <2>2
<1>7. CASE TableSecond /\ Then({}, <<All(2, current)>>)
  <2>1. flying' = All(2, current) /\ steps' = <<>>
    BY <1>1, <1>7, StartOf DEF Then
  <2>2. TableSecond'
    BY <1>1, <1>2, <1>3, <1>7, <2>1 DEF TableSecond, Then
  <2> QED BY <2>2
<1> QED BY <1>1, <1>4, <1>5, <1>6, <1>7 DEF TableIdle, TableFirst, TableSecond, TableMend, Idle, Then

(* Both copies hold the table that is safe.                                 *)
LEMMA TableFinish ==
    ASSUME Common, fmt = "UBItable", TableInv, Finish, shown' = shown
    PROVE  TableIdle'
<1>1. /\ current' = current /\ safe' = current.id /\ Idle /\ Idle'
      /\ \A d : Held(d)' = Held(d)
  BY FinishKeeps DEF Held
<1>2. /\ All(1, current) # {} /\ All(2, current) # {} /\ current.id \in Nat
      /\ TableIdle \/ TableFirst \/ TableSecond \/ TableMend
  BY TableIs
<1>3. /\ <<All(1, current), Erase(2), All(2, current)>> # <<>> /\ <<Erase(2), All(2, current)>> # <<>>
      /\ <<All(2, current)>> # <<>>
  BY StartOf
<1>4. TableIdle
  BY <1>1, <1>2, <1>3 DEF TableFirst, TableSecond, TableMend, Then, Idle
<1>5. Known(current)'
  BY <1>1, <1>2, <1>4 DEF TableIdle, Known
<1> QED BY <1>1, <1>4, <1>5 DEF TableIdle

(* A copy that does not hold the table found is written anew.               *)
LEMMA TableCrash ==
    ASSUME Common, fmt = "UBItable", TableInv, Crash, shown' = shown
    PROVE  (TableIdle \/ TableFirst \/ TableSecond \/ TableMend)'
<1> PICK x : x = Found
  OBVIOUS
<1>1. /\ current' = x /\ fmt' = fmt /\ safe' = safe /\ Start(Mending(x))
      /\ \A d : Held(d)' = Held(d)
  BY CrashKeeps, TableFound DEF Held
<1>2. \A d : All(d, current)' = All(d, x)
  BY <1>1, SameFormat
<1>3. x = (IF Held(1).whole THEN Held(1) ELSE Held(2)) /\ x.whole /\ Known(x)
  BY TableFound
<1>4. Copies = {1, 2} /\ \A c \in Copies : Content(c) = IF Held(c).whole THEN Held(c) ELSE Blank
  BY TableIs
<1> PICK S : S = {c \in Copies : Content(c) # x}
  OBVIOUS
<1>5. Mending(x) = IF S # {} THEN <<UNION {All(c, x) : c \in S}>> ELSE <<>>
  BY DEF Mending, Mirrored
<1>6. Known(current)'
  BY <1>1, <1>3 DEF Known
<1>7. ASSUME NEW c, S = {c}
      PROVE  Then(All(c, current), <<>>)'
  <2>1. UNION {All(d, x) : d \in S} = All(c, x)
    BY <1>7
  <2>2. flying' = All(c, x) /\ steps' = <<>>
    BY <1>1, <1>5, <1>7, <2>1, StartOf DEF Start
  <2> QED BY <1>2, <2>2 DEF Then
<1>8. CASE ~Held(1).whole
  <2>1. S = {1} /\ x = Held(2)
    BY <1>3, <1>4, <1>8, PartIs
  <2>2. TableMend'
    BY <1>1, <1>6, <1>7, <1>8, <2>1 DEF TableMend
  <2> QED BY <2>2
<1>9. CASE Held(1).whole /\ Held(2) = x
  <2>1. S = {} /\ x = Held(1)
    BY <1>3, <1>4, <1>9
  <2>2. Idle'
    BY <1>1, <1>5, <2>1 DEF Start, Idle
  <2>3. TableIdle'
    BY <1>1, <1>6, <1>9, <2>1, <2>2 DEF TableIdle
  <2> QED BY <2>3
<1>10. CASE Held(1).whole /\ Held(2) # x
  <2>1. S = {2} /\ x = Held(1)
    BY <1>3, <1>4, <1>10, PartIs
  <2>2. TableSecond'
    BY <1>1, <1>6, <1>7, <2>1 DEF TableSecond
  <2> QED BY <2>2
<1> QED BY <1>8, <1>9, <1>10

(* What was shown may be shown again.                                       *)
LEMMA TableOpen ==
    ASSUME Common, fmt = "UBItable", TableInv, UNCHANGED writer, shown' \in {shown, State(Used)}
    PROVE  (TableIdle \/ TableFirst \/ TableSecond \/ TableMend)'
<1>1. /\ current' = current /\ safe' = safe /\ flying' = flying /\ steps' = steps
      /\ \A d : Held(d)' = Held(d) /\ All(d, current)' = All(d, current) /\ Erase(d)' = Erase(d)
  BY OpenLeaves
<1>2. TableIdle \/ TableFirst \/ TableSecond \/ TableMend
  BY TableIs
<1>3. /\ State(Used) = IF Held(1).whole THEN Held(1).id ELSE Held(2).id
      /\ current.whole /\ {safe, shown} \subseteq Nat
  BY TableFound, TableIs
<1>9. State(Used) \in Nat
  BY <1>3, TableIs
<1>4. ASSUME NEW y, Known(y), y.id = State(Used)
      PROVE  shown' <= y.id
  BY <1>4, <1>9 DEF Known
<1>5. CASE TableIdle
  <2>1. Known(current)'
    BY <1>1, <1>3, <1>4, <1>5 DEF TableIdle, Known
  <2>2. TableIdle'
    BY <1>1, <1>5, <2>1 DEF TableIdle, Idle
  <2> QED BY <2>2
<1>6. CASE TableFirst
  <2>1. Known(Held(2))'
    BY <1>1, <1>3, <1>4, <1>6 DEF TableFirst, Known
  <2>2. TableFirst'
    BY <1>1, <1>6, <2>1 DEF TableFirst, Then, Lesser
  <2> QED BY <2>2
<1>7. CASE TableSecond
  <2>1. Known(current)'
    BY <1>1, <1>3, <1>4, <1>7 DEF TableSecond, Known
  <2>2. TableSecond'
    BY <1>1, <1>7, <2>1 DEF TableSecond, Then
  <2> QED BY <2>2
<1>8. CASE TableMend
  <2>1. Known(current)'
    BY <1>1, <1>3, <1>4, <1>8 DEF TableMend, Known
  <2>2. TableMend'
    BY <1>1, <1>8, <2>1 DEF TableMend, Then
  <2> QED BY <2>2
<1> QED BY <1>2, <1>5, <1>6, <1>7, <1>8

(* The first copy, or the second while the first is not whole, is shown.    *)
LEMMA TableShows ==
    ASSUME Common, fmt = "UBItable", TableInv
    PROVE  Shows /\ Flies /\ Finds
<1>1. Copies = {1, 2} /\ \A c \in Copies : Held(c).id \in Nat /\ (Held(c).whole => Held(c).id <= issued)
  BY TableIs
<1>2. Found.id \in Nat /\ Found.id <= issued
  BY <1>1, TableFound
<1> QED BY <1>2, TableFound, TableIs DEF Shows, Known

(* Every step keeps the second copy whole while the first is not.           *)
LEMMA TableStep ==
    ASSUME Common, fmt = "UBItable", TableInv, WriterStep \/ ReaderStep
    PROVE  TableInv'
<1>1. CASE WriterStep /\ Begin
  BY <1>1, TableBegin DEF WriterStep, TableInv
<1>2. CASE WriterStep /\ Flush
  BY <1>2, TableFlush DEF WriterStep, TableInv
<1>3. CASE WriterStep /\ Finish
  BY <1>3, TableFinish DEF WriterStep, TableInv
<1>4. CASE WriterStep /\ Crash
  BY <1>4, TableCrash DEF WriterStep, TableInv
<1>5. CASE WriterStep /\ \E w \in flying : Land(w)
  BY <1>5, TableLand DEF WriterStep, TableInv
<1>6. CASE WriterStep /\ \E w \in flying : Tear(w)
  BY <1>6, TableTear DEF WriterStep, TableInv
<1>7. CASE ReaderStep
  BY <1>7, TableOpen DEF ReaderStep, TableInv
<1> QED BY <1>1, <1>2, <1>3, <1>4, <1>5, <1>6, <1>7 DEF WriterStep, WriterNext

-----------------------------------------------------------------------------
(* Formats whose copies are of several parts.                               *)

(* A copy is whole when all of its parts are and are of one state.          *)
LEMMA ContentIs ==
    ASSUME Common, fmt \notin {"LVM", "UBIFS"}, NEW c \in Copies
    PROVE  \/ Content(c).whole /\ \A p \in Parts : At(c, p) = Content(c)
           \/ /\ Content(c) = Blank
              /\ \A y : y.whole => \E p \in Parts : At(c, p) # y
<1>1. Parts # {}
  BY DEF Parts
<1> PICK ids : ids = {At(c, p).id : p \in Parts}
  OBVIOUS
<1>2. CASE \E y : y.whole /\ \A p \in Parts : At(c, p) = y
  <2>1. PICK y : y.whole /\ \A p \in Parts : At(c, p) = y
    BY <1>2
  <2>2. {p \in Parts : medium[<<c, p>>].whole} = Parts
    BY <2>1 DEF At
  <2>3. {medium[<<c, p>>].id : p \in Parts} = {y.id} /\ {medium[<<c, p>>] : p \in Parts} = {y}
    BY <1>1, <2>1 DEF At
  <2>4. Cardinality({y.id}) = 1
    BY FS_Singleton
  <2>5. y # Blank
    BY <2>1, PartIs
  <2>6. Content(c) = CHOOSE x \in {y} : TRUE
    BY <2>2, <2>3, <2>4 DEF Content
  <2> QED BY <2>1, <2>6
<1>3. CASE ~ \E y : y.whole /\ \A p \in Parts : At(c, p) = y
  <2>1. ~ ({p \in Parts : medium[<<c, p>>].whole} = Parts /\ Cardinality(ids) = 1)
    <3> SUFFICES ASSUME {p \in Parts : medium[<<c, p>>].whole} = Parts, Cardinality(ids) = 1
                 PROVE  FALSE
      OBVIOUS
    <3>1. \A p \in Parts : At(c, p).whole
      BY DEF At
    <3>2. ids \subseteq 0..issued /\ issued \in Int
      BY AtIs DEF Common
    <3>7. IsFiniteSet(0..issued)
      BY <3>2, FS_Interval
    <3>3. IsFiniteSet(ids)
      BY <3>2, <3>7, FS_Subset
    <3>4. PICK i : ids = {i}
      BY <3>3, FS_Singleton
    <3>5. PICK p \in Parts : TRUE
      BY <1>1
    <3>6. \A q \in Parts : At(c, q) = At(c, p)
      BY <3>1, <3>4, OneRecord
    <3> QED BY <1>3, <3>1, <3>5, <3>6
  <2>2. ids = {medium[<<c, p>>].id : p \in Parts}
    BY DEF At
  <2>3. Content(c) = Blank
    BY <2>1, <2>2 DEF Content
  <2> QED BY <1>3, <2>3
<1> QED BY <1>2, <1>3

(* The GPT.                                                                 *)

(* The two tables of a GPT, and what one of their writes is.                *)
LEMMA GptIs ==
    ASSUME Common, fmt = "GPT"
    PROVE  /\ Copies = {1, 2} /\ Parts = {"head", "array"}
           /\ \A c, x : All(c, x) = {Put(c, p, x) : p \in Parts}
           /\ current.whole /\ current.id \in Nat /\ current.id <= issued /\ current.id > 0 /\ current.stamp \in Nat
           /\ current.stamp > 0
           /\ {safe, shown} \subseteq Nat
           /\ \A c \in Copies : /\ At(c, "head").id \in 0..issued /\ At(c, "array").id \in 0..issued
                                /\ Table(c) <=> At(c, "head").whole /\ At(c, "array") = At(c, "head")
                                /\ Content(c) = IF Table(c) THEN At(c, "head") ELSE Blank
<1>1. 1..2 = {1, 2}
  OBVIOUS
<1>2. Copies = {1, 2} /\ Parts = {"head", "array"}
  BY <1>1 DEF Copies, Parts
<1>3. \A c, x : All(c, x) = {Put(c, p, x) : p \in Parts}
  BY DEF All
<1>4. /\ current.whole /\ current.id \in Nat /\ current.id <= issued /\ current.id > 0 /\ current.stamp \in Nat
      /\ current.stamp > 0 /\ {safe, shown} \subseteq Nat
  BY PartIs DEF Common
<1>5. ASSUME NEW c \in Copies
      PROVE  /\ At(c, "head").id \in 0..issued /\ At(c, "array").id \in 0..issued
             /\ Table(c) <=> At(c, "head").whole /\ At(c, "array") = At(c, "head")
             /\ Content(c) = IF Table(c) THEN At(c, "head") ELSE Blank
  <2>1. "head" \in Parts /\ "array" \in Parts
    BY <1>2
  <2>2. At(c, "head").id \in 0..issued /\ At(c, "array").id \in 0..issued
    BY <2>1, AtIs
  <2>3. Table(c) <=> At(c, "head").whole /\ At(c, "array") = At(c, "head")
    BY <2>1, OneRecord DEF Table
  <2>4. CASE Table(c)
    <3>1. At(c, "head").whole /\ \A p \in Parts : At(c, p) = At(c, "head")
      BY <1>2, <2>3, <2>4
    <3> QED BY <2>1, <2>2, <2>3, <2>4, <3>1, ContentIs
  <2>5. CASE ~Table(c)
    <3>1. ~(Content(c).whole /\ \A p \in Parts : At(c, p) = Content(c))
      BY <2>1, <2>3, <2>5
    <3>2. Content(c) = Blank
      BY <3>1, ContentIs
    <3> QED BY <2>2, <2>3, <2>5, <3>2
  <2> QED BY <2>4, <2>5
<1> QED BY <1>2, <1>3, <1>4, <1>5

(* What is read is the primary table, or the backup while it is none.       *)
LEMMA GptFound ==
    ASSUME Common, fmt = "GPT", NEW T \in SUBSET Parts, GptFirst(T) \/ GptBackup(T)
    PROVE  /\ Table(1) => Found = At(1, "head") /\ Known(At(1, "head"))
           /\ ~Table(1) => Found = current /\ Known(current) /\ Table(2) /\ At(2, "head") = current
           /\ Found.whole /\ Finds /\ Flies /\ Found.id <= issued
           /\ Used # {} /\ State(Used) = Found.id
<1>1. /\ Copies = {1, 2} /\ Parts = {"head", "array"} /\ current.whole
      /\ current.stamp \in Nat /\ current.stamp > 0 /\ current.id <= issued
      /\ \A c \in Copies : /\ At(c, "head").id \in 0..issued
                           /\ Table(c) <=> At(c, "head").whole /\ At(c, "array") = At(c, "head")
                           /\ Content(c) = IF Table(c) THEN At(c, "head") ELSE Blank
  BY GptIs
<1> PICK tables : tables = {c \in Copies : Table(c)}
  OBVIOUS
<1>2. Used = IF tables = {} THEN {} ELSE {Min(tables)} \X Parts
  BY DEF Used, ReadGpt
<1>3. Flies
  <2>1. \E c \in {1, 2} : flying = {Put(c, p, current) : p \in T}
    BY DEF GptFirst, GptBackup, Putting
  <2> QED BY <1>1, <2>1 DEF Flies, Put
<1>4. ASSUME NEW c \in Copies, Table(c)
      PROVE  {c} \X Parts # {} /\ State({c} \X Parts) = At(c, "head").id
  <2>1. {c} \X Parts # {} /\ \A at \in {c} \X Parts : medium[at] = At(c, "head")
    BY <1>1, <1>4 DEF At
  <2> QED BY <2>1, StateIs
<1>5. CASE Table(1)
  <2>1. Found = At(1, "head") /\ At(1, "head").whole
    <3>1. Content(1) = At(1, "head") /\ Content(1) # Blank
      BY <1>1, <1>5, PartIs
    <3> QED BY <1>1, <1>5, <3>1, FoundFirst
  <2>2. Known(At(1, "head"))
    BY <1>5 DEF GptFirst, GptBackup
  <2>3. Min(tables) = 1 /\ tables # {}
    <3>1. 1 \in tables /\ \A d \in tables : 1 <= d /\ (d <= 1 => d = 1)
      BY <1>1, <1>5
    <3> QED BY <3>1 DEF Min
  <2>4. Used # {} /\ State(Used) = At(1, "head").id
    BY <1>1, <1>2, <1>4, <1>5, <2>3
  <2>5. Finds
    BY <1>1, <2>1 DEF Finds
  <2> QED BY <1>1, <1>3, <1>5, <2>1, <2>2, <2>4, <2>5
<1>6. CASE ~Table(1)
  <2>1. GptBackup(T)
    BY <1>1, <1>6 DEF GptFirst
  <2>2. Table(2) /\ At(2, "head") = current /\ Known(current)
    BY <1>1, <2>1 DEF GptBackup
  <2>3. Content(2) = current /\ Content(1) = Blank
    BY <1>1, <1>6, <2>2
  <2>4. Found = current
    <3>1. \A d \in Copies : Content(d) = Content(2)
                             \/ (Content(d).stamp \in Nat /\ Content(d).stamp < Content(2).stamp)
      BY <1>1, <2>3, PartIs
    <3> QED BY <1>1, <2>3, <3>1, FoundIs
  <2>5. tables = {2}
    BY <1>1, <1>6, <2>2
  <2>6. Min(tables) = 2
    BY <2>5 DEF Min
  <2>7. Used # {} /\ State(Used) = current.id
    BY <1>1, <1>2, <1>4, <2>2, <2>5, <2>6
  <2>8. Finds
    BY <1>1, <2>2, <2>4 DEF Finds
  <2> QED BY <1>1, <1>3, <1>6, <2>2, <2>4, <2>7, <2>8
<1> QED BY <1>5, <1>6

(* When nothing is under way both tables are of the state made last.        *)
LEMMA GptIdle ==
    ASSUME Common, fmt = "GPT", NEW T \in SUBSET Parts, GptFirst(T) \/ GptBackup(T), Idle
    PROVE  /\ Known(current) /\ Putting(2, {}) /\ steps = <<>>
           /\ \A c \in {1, 2}, p \in {"head", "array"} : At(c, p) = current
<1>1. /\ Copies = {1, 2} /\ Parts = {"head", "array"}
  BY GptIs
<1>2. T = {}
  BY DEF GptFirst, GptBackup, Putting, Idle
<1>3. <<All(1, current)>> # <<>>
  BY StartOf
<1>4. \A c \in {1, 2}, p \in {"head", "array"} : At(c, p) = current
  BY <1>1, <1>2, <1>3 DEF GptFirst, GptBackup, Idle
<1>5. Known(current)
  BY <1>2, <1>3 DEF GptFirst, GptBackup, Idle
<1> QED BY <1>4, <1>5 DEF Putting, Idle

(* A new table is written over the backup first.                            *)
LEMMA GptBegin ==
    ASSUME Common, fmt = "GPT", NEW T \in SUBSET Parts, GptFirst(T) \/ GptBackup(T), Begin, shown' = shown
    PROVE  \E S \in SUBSET Parts : GptFirst(S)'
<1> PICK x : x = current'
  OBVIOUS
<1> PICK K : K = Parts
  OBVIOUS
<1>1. /\ fmt' = fmt /\ safe' = safe /\ Start(Plan(x)) /\ Idle /\ Parts' = Parts
      /\ Lesser(current, x) /\ \A d, p : At(d, p)' = At(d, p)
  BY BeginKeeps DEF Idle
<1>2. Known(current) /\ current.whole /\ \A c \in {1, 2}, p \in {"head", "array"} : At(c, p) = current
  BY <1>1, GptIdle, GptIs
<1>3. Plan(x) = <<All(2, x), All(1, x)>>
  BY DEF Plan
<1>4. flying' = All(2, x) /\ steps' = <<All(1, x)>>
  BY <1>1, <1>3, StartOf DEF Start
<1>5. \A d : All(d, current)' = All(d, x)
  BY <1>1, SameFormat
<1>6. Putting(2, K)'
  BY <1>4, GptIs DEF Putting, Put
<1>7. (steps = <<All(1, current)>> /\ Lesser(At(1, "head"), current))'
  BY <1>1, <1>2, <1>4, <1>5 DEF Lesser
<1>8. (At(1, "head").whole /\ At(1, "array") = At(1, "head") /\ Known(At(1, "head")))'
  BY <1>1, <1>2 DEF Known
<1>9. (\A p \in Parts \ K : At(2, p) = current)'
  BY <1>1
<1>10. GptFirst(K)'
  BY <1>6, <1>7, <1>8, <1>9 DEF GptFirst
<1> QED BY <1>10

(* A header or an array reaches the medium, of the backup or of the         *)
(* primary.                                                                 *)
LEMMA GptLand ==
    ASSUME Common, fmt = "GPT", NEW T \in SUBSET Parts, GptFirst(T) \/ GptBackup(T),
           NEW w \in flying, Land(w), shown' = shown
    PROVE  \E S \in SUBSET Parts : (GptFirst(S) \/ GptBackup(S))'
<1>1. Copies = {1, 2} /\ Parts = {"head", "array"} /\ current.whole /\ current.id \in Nat
      /\ \A c \in Copies : Table(c) <=> At(c, "head").whole /\ At(c, "array") = At(c, "head")
  BY GptIs
<1>2. /\ fmt' = fmt /\ current' = current /\ safe' = safe /\ steps' = steps
      /\ medium' = Written(w, w.part) /\ flying' = flying \ {w}
  BY DEF Land
<1>3. /\ \A d : All(d, current)' = All(d, current)
      /\ Parts' = Parts
  BY <1>2, SameFormat
<1>4. ASSUME NEW c \in {1, 2}, Putting(c, T)
      PROVE  \E q \in T : /\ \A d \in Copies, p \in Parts : At(d, p)' = IF d = c /\ p = q THEN current ELSE At(d, p)
                          /\ Putting(c, T \ {q})'
  <2>1. PICK q \in T : w = Put(c, q, current)
    BY <1>4 DEF Putting
  <2>2. w.part = current
    BY <2>1 DEF Put
  <2>3. \A d \in Copies, p \in Parts : At(d, p)' = IF d = c /\ p = q THEN current ELSE At(d, p)
    BY <1>1, <1>2, <2>1, <2>2, PutWritten
  <2>4. flying' = {Put(c, p, current) : p \in T \ {q}}
    BY <1>2, <1>4, <2>1, PutOne DEF Putting
  <2>5. Putting(c, T \ {q})'
    BY <1>2, <2>4 DEF Putting, Put
  <2> QED BY <2>3, <2>5
<1>5. CASE GptFirst(T)
  <2>1. PICK q \in T : /\ \A d \in Copies, p \in Parts : At(d, p)' = IF d = 2 /\ p = q THEN current ELSE At(d, p)
                       /\ Putting(2, T \ {q})'
    BY <1>4, <1>5 DEF GptFirst
  <2>2. At(1, "head")' = At(1, "head") /\ At(1, "array")' = At(1, "array")
    BY <1>1, <2>1
  <2>3. (\A p \in Parts \ (T \ {q}) : At(2, p) = current)'
    BY <1>1, <1>2, <1>3, <1>5, <2>1 DEF GptFirst
  <2>4. GptFirst(T \ {q})'
    BY <1>2, <1>3, <1>5, <2>1, <2>2, <2>3 DEF GptFirst, Known, Lesser
  <2> QED BY <2>4
<1>6. CASE GptBackup(T)
  <2>1. PICK q \in T : /\ \A d \in Copies, p \in Parts : At(d, p)' = IF d = 1 /\ p = q THEN current ELSE At(d, p)
                       /\ Putting(1, T \ {q})'
    BY <1>4, <1>6 DEF GptBackup
  <2>2. At(2, "head")' = current /\ At(2, "array")' = current
    BY <1>1, <1>6, <2>1 DEF GptBackup
  <2>3. (\A p \in Parts \ (T \ {q}) : At(1, p) = current)'
    BY <1>1, <1>2, <1>3, <1>6, <2>1 DEF GptBackup
  <2>4. \A p \in T \ {q} : At(1, p)'.id <= current.id
    BY <1>1, <1>6, <2>1 DEF GptBackup
  <2>5. Known(current)'
    BY <1>2, <1>6 DEF GptBackup, Known
  <2>6. Table(1)' => At(1, "head").id' = current.id
    BY <1>1, <2>1 DEF Table
  <2>7. (Table(1) => Known(At(1, "head")))'
    BY <1>2, <2>5, <2>6 DEF Known
  <2>8. (\A p \in T \ {q} : At(1, p).id <= current.id)'
    BY <1>2, <2>4
  <2>9. GptBackup(T \ {q})'
    BY <1>2, <1>6, <2>1, <2>2, <2>3, <2>5, <2>7, <2>8 DEF GptBackup
  <2> QED BY <2>9
<1> QED BY <1>5, <1>6

(* A write of one part that a crash tears leaves the others.                *)
LEMMA PutTear ==
    ASSUME Common, NEW c \in Copies, NEW T \in SUBSET Parts, Putting(c, T), NEW w \in flying, Tear(w)
    PROVE  \E q \in T, s \in Nat :
              /\ \A d \in Copies, p \in Parts :
                    At(d, p)' = IF d = c /\ p = q THEN [id |-> 0, stamp |-> s, whole |-> FALSE] ELSE At(d, p)
              /\ Putting(c, T)'
              /\ s \in {At(c, q).stamp, current.stamp}
<1>1. PICK q \in T : w = Put(c, q, current)
  BY DEF Putting
<1>2. /\ fmt' = fmt /\ current' = current /\ flying' = flying
      /\ \E s \in {medium[at].stamp : at \in w.at} \cup {w.part.stamp} :
            medium' = Written(w, [id |-> 0, stamp |-> s, whole |-> FALSE])
  BY DEF Tear
<1>3. w.at = {<<c, q>>} /\ w.part = current
  BY <1>1 DEF Put
<1>4. PICK s : /\ s \in {At(c, q).stamp, current.stamp}
               /\ medium' = Written(w, [id |-> 0, stamp |-> s, whole |-> FALSE])
  BY <1>2, <1>3 DEF At
<1>5. s \in Nat
  <2>1. At(c, q).stamp \in Nat
    BY AtIs
  <2>2. current.stamp \in Nat
    BY PartIs DEF Common
  <2> QED BY <1>4, <2>1, <2>2
<1>6. \A d \in Copies, p \in Parts :
          At(d, p)' = IF d = c /\ p = q THEN [id |-> 0, stamp |-> s, whole |-> FALSE] ELSE At(d, p)
  <2>1. ASSUME NEW y, medium' = Written(w, y)
        PROVE  \A d \in Copies, p \in Parts : At(d, p)' = IF d = c /\ p = q THEN y ELSE At(d, p)
    <3>1. medium \in [Copies \X Parts -> Part]
      BY DEF Common
    <3>2. medium' = [at \in Copies \X Parts |-> IF at = <<c, q>> THEN y ELSE medium[at]]
      BY <1>3, <2>1, <3>1 DEF Written
    <3> QED BY <3>2 DEF At
  <2> QED BY <1>4, <2>1
<1>7. Putting(c, T)'
  BY <1>2 DEF Putting, Put
<1> QED BY <1>4, <1>5, <1>6, <1>7

(* A torn header or array leaves that table none, and the other as it was.  *)
LEMMA GptTear ==
    ASSUME Common, fmt = "GPT", NEW T \in SUBSET Parts, GptFirst(T) \/ GptBackup(T),
           NEW w \in flying, Tear(w), shown' = shown
    PROVE  (GptFirst(T) \/ GptBackup(T))'
<1>1. Copies = {1, 2} /\ Parts = {"head", "array"} /\ current.whole /\ current.id \in Nat
  BY GptIs
<1>2. fmt' = fmt /\ current' = current /\ safe' = safe /\ steps' = steps
  BY DEF Tear
<1>3. (\A d : All(d, current)' = All(d, current)) /\ Parts' = Parts
  BY <1>2, SameFormat
<1>4. CASE GptFirst(T)
  <2>1. PICK q \in T, s \in Nat :
              /\ \A d \in Copies, p \in Parts :
                    At(d, p)' = IF d = 2 /\ p = q THEN [id |-> 0, stamp |-> s, whole |-> FALSE] ELSE At(d, p)
              /\ Putting(2, T)'
    BY <1>1, <1>4, PutTear DEF GptFirst
  <2>2. At(1, "head")' = At(1, "head") /\ At(1, "array")' = At(1, "array")
    BY <1>1, <2>1
  <2>3. (\A p \in Parts \ T : At(2, p) = current)'
    BY <1>1, <1>2, <1>3, <1>4, <2>1 DEF GptFirst
  <2>4. GptFirst(T)'
    BY <1>2, <1>3, <1>4, <2>1, <2>2, <2>3 DEF GptFirst, Known, Lesser
  <2> QED BY <2>4
<1>5. CASE GptBackup(T)
  <2>1. PICK q \in T, s \in Nat :
              /\ \A d \in Copies, p \in Parts :
                    At(d, p)' = IF d = 1 /\ p = q THEN [id |-> 0, stamp |-> s, whole |-> FALSE] ELSE At(d, p)
              /\ Putting(1, T)'
    BY <1>1, <1>5, PutTear DEF GptBackup
  <2>2. At(2, "head")' = current /\ At(2, "array")' = current
    BY <1>1, <1>5, <2>1 DEF GptBackup
  <2>3. (\A p \in Parts \ T : At(1, p) = current)'
    BY <1>1, <1>2, <1>3, <1>5, <2>1 DEF GptBackup
  <2>4. \A p \in T : At(1, p)'.id <= current.id
    BY <1>1, <1>5, <2>1 DEF GptBackup
  <2>5. Known(current)'
    BY <1>2, <1>5 DEF GptBackup, Known
  <2>6. ~Table(1)'
    BY <1>1, <2>1 DEF Table
  <2>7. (\A p \in T : At(1, p).id <= current.id)'
    BY <1>2, <2>4
  <2>8. GptBackup(T)'
    BY <1>2, <1>5, <2>1, <2>2, <2>3, <2>5, <2>6, <2>7 DEF GptBackup
  <2> QED BY <2>8
<1> QED BY <1>4, <1>5

(* The primary is begun when the backup is whole.                           *)
LEMMA GptFlush ==
    ASSUME Common, fmt = "GPT", NEW T \in SUBSET Parts, GptFirst(T) \/ GptBackup(T), Flush, shown' = shown
    PROVE  GptBackup(Parts)'
<1> PICK K : K = Parts
  OBVIOUS
<1> PICK x : x = current
  OBVIOUS
<1>1. /\ current' = x /\ fmt' = fmt /\ safe' = safe /\ Parts' = K
      /\ flying = {} /\ steps # <<>> /\ flying' = Head(steps) /\ steps' = Tail(steps)
      /\ \A d, p : At(d, p)' = At(d, p)
  BY FlushKeeps
<1>2. GptFirst(T) /\ T = {}
  BY <1>1 DEF GptFirst, GptBackup, Putting
<1>3. /\ steps = <<All(1, x)>> /\ Lesser(At(1, "head"), x) /\ Known(At(1, "head"))
      /\ At(1, "array") = At(1, "head") /\ At(2, "head") = x /\ At(2, "array") = x
  BY <1>1, <1>2, GptIs DEF GptFirst
<1>4. flying' = {Put(1, p, x) : p \in K} /\ steps' = <<>>
  BY <1>1, <1>3, StartOf, GptIs
<1>5. Putting(1, K)'
  BY <1>1, <1>4 DEF Putting, Put
<1>6. Parts = {"head", "array"} /\ Copies = {1, 2} /\ x.id \in Nat /\ {safe, shown} \subseteq Nat
      /\ At(1, "head").id \in Nat
  BY GptIs
<1>7. (\A p \in K : At(1, p).id <= current.id)'
  BY <1>1, <1>3, <1>6 DEF Lesser
<1>8. Known(current)' /\ Known(At(1, "head"))'
  BY <1>1, <1>3, <1>6 DEF Known, Lesser
<1>9. GptBackup(K)'
  BY <1>1, <1>3, <1>4, <1>5, <1>7, <1>8 DEF GptBackup
<1> QED BY <1>1, <1>9

(* Both tables are of the state that is safe.                               *)
LEMMA GptFinish ==
    ASSUME Common, fmt = "GPT", NEW T \in SUBSET Parts, GptFirst(T) \/ GptBackup(T), Finish, shown' = shown
    PROVE  GptFirst({})'
<1>1. /\ current' = current /\ fmt' = fmt /\ safe' = current.id /\ Idle /\ Idle' /\ Parts' = Parts
      /\ \A d, p : At(d, p)' = At(d, p)
  BY FinishKeeps
<1>2. Known(current) /\ \A c \in {1, 2}, p \in {"head", "array"} : At(c, p) = current
  BY <1>1, GptIdle
<1>3. Parts = {"head", "array"} /\ current.whole /\ current.id \in Nat
  BY GptIs
<1>4. Known(At(1, "head"))'
  BY <1>1, <1>2, <1>3 DEF Known
<1>5. Putting(2, {})'
  BY <1>1 DEF Putting, Idle
<1>6. (\A p \in Parts \ {} : At(2, p) = current)'
  BY <1>1, <1>2, <1>3
<1> QED BY <1>1, <1>2, <1>3, <1>4, <1>5, <1>6 DEF GptFirst, Idle

(* A table that is not of the state found is written anew.                  *)
LEMMA GptCrash ==
    ASSUME Common, fmt = "GPT", NEW T \in SUBSET Parts, GptFirst(T) \/ GptBackup(T), Crash, shown' = shown
    PROVE  \E S \in SUBSET Parts : (GptFirst(S) \/ GptBackup(S))'
<1> PICK x : x = Found
  OBVIOUS
<1> PICK K : K = Parts
  OBVIOUS
<1>1. /\ current' = x /\ fmt' = fmt /\ safe' = safe /\ Start(Mending(x)) /\ Parts' = K
      /\ \A d, p : At(d, p)' = At(d, p)
  BY CrashKeeps, GptFound
<1>2. /\ Table(1) => x = At(1, "head") /\ Known(At(1, "head"))
      /\ ~Table(1) => x = current /\ Known(current) /\ Table(2) /\ At(2, "head") = current
      /\ x.whole
  BY GptFound
<1>3. /\ Copies = {1, 2} /\ Parts = {"head", "array"} /\ current.id \in Nat
      /\ \A c, y : All(c, y) = {Put(c, p, y) : p \in Parts}
      /\ \A c \in Copies : /\ Table(c) <=> At(c, "head").whole /\ At(c, "array") = At(c, "head")
                           /\ Content(c) = IF Table(c) THEN At(c, "head") ELSE Blank
  BY GptIs
<1>4. Blank # x
  BY <1>2, PartIs
<1> PICK S : S = {c \in Copies : Content(c) # x}
  OBVIOUS
<1>5. Mending(x) = IF S # {} THEN <<UNION {All(c, x) : c \in S}>> ELSE <<>>
  BY DEF Mending, Mirrored
<1>6. Known(current)'
  BY <1>1, <1>2 DEF Known
<1>7. ASSUME NEW c, S = {c}
      PROVE  Putting(c, K)' /\ steps' = <<>>
  <2>1. UNION {All(d, x) : d \in S} = All(c, x)
    BY <1>7
  <2>2. flying' = All(c, x) /\ steps' = <<>>
    BY <1>1, <1>5, <1>7, <2>1, StartOf DEF Start
  <2>3. Putting(c, K)'
    BY <1>1, <1>3, <2>2 DEF Putting, Put
  <2> QED BY <2>2, <2>3
<1>8. CASE Table(1)
  <2>1. Content(1) = x /\ At(1, "head") = x /\ At(1, "array") = x
    BY <1>2, <1>3, <1>8
  <2>2. Known(At(1, "head"))'
    BY <1>1, <1>6, <2>1 DEF Known
  <2>3. CASE S = {}
    <3>1. flying' = {} /\ steps' = <<>>
      BY <1>1, <1>5, <2>3 DEF Start
    <3>2. Putting(2, {})'
      BY <3>1 DEF Putting
    <3>3. At(2, "head") = x /\ At(2, "array") = x
      BY <1>3, <1>4, <2>3
    <3>4. (\A p \in Parts \ {} : At(2, p) = current)'
      BY <1>1, <1>3, <3>3
    <3>5. GptFirst({})'
      BY <1>1, <1>2, <2>1, <2>2, <3>1, <3>2, <3>4 DEF GptFirst
    <3> QED BY <3>5
  <2>4. CASE S # {}
    <3>1. S = {2}
      BY <1>3, <2>1, <2>4
    <3>2. Putting(2, K)' /\ steps' = <<>>
      BY <1>7, <3>1
    <3>3. (\A p \in Parts \ K : At(2, p) = current)'
      BY <1>1
    <3>4. GptFirst(K)'
      BY <1>1, <1>2, <2>1, <2>2, <3>2, <3>3 DEF GptFirst
    <3> QED BY <1>1, <3>4
  <2> QED BY <2>3, <2>4
<1>9. CASE ~Table(1)
  <2>1. Content(1) = Blank /\ Content(2) = x /\ At(2, "head") = x /\ At(2, "array") = x
    BY <1>2, <1>3, <1>9
  <2>2. S = {1}
    BY <1>3, <1>4, <2>1
  <2>3. Putting(1, K)' /\ steps' = <<>>
    BY <1>7, <2>2
  <2>4. (\A p \in Parts \ K : At(1, p) = current)'
    BY <1>1
  <2>5. GptBackup(T)
    BY <1>3, <1>9 DEF GptFirst
  <2>6. \A p \in Parts : At(1, p).id <= current.id
    BY <1>3, <2>5 DEF GptBackup
  <2>7. (\A p \in K : At(1, p).id <= current.id)'
    BY <1>1, <1>2, <1>9, <2>6
  <2>8. ~Table(1)'
    BY <1>1, <1>9 DEF Table
  <2>9. GptBackup(K)'
    BY <1>1, <1>6, <2>1, <2>3, <2>4, <2>7, <2>8 DEF GptBackup
  <2> QED BY <1>1, <2>9
<1> QED BY <1>8, <1>9

(* What was shown may be shown again.                                       *)
LEMMA GptOpen ==
    ASSUME Common, fmt = "GPT", NEW T \in SUBSET Parts, GptFirst(T) \/ GptBackup(T), UNCHANGED writer,
           shown' \in {shown, State(Used)}
    PROVE  (GptFirst(T) \/ GptBackup(T))'
<1>1. /\ current' = current /\ safe' = safe /\ flying' = flying /\ steps' = steps /\ Parts' = Parts
      /\ \A d : All(d, current)' = All(d, current)
      /\ \A d, p : At(d, p)' = At(d, p)
  BY OpenLeaves
<1>2. /\ Copies = {1, 2} /\ Parts = {"head", "array"} /\ current.id \in Nat /\ {safe, shown} \subseteq Nat
      /\ At(1, "head").id \in Nat
      /\ Table(1) <=> At(1, "head").whole /\ At(1, "array") = At(1, "head")
  BY GptIs
<1>3. State(Used) = IF Table(1) THEN At(1, "head").id ELSE current.id
  BY GptFound
<1>4. \A c : Putting(c, T)' <=> Putting(c, T)
  BY <1>1 DEF Putting
<1>5. CASE GptFirst(T)
  <2>1. Known(At(1, "head"))'
    BY <1>1, <1>2, <1>3, <1>5 DEF GptFirst, Known
  <2>2. GptFirst(T)'
    BY <1>1, <1>4, <1>5, <2>1 DEF GptFirst, Lesser
  <2> QED BY <2>2
<1>6. CASE GptBackup(T)
  <2>1. At(1, "head").id <= current.id
    BY <1>2, <1>6 DEF GptBackup
  <2>2. Known(current)' /\ (Table(1) => Known(At(1, "head"))')
    BY <1>1, <1>2, <1>3, <1>6, <2>1 DEF GptBackup, Known
  <2>3. Table(1)' <=> Table(1)
    BY <1>1 DEF Table
  <2>4. (Table(1) => Known(At(1, "head")))'
    BY <2>2, <2>3
  <2>5. GptBackup(T)'
    BY <1>1, <1>4, <1>6, <2>2, <2>4 DEF GptBackup
  <2> QED BY <2>5
<1> QED BY <1>5, <1>6

(* The reader is shown a table whose header and array are of one state.     *)
LEMMA GptShows ==
    ASSUME Common, fmt = "GPT", GptInv
    PROVE  Shows /\ Flies /\ Finds
<1>1. PICK T \in SUBSET Parts : GptFirst(T) \/ GptBackup(T)
  BY DEF GptInv
<1>2. /\ Used # {} /\ State(Used) = Found.id /\ Finds /\ Flies /\ Found.id <= issued
      /\ Table(1) => Found = At(1, "head") /\ Known(At(1, "head"))
      /\ ~Table(1) => Found = current /\ Known(current)
  BY <1>1, GptFound
<1>3. 1 \in Copies /\ At(1, "head").id \in Nat /\ current.id \in Nat
  BY GptIs
<1> QED BY <1>2, <1>3 DEF Shows, Known

(* Every step keeps a backup while the primary is not a table.              *)
LEMMA GptStep ==
    ASSUME Common, fmt = "GPT", GptInv, WriterStep \/ ReaderStep
    PROVE  GptInv'
<1>1. PICK T \in SUBSET Parts : GptFirst(T) \/ GptBackup(T)
  BY DEF GptInv
<1>2. Parts' = Parts
  <2>1. fmt' = fmt
    BY DEF WriterStep, WriterNext, ReaderStep, writer, Begin, Flush, Finish, Crash, Land, Tear
  <2> QED BY <2>1, SameFormat
<1>3. \E S \in SUBSET Parts : (GptFirst(S) \/ GptBackup(S))'
  <2>1. CASE WriterStep /\ Begin
    BY <1>1, <2>1, GptBegin DEF WriterStep
  <2>2. CASE WriterStep /\ Flush
    <3>1. GptBackup(Parts)'
      BY <1>1, <2>2, GptFlush DEF WriterStep
    <3> PICK K : K = Parts
      OBVIOUS
    <3>2. GptBackup(K)'
      BY <1>2, <3>1
    <3> QED BY <3>2
  <2>3. CASE WriterStep /\ Finish
    BY <1>1, <2>3, GptFinish DEF WriterStep
  <2>4. CASE WriterStep /\ Crash
    BY <1>1, <2>4, GptCrash DEF WriterStep
  <2>5. CASE WriterStep /\ \E w \in flying : Land(w)
    BY <1>1, <2>5, GptLand DEF WriterStep
  <2>6. CASE WriterStep /\ \E w \in flying : Tear(w)
    BY <1>1, <2>6, GptTear DEF WriterStep
  <2>7. CASE ReaderStep
    BY <1>1, <2>7, GptOpen DEF ReaderStep
  <2> QED BY <2>1, <2>2, <2>3, <2>4, <2>5, <2>6, <2>7 DEF WriterStep, WriterNext
<1> QED BY <1>2, <1>3 DEF GptInv

-----------------------------------------------------------------------------
(* F2FS.                                                                    *)

(* A write of one part that lands leaves the others.                        *)
LEMMA PutLand ==
    ASSUME Common, NEW c \in Copies, NEW T \in SUBSET Parts, Putting(c, T), NEW w \in flying, Land(w)
    PROVE  \E q \in T :
              /\ \A d \in Copies, p \in Parts : At(d, p)' = IF d = c /\ p = q THEN current ELSE At(d, p)
              /\ Putting(c, T \ {q})'
<1>1. PICK q \in T : w = Put(c, q, current)
  BY DEF Putting
<1>2. /\ fmt' = fmt /\ current' = current /\ flying' = flying \ {w} /\ medium' = Written(w, w.part)
  BY DEF Land
<1>3. w.at = {<<c, q>>} /\ w.part = current
  BY <1>1 DEF Put
<1>4. medium \in [Copies \X Parts -> Part]
  BY DEF Common
<1>5. medium' = [at \in Copies \X Parts |-> IF at = <<c, q>> THEN current ELSE medium[at]]
  BY <1>2, <1>3, <1>4 DEF Written
<1>6. \A d \in Copies, p \in Parts : At(d, p)' = IF d = c /\ p = q THEN current ELSE At(d, p)
  BY <1>5 DEF At
<1>7. flying' = {Put(c, p, current) : p \in T \ {q}}
  BY <1>1, <1>2, PutOne DEF Putting
<1>8. Putting(c, T \ {q})'
  BY <1>2, <1>7 DEF Putting, Put
<1> QED BY <1>6, <1>8

(* The two packs of F2FS, and what one of their writes is.                  *)
LEMMA F2fsIs ==
    ASSUME Common, fmt = "F2FS", NEW c \in Copies
    PROVE  /\ Copies = {1, 2} /\ Parts = {"head", "body", "tail"} /\ Zero \notin Copies
           /\ 3 - c \in Copies /\ 3 - c # c /\ Copies = {c, 3 - c}
           /\ current.whole /\ current.id \in Nat /\ current.id <= issued /\ current.stamp \in Nat
           /\ {safe, shown} \subseteq Nat
           /\ \A d \in Copies, p \in Parts : /\ At(d, p).stamp \in Nat /\ At(d, p).id \in Nat
                                             /\ At(d, p).id <= issued
                                             /\ At(d, p).whole => At(d, p).stamp > 0
<1>1. 1..2 = {1, 2}
  OBVIOUS
<1>2. Copies = {1, 2} /\ Parts = {"head", "body", "tail"} /\ Zero \notin Copies
  BY <1>1 DEF Copies, Parts, Zero
<1>3. 3 - c \in Copies /\ 3 - c # c /\ Copies = {c, 3 - c}
  BY <1>2
<1>4. current.whole /\ current.id \in Nat /\ current.id <= issued /\ current.stamp \in Nat
      /\ {safe, shown} \subseteq Nat
  BY PartIs DEF Common
<1>5. \A d \in Copies, p \in Parts : /\ At(d, p).stamp \in Nat /\ At(d, p).id \in Nat
                                     /\ At(d, p).id <= issued
                                     /\ At(d, p).whole => At(d, p).stamp > 0
  <2> TAKE d \in Copies, p \in Parts
  <2>1. issued \in Nat
    BY DEF Common
  <2> QED BY <2>1, AtIs
<1> QED BY <1>2, <1>3, <1>4, <1>5

(* What the other pack holds is not newer than its last block.              *)
LEMMA F2fsFound ==
    ASSUME Common, fmt = "F2FS", NEW c \in Copies, F2fsAt(c)
    PROVE  /\ Found = At(c, "head") /\ Content(c) = At(c, "head") /\ Content(3 - c) # At(c, "head")
           /\ Finds /\ Flies
           /\ Used # {} /\ State(Used) = At(c, "head").id
<1> PICK o : o = 3 - c
  OBVIOUS
<1> PICK y : y = At(c, "head")
  OBVIOUS
<1>1. /\ Copies = {1, 2} /\ Parts = {"head", "body", "tail"} /\ o \in Copies /\ o # c /\ Copies = {c, o}
      /\ \A d \in Copies, p \in Parts : At(d, p).stamp \in Nat /\ (At(d, p).whole => At(d, p).stamp > 0)
  BY F2fsIs
<1>2. /\ y.whole /\ \A p \in Parts : At(c, p) = y
      /\ At(o, "tail").stamp < y.stamp
  BY DEF F2fsAt, Lesser
<1>3. y.stamp \in Nat /\ y.stamp > 0 /\ "head" \in Parts /\ "tail" \in Parts
  BY <1>1, <1>2
<1>4. Content(c) = y
  <2>1. fmt \notin {"LVM", "UBIFS"}
    OBVIOUS
  <2>2. ~(Content(c) = Blank /\ \A z : z.whole => \E p \in Parts : At(c, p) # z)
    BY <1>2
  <2>3. \A p \in Parts : At(c, p) = Content(c)
    BY <2>1, <2>2, ContentIs
  <2> QED BY <1>2, <1>3, <2>3
<1>5. Content(o) = Blank \/ Content(o) = At(o, "tail")
  BY <1>1, <1>3, ContentIs
<1>6. Content(o).stamp \in Nat /\ Content(o).stamp < y.stamp
  BY <1>1, <1>2, <1>3, <1>5, PartIs
<1>7. Found = y
  <2>1. \A d \in Copies : Content(d) = Content(c)
                          \/ (Content(d).stamp \in Nat /\ Content(d).stamp < Content(c).stamp)
    BY <1>1, <1>4, <1>6
  <2>2. ~(fmt \in {"GPT", "Btrfs", "UBItable"} /\ Content(1) # Blank)
    OBVIOUS
  <2>3. Content(c).stamp \in Nat
    BY <1>3, <1>4
  <2>4. Found = Content(c)
    BY <2>1, <2>2, <2>3, FoundIs
  <2> QED BY <1>4, <2>4
<1>8. Finds
  BY <1>2, <1>3, <1>7 DEF Finds
<1>9. Flies
  <2>1. flying = {} \/ (\E T \in SUBSET {"head", "body"} : Putting(o, T)) \/ flying = {Put(o, "tail", current)}
    BY DEF F2fsAt, Idle, Then
  <2> QED BY <1>1, <2>1 DEF Flies, Putting, Put
<1> PICK packs : packs = {d \in Copies : At(d, "head").stamp # 0 /\ At(d, "head").stamp = At(d, "tail").stamp}
  OBVIOUS
<1>10. c \in packs /\ \A d \in packs : At(d, "head").stamp <= y.stamp /\ (At(d, "head").stamp = y.stamp => d = c)
  BY <1>1, <1>2, <1>3
<1>11. Greatest(packs, "head") = c
  <2>1. packs \in SUBSET Copies /\ "head" \in Parts /\ At(c, "head").stamp = y.stamp
    BY <1>3
  <2>2. /\ Greatest(packs, "head") \in packs
        /\ At(Greatest(packs, "head"), "head").stamp = At(c, "head").stamp
    BY <1>10, <2>1, GreatestIs
  <2> QED BY <1>10, <2>1, <2>2
<1>12. Used = {c} \X {"head", "body"}
  <2>1. Used = IF packs = {} THEN {} ELSE {Greatest(packs, "head")} \X {"head", "body"}
    BY DEF Used, ReadF2fs
  <2> QED BY <1>10, <1>11, <2>1
<1>13. Used # {} /\ \A at \in Used : medium[at] = y
  BY <1>1, <1>2, <1>12 DEF At
<1>14. State(Used) = y.id
  BY <1>13, StateIs
<1>15. Content(o) # y
  BY <1>6
<1> QED BY <1>4, <1>7, <1>8, <1>9, <1>13, <1>14, <1>15

(* A new checkpoint goes into the pack that is not the newest.              *)
LEMMA F2fsBegin ==
    ASSUME Common, fmt = "F2FS", NEW c \in Copies, F2fsAt(c), Begin, shown' = shown
    PROVE  F2fsAt(c)'
<1> PICK o : o = 3 - c
  OBVIOUS
<1> PICK x : x = current'
  OBVIOUS
<1>1. /\ fmt' = fmt /\ safe' = safe /\ Start(Plan(x)) /\ flying = {} /\ steps = <<>> /\ Parts' = Parts
      /\ Lesser(current, x) /\ \A d, p : At(d, p)' = At(d, p)
  BY BeginKeeps
<1>2. <<{Put(o, "tail", current)}>> # <<>>
  BY StartOf
<1>3. /\ At(c, "head").whole /\ (\A p \in Parts : At(c, p) = At(c, "head"))
      /\ Known(At(c, "head")) /\ Lesser(At(o, "tail"), At(c, "head"))
      /\ current = At(c, "head")
  BY <1>1, <1>2 DEF F2fsAt, Then, Idle
<1>4. Plan(x) = <<{Put(o, "head", x), Put(o, "body", x)}, {Put(o, "tail", x)}>>
  <2>1. /\ Copies = {c, o} /\ Zero \notin Copies
        /\ Content(c) = current /\ Content(o) # current
    BY <1>3, F2fsIs, F2fsFound
  <2>2. (CHOOSE d \in Copies \ {Zero} : Content(d) # current) = o
    BY <2>1
  <2> QED BY <2>2 DEF Plan
<1>5. flying' = {Put(o, "head", x), Put(o, "body", x)} /\ steps' = <<{Put(o, "tail", x)}>>
  BY <1>1, <1>4, StartOf DEF Start
<1> PICK T : T = {"head", "body"}
  OBVIOUS
<1>6. Putting(o, T)' /\ (steps = <<{Put(o, "tail", current)}>>)'
  <2>1. flying' = {Put(o, p, x) : p \in T}
    BY <1>5
  <2> QED BY <1>5, <2>1 DEF Putting, Put
<1>7. (\E S \in SUBSET {"head", "body"} :
                /\ Putting(o, S) /\ steps = <<{Put(o, "tail", current)}>>
                /\ \A p \in {"head", "body"} \ S : At(o, p) = current)'
  BY <1>6
<1>8. (/\ At(c, "head").whole /\ (\A p \in Parts : At(c, p) = At(c, "head"))
       /\ Known(At(c, "head")) /\ Lesser(At(o, "tail"), At(c, "head"))
       /\ Lesser(At(c, "head"), current))'
  BY <1>1, <1>3 DEF Known, Lesser
<1> QED BY <1>7, <1>8 DEF F2fsAt

(* Its tail is written when head and body have been.                        *)
LEMMA F2fsLand ==
    ASSUME Common, fmt = "F2FS", NEW c \in Copies, F2fsAt(c), NEW w \in flying, Land(w), shown' = shown
    PROVE  F2fsAt(c)' \/ F2fsAt(3 - c)'
<1> PICK o : o = 3 - c
  OBVIOUS
<1> PICK y : y = At(c, "head")
  OBVIOUS
<1>1. /\ Copies = {1, 2} /\ Parts = {"head", "body", "tail"} /\ o \in Copies /\ o # c
      /\ current.id \in Nat /\ {safe, shown} \subseteq Nat /\ current.whole
      /\ y.id \in Nat
  BY F2fsIs
<1>2. /\ fmt' = fmt /\ current' = current /\ safe' = safe /\ steps' = steps /\ Parts' = Parts
  BY SameFormat DEF Land
<1>3. /\ y.whole /\ (\A p \in Parts : At(c, p) = y) /\ Known(y) /\ Lesser(At(o, "tail"), y)
      /\ \/ Idle /\ current = y
         \/ /\ Lesser(y, current)
            /\ \E T \in SUBSET {"head", "body"} :
                  /\ Putting(o, T) /\ steps = <<{Put(o, "tail", current)}>>
                  /\ \A p \in {"head", "body"} \ T : At(o, p) = current
         \/ /\ Lesser(y, current) /\ Then({Put(o, "tail", current)}, <<>>)
            /\ At(o, "head") = current /\ At(o, "body") = current
  BY DEF F2fsAt
<1>4. ASSUME Lesser(y, current), NEW T \in SUBSET {"head", "body"}, Putting(o, T),
             steps = <<{Put(o, "tail", current)}>>,
             \A p \in {"head", "body"} \ T : At(o, p) = current
      PROVE  F2fsAt(c)'
  <2>1. T \in SUBSET Parts
    BY <1>1
  <2>2. PICK q \in T : /\ \A d \in Copies, p \in Parts : At(d, p)' = IF d = o /\ p = q THEN current ELSE At(d, p)
                       /\ Putting(o, T \ {q})'
    BY <1>1, <1>4, <2>1, PutLand
  <2>3. (\A p \in Parts : At(c, p)' = y) /\ At(o, "tail")' = At(o, "tail") /\ "head" \in Parts
    BY <1>1, <1>3, <2>2
  <2>4. \A p \in {"head", "body"} \ (T \ {q}) : At(o, p)' = current
    BY <1>1, <1>4, <2>2
  <2>5. (/\ Putting(o, T \ {q}) /\ steps = <<{Put(o, "tail", current)}>>
         /\ \A p \in {"head", "body"} \ (T \ {q}) : At(o, p) = current)'
    BY <1>2, <1>4, <2>2, <2>4 DEF Put
  <2>6. (\E S \in SUBSET {"head", "body"} :
                /\ Putting(o, S) /\ steps = <<{Put(o, "tail", current)}>>
                /\ \A p \in {"head", "body"} \ S : At(o, p) = current)'
    BY <2>5
  <2>7. (/\ At(c, "head").whole /\ (\A p \in Parts : At(c, p) = At(c, "head"))
         /\ Known(At(c, "head")) /\ Lesser(At(o, "tail"), At(c, "head"))
         /\ Lesser(At(c, "head"), current))'
    BY <1>2, <1>3, <1>4, <2>3 DEF Known, Lesser
  <2> QED BY <2>6, <2>7 DEF F2fsAt
<1>5. ASSUME Lesser(y, current), Then({Put(o, "tail", current)}, <<>>),
             At(o, "head") = current, At(o, "body") = current
      PROVE  F2fsAt(o)'
  <2> PICK K : K = {"tail"}
    OBVIOUS
  <2>1. Putting(o, K) /\ K \in SUBSET Parts
    BY <1>1, <1>5 DEF Putting, Then
  <2>2. PICK q \in K : /\ \A d \in Copies, p \in Parts : At(d, p)' = IF d = o /\ p = q THEN current ELSE At(d, p)
                       /\ Putting(o, K \ {q})'
    BY <1>1, <2>1, PutLand
  <2>3. (\A p \in Parts : At(o, p)' = current) /\ At(c, "tail")' = y /\ 3 - o = c /\ "head" \in Parts
    BY <1>1, <1>3, <1>5, <2>2, F2fsIs
  <2>4. Idle'
    BY <1>2, <1>5, <2>2 DEF Idle, Then, Putting
  <2>5. Known(current)'
    BY <1>1, <1>2, <1>3, <1>5 DEF Known, Lesser
  <2>6. (/\ At(o, "head").whole /\ (\A p \in Parts : At(o, p) = At(o, "head"))
         /\ Known(At(o, "head")) /\ Lesser(At(3 - o, "tail"), At(o, "head")) /\ current = At(o, "head"))'
    BY <1>1, <1>2, <1>5, <2>3, <2>5 DEF Known, Lesser
  <2> QED BY <2>4, <2>6 DEF F2fsAt
<1>6. flying # {}
  OBVIOUS
<1> QED BY <1>3, <1>4, <1>5, <1>6 DEF Idle

(* The tail is begun when nothing else of the pack is under way.            *)
LEMMA F2fsFlush ==
    ASSUME Common, fmt = "F2FS", NEW c \in Copies, F2fsAt(c), Flush, shown' = shown
    PROVE  F2fsAt(c)'
<1> PICK o : o = 3 - c
  OBVIOUS
<1> PICK x : x = current
  OBVIOUS
<1>1. /\ current' = x /\ fmt' = fmt /\ safe' = safe /\ Parts' = Parts
      /\ flying = {} /\ steps # <<>> /\ flying' = Head(steps) /\ steps' = Tail(steps)
      /\ \A d, p : At(d, p)' = At(d, p)
  BY FlushKeeps
<1>2. /\ Lesser(At(c, "head"), x)
      /\ \E T \in SUBSET {"head", "body"} :
            /\ Putting(o, T) /\ steps = <<{Put(o, "tail", x)}>>
            /\ \A p \in {"head", "body"} \ T : At(o, p) = x
  BY <1>1 DEF F2fsAt, Idle, Then
<1>3. /\ At(c, "head").whole /\ (\A p \in Parts : At(c, p) = At(c, "head"))
      /\ Known(At(c, "head")) /\ Lesser(At(o, "tail"), At(c, "head"))
  BY DEF F2fsAt
<1>4. steps = <<{Put(o, "tail", x)}>> /\ At(o, "head") = x /\ At(o, "body") = x
  BY <1>1, <1>2 DEF Putting
<1>5. flying' = {Put(o, "tail", x)} /\ steps' = <<>>
  BY <1>1, <1>4, StartOf
<1>6. (Then({Put(o, "tail", current)}, <<>>) /\ At(o, "head") = current /\ At(o, "body") = current)'
  BY <1>1, <1>4, <1>5 DEF Then, Put
<1>7. (/\ At(c, "head").whole /\ (\A p \in Parts : At(c, p) = At(c, "head"))
       /\ Known(At(c, "head")) /\ Lesser(At(o, "tail"), At(c, "head"))
       /\ Lesser(At(c, "head"), current))'
  BY <1>1, <1>2, <1>3 DEF Known, Lesser
<1> QED BY <1>6, <1>7 DEF F2fsAt

(* With nothing under way the pack is of the state made last.               *)
LEMMA F2fsRest ==
    ASSUME Common, fmt = "F2FS", NEW c \in Copies, F2fsAt(c),
           Idle', current' = At(c, "head"), Known(At(c, "head"))',
           \A d, p : At(d, p)' = At(d, p), Parts' = Parts
    PROVE  F2fsAt(c)'
<1>1. /\ At(c, "head").whole /\ (\A p \in Parts : At(c, p) = At(c, "head"))
      /\ Lesser(At(3 - c, "tail"), At(c, "head"))
  BY DEF F2fsAt
<1>2. (/\ At(c, "head").whole /\ (\A p \in Parts : At(c, p) = At(c, "head"))
       /\ Known(At(c, "head")) /\ Lesser(At(3 - c, "tail"), At(c, "head"))
       /\ Idle /\ current = At(c, "head"))'
  BY <1>1 DEF Lesser
<1> QED BY <1>2 DEF F2fsAt

(* What becomes safe is what the newest pack holds.                         *)
LEMMA F2fsFinish ==
    ASSUME Common, fmt = "F2FS", NEW c \in Copies, F2fsAt(c), Finish, shown' = shown
    PROVE  F2fsAt(c)'
<1>1. /\ current' = current /\ safe' = current.id /\ Idle /\ Idle' /\ Parts' = Parts
      /\ \A d, p : At(d, p)' = At(d, p)
  BY FinishKeeps
<1>2. <<{Put(3 - c, "tail", current)}>> # <<>>
  BY StartOf
<1>3. current = At(c, "head") /\ Known(current)
  BY <1>1, <1>2 DEF F2fsAt, Idle, Then
<1>4. Known(At(c, "head"))'
  BY <1>1, <1>3, F2fsIs DEF Known
<1> QED BY <1>1, <1>3, <1>4, F2fsRest

(* A pack whose tail was not written is not gone on from.                   *)
LEMMA F2fsCrash ==
    ASSUME Common, fmt = "F2FS", NEW c \in Copies, F2fsAt(c), Crash, shown' = shown
    PROVE  F2fsAt(c)'
<1> PICK x : x = Found
  OBVIOUS
<1>1. /\ current' = x /\ safe' = safe /\ Start(Mending(x)) /\ Parts' = Parts
      /\ \A d, p : At(d, p)' = At(d, p)
  BY CrashKeeps, F2fsFound
<1>2. Mending(x) = <<>>
  BY DEF Mending, Mirrored
<1>3. Idle'
  BY <1>1, <1>2 DEF Start, Idle
<1>4. x = At(c, "head")
  BY F2fsFound
<1>5. Known(At(c, "head"))'
  BY <1>1 DEF F2fsAt, Known
<1> QED BY <1>1, <1>3, <1>4, <1>5, F2fsRest

(* What was shown may be shown again.                                       *)
LEMMA F2fsOpen ==
    ASSUME Common, fmt = "F2FS", NEW c \in Copies, F2fsAt(c), UNCHANGED writer, shown' \in {shown, State(Used)}
    PROVE  F2fsAt(c)'
<1> PICK o : o = 3 - c
  OBVIOUS
<1>1. /\ current' = current /\ safe' = safe /\ flying' = flying /\ steps' = steps /\ Parts' = Parts
      /\ \A d, p : At(d, p)' = At(d, p)
  BY OpenLeaves
<1>2. State(Used) = At(c, "head").id
  BY F2fsFound
<1>3. At(c, "head").id \in Nat /\ {safe, shown} \subseteq Nat
  BY F2fsIs
<1>4. Known(At(c, "head"))'
  BY <1>1, <1>2, <1>3 DEF F2fsAt, Known
<1>5. /\ At(c, "head").whole /\ (\A p \in Parts : At(c, p) = At(c, "head"))
      /\ Lesser(At(o, "tail"), At(c, "head"))
  BY DEF F2fsAt
<1>6. (/\ At(c, "head").whole /\ (\A p \in Parts : At(c, p) = At(c, "head"))
       /\ Known(At(c, "head")) /\ Lesser(At(o, "tail"), At(c, "head")))'
  BY <1>1, <1>4, <1>5 DEF Lesser
<1>7. CASE Idle /\ current = At(c, "head")
  <2>1. (Idle /\ current = At(c, "head"))'
    BY <1>1, <1>7 DEF Idle
  <2> QED BY <1>6, <2>1 DEF F2fsAt
<1>8. CASE /\ Lesser(At(c, "head"), current)
           /\ \E T \in SUBSET {"head", "body"} :
                /\ Putting(o, T) /\ steps = <<{Put(o, "tail", current)}>>
                /\ \A p \in {"head", "body"} \ T : At(o, p) = current
  <2>1. PICK T \in SUBSET {"head", "body"} :
                /\ Putting(o, T) /\ steps = <<{Put(o, "tail", current)}>>
                /\ \A p \in {"head", "body"} \ T : At(o, p) = current
    BY <1>8
  <2>2. (/\ Putting(o, T) /\ steps = <<{Put(o, "tail", current)}>>
         /\ \A p \in {"head", "body"} \ T : At(o, p) = current)'
    BY <1>1, <2>1 DEF Putting, Put
  <2>3. (Lesser(At(c, "head"), current))'
    BY <1>1, <1>8 DEF Lesser
  <2> QED BY <1>6, <2>2, <2>3 DEF F2fsAt
<1>9. CASE /\ Lesser(At(c, "head"), current) /\ Then({Put(o, "tail", current)}, <<>>)
           /\ At(o, "head") = current /\ At(o, "body") = current
  <2>1. (/\ Lesser(At(c, "head"), current) /\ Then({Put(o, "tail", current)}, <<>>)
         /\ At(o, "head") = current /\ At(o, "body") = current)'
    BY <1>1, <1>9 DEF Lesser, Then, Put
  <2> QED BY <1>6, <2>1 DEF F2fsAt
<1> QED BY <1>7, <1>8, <1>9 DEF F2fsAt

(* The reader is shown the pack whose three blocks are of one state.        *)
LEMMA F2fsShows ==
    ASSUME Common, fmt = "F2FS", F2fsInv
    PROVE  Shows /\ Flies /\ Finds
<1>1. PICK c \in Copies : F2fsAt(c)
  BY DEF F2fsInv
<1>2. Used # {} /\ State(Used) = At(c, "head").id /\ Finds /\ Flies
  BY <1>1, F2fsFound
<1>3. At(c, "head").id \in Nat /\ At(c, "head").id <= issued
  BY F2fsIs
<1>4. Known(At(c, "head"))
  BY <1>1 DEF F2fsAt
<1> QED BY <1>2, <1>3, <1>4 DEF Shows, Known

(* Every step keeps one pack whole, on a medium that tears no block.        *)
LEMMA F2fsStep ==
    ASSUME Common, fmt = "F2FS", F2fsInv, "F2FS" \in Untorn, WriterStep \/ ReaderStep
    PROVE  F2fsInv'
<1>1. PICK c \in Copies : F2fsAt(c)
  BY DEF F2fsInv
<1>2. fmt' = fmt /\ Copies' = Copies
  <2>1. fmt' = fmt
    BY DEF WriterStep, WriterNext, ReaderStep, writer, Begin, Flush, Finish, Crash, Land, Tear
  <2> QED BY <2>1, SameFormat
<1>3. \E d \in Copies : F2fsAt(d)'
  <2>1. CASE WriterStep /\ Begin
    BY <1>1, <2>1, F2fsBegin DEF WriterStep
  <2>2. CASE WriterStep /\ Flush
    BY <1>1, <2>2, F2fsFlush DEF WriterStep
  <2>3. CASE WriterStep /\ Finish
    BY <1>1, <2>3, F2fsFinish DEF WriterStep
  <2>4. CASE WriterStep /\ Crash
    BY <1>1, <2>4, F2fsCrash DEF WriterStep
  <2>5. CASE WriterStep /\ \E w \in flying : Land(w)
    <3>1. F2fsAt(c)' \/ F2fsAt(3 - c)'
      BY <1>1, <2>5, F2fsLand DEF WriterStep
    <3>2. 3 - c \in Copies
      BY F2fsIs
    <3> QED BY <3>1, <3>2
  <2>6. CASE WriterStep /\ \E w \in flying : Tear(w)
    BY <2>6 DEF Tear, AtOnce
  <2>7. CASE ReaderStep
    BY <1>1, <2>7, F2fsOpen DEF ReaderStep
  <2> QED BY <2>1, <2>2, <2>3, <2>4, <2>5, <2>6, <2>7 DEF WriterStep, WriterNext
<1> QED BY <1>2, <1>3 DEF F2fsInv

-----------------------------------------------------------------------------
(* LVM.                                                                     *)

(* A write of one part, landed and torn.                                    *)
LEMMA OneLand ==
    ASSUME Common, NEW c \in Copies, NEW q \in Parts, NEW w, w = Put(c, q, current), Land(w)
    PROVE  \A d \in Copies, p \in Parts : At(d, p)' = IF d = c /\ p = q THEN current ELSE At(d, p)
<1>1. w.at = {<<c, q>>} /\ w.part = current /\ medium' = Written(w, w.part)
  BY DEF Put, Land
<1>2. medium \in [Copies \X Parts -> Part]
  BY DEF Common
<1>3. medium' = [at \in Copies \X Parts |-> IF at = <<c, q>> THEN current ELSE medium[at]]
  BY <1>1, <1>2 DEF Written
<1> QED BY <1>3 DEF At

(* The only write under way is torn.                                        *)
LEMMA OneTear ==
    ASSUME Common, NEW c \in Copies, NEW q \in Parts, NEW w, w = Put(c, q, current), Tear(w)
    PROVE  \E y : /\ ~y.whole /\ y.id = 0 /\ y.stamp \in {At(c, q).stamp, current.stamp}
                  /\ \A d \in Copies, p \in Parts : At(d, p)' = IF d = c /\ p = q THEN y ELSE At(d, p)
<1>1. /\ w.at = {<<c, q>>} /\ w.part = current
      /\ \E s \in {medium[at].stamp : at \in w.at} \cup {w.part.stamp} :
            medium' = Written(w, [id |-> 0, stamp |-> s, whole |-> FALSE])
  BY DEF Put, Tear
<1>2. PICK s : /\ s \in {At(c, q).stamp, current.stamp}
               /\ medium' = Written(w, [id |-> 0, stamp |-> s, whole |-> FALSE])
  BY <1>1 DEF At
<1>3. medium \in [Copies \X Parts -> Part]
  BY DEF Common
<1>4. ASSUME NEW y, medium' = Written(w, y)
      PROVE  \A d \in Copies, p \in Parts : At(d, p)' = IF d = c /\ p = q THEN y ELSE At(d, p)
  <2>1. medium' = [at \in Copies \X Parts |-> IF at = <<c, q>> THEN y ELSE medium[at]]
    BY <1>1, <1>3, <1>4 DEF Written
  <2> QED BY <2>1 DEF At
<1> PICK y : y = [id |-> 0, stamp |-> s, whole |-> FALSE]
  OBVIOUS
<1>5. ~y.whole /\ y.id = 0 /\ y.stamp = s /\ medium' = Written(w, y)
  BY <1>2
<1> QED BY <1>2, <1>4, <1>5

(* The two areas of LVM, and what one of their writes is.                   *)
LEMMA LvmIs ==
    ASSUME Common, fmt = "LVM"
    PROVE  /\ Copies = {1, 2} /\ Parts = {"head", "text1", "text2"} /\ Texts \subseteq Parts
           /\ current.whole /\ current.id \in Nat /\ current.id > 0 /\ current.id <= issued /\ current.stamp \in Nat
           /\ {safe, shown} \subseteq Nat
           /\ \A d \in Copies, p \in Parts : /\ At(d, p).stamp \in Nat /\ At(d, p).id \in Nat
                                             /\ At(d, p).id <= issued
                                             /\ At(d, p).whole <=> At(d, p).id > 0
                                             /\ At(d, p).whole \in BOOLEAN
<1>1. 1..2 = {1, 2}
  OBVIOUS
<1>2. Copies = {1, 2} /\ Parts = {"head", "text1", "text2"}
  BY <1>1 DEF Copies, Parts
<1>3. /\ current.whole /\ current.id \in Nat /\ current.id > 0 /\ current.id <= issued /\ current.stamp \in Nat
      /\ {safe, shown} \subseteq Nat
  BY PartIs DEF Common
<1>4. \A d \in Copies, p \in Parts : /\ At(d, p).stamp \in Nat /\ At(d, p).id \in Nat
                                     /\ At(d, p).id <= issued
                                     /\ At(d, p).whole <=> At(d, p).id > 0
                                     /\ At(d, p).whole \in BOOLEAN
  <2> TAKE d \in Copies, p \in Parts
  <2>1. issued \in Nat
    BY DEF Common
  <2> QED BY <2>1, AtIs
<1> QED BY <1>2, <1>3, <1>4 DEF Texts

(* Of the texts of an area one is its header's and the other is spare.      *)
LEMMA SpareIs ==
    ASSUME NEW c, Area(c)
    PROVE  /\ Spare(c) \in Texts /\ At(c, Spare(c)).id # At(c, "head").id
           /\ At(c, "head").whole
           /\ \A p \in Texts : p # Spare(c) => At(c, p) = At(c, "head")
<1>1. PICK p, q \in Texts : At(c, p) = At(c, "head") /\ At(c, q).id # At(c, "head").id
  BY DEF Area
<1>2. p # q
  BY <1>1
<1>3. Spare(c) = q
  BY <1>1, <1>2 DEF Spare, Texts
<1> QED BY <1>1, <1>2, <1>3 DEF Texts, Area

(* The spare text of an area is known from the one its header does not      *)
(* name.                                                                    *)
LEMMA SpareNext ==
    ASSUME NEW c, NEW q \in Texts, At(c, "head")'.whole, At(c, q)'.id # At(c, "head")'.id,
           \A p \in Texts : p # q => At(c, p)' = At(c, "head")'
    PROVE  Spare(c)' = q /\ Area(c)'
<1>1. PICK p \in Texts : p # q
  BY DEF Texts
<1>2. Spare(c)' = q
  BY <1>1 DEF Spare, Texts
<1>3. Area(c)'
  BY <1>1 DEF Area
<1> QED BY <1>2, <1>3

(* An area whose parts are not written keeps its spare text.                *)
LEMMA SpareKept ==
    ASSUME NEW c, \A p \in Texts \cup {"head"} : At(c, p)' = At(c, p)
    PROVE  Spare(c)' = Spare(c) /\ Area(c)' = Area(c)
<1>1. Spare(c)' = Spare(c)
  BY DEF Spare
<1>2. Area(c)' = Area(c)
  BY DEF Area
<1> QED BY <1>1, <1>2

(* What is read, and found again, is what the first area's header names.    *)
LEMMA LvmFound ==
    ASSUME Common, fmt = "LVM", LvmAreas
    PROVE  /\ Found = At(1, "head") /\ Finds /\ Used # {} /\ State(Used) = At(1, "head").id
<1> PICK h : h = At(1, "head")
  OBVIOUS
<1>1. /\ Copies = {1, 2} /\ Parts = {"head", "text1", "text2"}
      /\ \A d \in Copies, p \in Parts : At(d, p).stamp \in Nat
  BY LvmIs
<1>2. /\ \A c \in Copies : Area(c)
      /\ At(2, "head") = h \/ At(2, "head").stamp < h.stamp
  BY <1>1 DEF LvmAreas, Lesser
<1>3. ASSUME NEW c \in Copies
      PROVE  /\ {p \in {"text1", "text2"} : At(c, p).whole /\ At(c, p).id = At(c, "head").id} # {}
             /\ \A p \in {"text1", "text2"} : At(c, p).id = At(c, "head").id => At(c, p) = At(c, "head")
             /\ At(c, "head").whole
  <2>1. PICK q \in Texts : q # Spare(c)
    BY DEF Texts
  <2> QED BY <1>2, <2>1, SpareIs DEF Texts
<1>4. ASSUME NEW c \in Copies
      PROVE  Content(c) = At(c, "head")
  <2> PICK S : S = {p \in {"text1", "text2"} : At(c, p).whole /\ At(c, p).id = At(c, "head").id}
    OBVIOUS
  <2>1. {At(c, p) : p \in S} = {At(c, "head")}
    BY <1>3
  <2>2. Content(c) = CHOOSE x \in {At(c, p) : p \in S} : TRUE
    BY <1>3, <2>1 DEF Content, At
  <2> QED BY <2>1, <2>2
<1>5. Found = h
  <2>1. \A d \in Copies : Content(d) = Content(1)
                          \/ (Content(d).stamp \in Nat /\ Content(d).stamp < Content(1).stamp)
    BY <1>1, <1>2, <1>4
  <2>2. ~(fmt \in {"GPT", "Btrfs", "UBItable"} /\ Content(1) # Blank)
    OBVIOUS
  <2>3. 1 \in Copies /\ Content(1).stamp \in Nat
    BY <1>1, <1>4
  <2>4. Found = Content(1)
    BY <2>1, <2>2, <2>3, FoundIs
  <2> QED BY <1>1, <1>4, <2>4
<1>6. Finds
  BY <1>1, <1>3, <1>5 DEF Finds
<1> PICK g : g = Greatest(Copies, "head")
  OBVIOUS
<1>7. g \in Copies /\ At(g, "head") = h
  <2>1. Copies \in SUBSET Copies /\ "head" \in Parts /\ 1 \in Copies
        /\ \A d \in Copies : At(d, "head").stamp <= At(1, "head").stamp
    BY <1>1, <1>2
  <2>2. g \in Copies /\ At(g, "head").stamp = h.stamp
    BY <2>1, GreatestIs
  <2> QED BY <1>1, <1>2, <2>1, <2>2
<1> PICK S : S = {p \in {"text1", "text2"} : At(g, p).whole /\ At(g, p).id = At(g, "head").id}
  OBVIOUS
<1>8. Used = {g} \X S
  <2>1. {c \in Copies : /\ At(c, "head").whole
                        /\ {p \in {"text1", "text2"} : At(c, p).whole /\ At(c, p).id = At(c, "head").id} # {}} = Copies
    BY <1>3
  <2> QED BY <1>1, <2>1 DEF Used, ReadLvm
<1>9. Used # {} /\ \A at \in Used : medium[at] = h
  <2>1. S # {} /\ \A p \in S : At(g, p) = h
    BY <1>3, <1>7
  <2>2. ASSUME NEW at \in Used
        PROVE  medium[at] = h
    <3>1. PICK p \in S : at = <<g, p>>
      BY <1>8
    <3>2. At(g, p) = h
      BY <2>1
    <3> QED BY <3>1, <3>2 DEF At
  <2>3. Used # {}
    <3>1. PICK p \in S : TRUE
      BY <2>1
    <3>2. <<g, p>> \in Used
      BY <1>8
    <3> QED BY <3>2
  <2> QED BY <2>2, <2>3
<1>10. State(Used) = h.id
  BY <1>9, StateIs
<1> QED BY <1>5, <1>6, <1>9, <1>10

(* What an LVM writer has under way is of the metadata being made.          *)
LEMMA LvmFlies ==
    ASSUME Common, fmt = "LVM", LvmAreas,
           LvmRest \/ (\E T \in SUBSET Copies : LvmTexts(T)) \/ LvmFirst \/ LvmSecond
    PROVE  Flies
<1>1. Copies = {1, 2} /\ Parts = {"head", "text1", "text2"} /\ Texts \subseteq Parts
  BY LvmIs
<1>2. \A c \in Copies : Spare(c) \in Parts
  BY <1>1, SpareIs DEF LvmAreas
<1>3. \A w \in flying : \E c \in Copies, p \in Parts : w = Put(c, p, current)
  BY <1>1, <1>2 DEF LvmRest, LvmTexts, LvmFirst, LvmSecond, Idle, Then
<1>4. \A c \in Copies, p \in Parts :
         Put(c, p, current).part = current /\ Put(c, p, current).at \subseteq Copies \X Parts
  BY DEF Put
<1> QED BY <1>3, <1>4 DEF Flies

(* When the medium is not written the areas stay as they are.               *)
LEMMA LvmKept ==
    ASSUME LvmAreas, \A d, p : At(d, p)' = At(d, p), Known(At(1, "head"))'
    PROVE  LvmAreas' /\ \A c : Spare(c)' = Spare(c)
<1>1. \A c : Spare(c)' = Spare(c)
  BY SpareKept
<1>2. Area(1)' = Area(1) /\ Area(2)' = Area(2)
  BY SpareKept
<1> QED BY <1>1, <1>2 DEF LvmAreas, Lesser

(* New metadata goes into the spare text of each area.                      *)
LEMMA LvmBegin ==
    ASSUME Common, fmt = "LVM", LvmAreas,
           LvmRest \/ (\E T \in SUBSET Copies : LvmTexts(T)) \/ LvmFirst \/ LvmSecond,
           Begin, shown' = shown
    PROVE  LvmAreas' /\ \E T \in SUBSET Copies : LvmTexts(T)'
<1> PICK x : x = current'
  OBVIOUS
<1> PICK K : K = Copies
  OBVIOUS
<1>1. /\ fmt' = fmt /\ safe' = safe /\ Start(Plan(x)) /\ flying = {} /\ steps = <<>> /\ Copies' = K
      /\ Lesser(current, x) /\ \A d, p : At(d, p)' = At(d, p)
  BY BeginKeeps
<1>2. current = At(1, "head")
  <2>1. <<{Put(1, "head", current)}, {Put(2, "head", current)}>> # <<>> /\ <<{Put(2, "head", current)}>> # <<>>
    BY StartOf
  <2> QED BY <1>1, <2>1 DEF LvmRest, LvmTexts, LvmFirst, LvmSecond, Then
<1>3. Known(At(1, "head"))'
  BY <1>1 DEF LvmAreas, Known
<1>4. LvmAreas' /\ \A c : Spare(c)' = Spare(c)
  BY <1>1, <1>3, LvmKept
<1>5. Plan(x) = <<{Put(c, Spare(c), x) : c \in K}, {Put(1, "head", x)}, {Put(2, "head", x)}>>
  BY DEF Plan, Spare, Texts, At
<1>6. /\ flying' = {Put(c, Spare(c), x) : c \in K}
      /\ steps' = <<{Put(1, "head", x)}, {Put(2, "head", x)}>>
  BY <1>1, <1>5, StartOf DEF Start
<1>7. Then({Put(c, Spare(c), current) : c \in K}, <<{Put(1, "head", current)}, {Put(2, "head", current)}>>)'
  BY <1>4, <1>6 DEF Then, Put
<1>8. Lesser(At(1, "head"), current)' /\ (\A c \in Copies \ K : At(c, Spare(c)) = current)'
  BY <1>1, <1>2 DEF Lesser
<1>9. LvmTexts(K)'
  BY <1>7, <1>8 DEF LvmTexts
<1> QED BY <1>4, <1>9

(* Writing the texts leaves the headers and the texts they name.            *)
LEMMA LvmSpareWritten ==
    ASSUME Common, fmt = "LVM", LvmAreas, NEW c \in Copies, NEW y, y.id # At(c, "head").id,
           fmt' = fmt, safe' = safe, shown' = shown,
           \A d \in Copies, p \in Parts : At(d, p)' = IF d = c /\ p = Spare(c) THEN y ELSE At(d, p)
    PROVE  LvmAreas' /\ \A d \in Copies : Spare(d)' = Spare(d) /\ At(d, "head")' = At(d, "head")
<1>1. Copies = {1, 2} /\ Parts = {"head", "text1", "text2"} /\ Texts \subseteq Parts /\ "head" \in Parts
  BY LvmIs
<1>2. \A d \in Copies : Area(d)
  BY <1>1 DEF LvmAreas
<1>3. ASSUME NEW d \in Copies
      PROVE  Spare(d)' = Spare(d) /\ Area(d)' /\ At(d, "head")' = At(d, "head")
  <2> PICK q : q = Spare(d)
    OBVIOUS
  <2>1. q \in Texts /\ q # "head" /\ At(d, "head").whole /\ At(d, q).id # At(d, "head").id
        /\ \A p \in Texts : p # q => At(d, p) = At(d, "head")
    BY <1>2, SpareIs DEF Texts
  <2>2. At(d, "head")' = At(d, "head")
    BY <1>1, <1>2, SpareIs DEF Texts
  <2>3. \A p \in Texts : p # q => At(d, p)' = At(d, p)
    BY <1>1
  <2>4. At(d, q)'.id # At(d, "head").id
    BY <1>1, <2>1
  <2>5. Spare(d)' = q /\ Area(d)'
    BY <2>1, <2>2, <2>3, <2>4, SpareNext
  <2> QED BY <2>2, <2>5
<1>4. At(1, "head")' = At(1, "head") /\ At(2, "head")' = At(2, "head") /\ Area(1)' /\ Area(2)'
  BY <1>1, <1>3
<1>5. LvmAreas'
  BY <1>4 DEF LvmAreas, Known, Lesser
<1> QED BY <1>3, <1>5

(* A text or a header reaches the medium: a header names its spare text     *)
(* only then.                                                               *)
LEMMA LvmLand ==
    ASSUME Common, fmt = "LVM", LvmAreas,
           LvmRest \/ (\E T \in SUBSET Copies : LvmTexts(T)) \/ LvmFirst \/ LvmSecond,
           NEW w \in flying, Land(w), shown' = shown
    PROVE  LvmAreas' /\ (LvmRest' \/ (\E T \in SUBSET Copies : LvmTexts(T)') \/ LvmFirst' \/ LvmSecond')
<1> PICK x : x = current
  OBVIOUS
<1> PICK h : h = At(1, "head")
  OBVIOUS
<1>1. /\ Copies = {1, 2} /\ Parts = {"head", "text1", "text2"} /\ Texts \subseteq Parts /\ "head" \in Parts
      /\ x.id \in Nat /\ x.whole /\ h.id \in Nat /\ At(2, "head").id \in Nat /\ {safe, shown} \subseteq Nat
      /\ x.stamp \in Nat /\ h.stamp \in Nat /\ At(2, "head").stamp \in Nat
  BY LvmIs
<1>2. /\ fmt' = fmt /\ current' = x /\ safe' = safe /\ steps' = steps /\ flying' = flying \ {w} /\ Copies' = Copies
  BY SameFormat DEF Land
<1>3. \A c \in Copies : Area(c) /\ Spare(c) \in Texts /\ Spare(c) # "head"
  BY <1>1, SpareIs DEF LvmAreas, Texts
<1>4. ASSUME NEW T \in SUBSET Copies, LvmTexts(T)
      PROVE  LvmAreas' /\ \E S \in SUBSET Copies : LvmTexts(S)'
  <2>1. PICK c \in T : w = Put(c, Spare(c), x)
    BY <1>4 DEF LvmTexts, Then
  <2>2. \A d \in Copies, p \in Parts : At(d, p)' = IF d = c /\ p = Spare(c) THEN x ELSE At(d, p)
    <3> PICK r : r = Spare(c)
      OBVIOUS
    <3>1. c \in Copies /\ r \in Parts /\ w = Put(c, r, current)
      BY <1>1, <1>3, <2>1
    <3> QED BY <3>1, OneLand
  <2>3. x.id # At(c, "head").id
    BY <1>1, <1>4 DEF LvmTexts, LvmAreas, Lesser
  <2>4. LvmAreas' /\ \A d \in Copies : Spare(d)' = Spare(d) /\ At(d, "head")' = At(d, "head")
    BY <1>2, <2>2, <2>3, LvmSpareWritten
  <2>5. flying' = {Put(d, Spare(d), x) : d \in T \ {c}}
    <3>1. flying = {Put(d, Spare(d), x) : d \in T}
      BY <1>4 DEF LvmTexts, Then
    <3> QED BY <1>2, <2>1, <3>1, PutOne
  <2>6. Then({Put(d, Spare(d), current) : d \in T \ {c}}, <<{Put(1, "head", current)}, {Put(2, "head", current)}>>)'
    <3>1. steps' = <<{Put(1, "head", x)}, {Put(2, "head", x)}>>
      BY <1>2, <1>4 DEF LvmTexts, Then
    <3>2. flying' = {Put(d, Spare(d)', x) : d \in T \ {c}}
      BY <2>4, <2>5
    <3> QED BY <1>2, <3>1, <3>2 DEF Then, Put
  <2>7. (\A d \in Copies \ (T \ {c}) : At(d, Spare(d)) = current)'
    <3>1. \A d \in Copies \ (T \ {c}) : At(d, Spare(d))' = x
      <4> TAKE d \in Copies \ (T \ {c})
      <4>1. d = c \/ At(d, Spare(d)) = x
        BY <1>4 DEF LvmTexts
      <4>2. At(d, Spare(d))' = medium'[<<d, Spare(d)>>]
        BY <2>4 DEF At
      <4>3. \A p \in Parts : At(d, p)' = medium'[<<d, p>>]
        BY DEF At
      <4>4. Spare(d) \in Parts
        BY <1>1, <1>3
      <4> QED BY <2>2, <4>1, <4>2, <4>3, <4>4
    <3> QED BY <1>2, <3>1
  <2>8. Lesser(At(1, "head"), current)'
    BY <1>1, <1>2, <1>4, <2>4 DEF LvmTexts, Lesser
  <2>9. LvmTexts(T \ {c})'
    BY <2>6, <2>7, <2>8 DEF LvmTexts
  <2> QED BY <2>4, <2>9
<1>5. CASE LvmFirst
  <2>1. w = Put(1, "head", x)
    BY <1>5 DEF LvmFirst, Then
  <2>2. \A d \in Copies, p \in Parts : At(d, p)' = IF d = 1 /\ p = "head" THEN x ELSE At(d, p)
    BY <1>1, <2>1, OneLand
  <2> PICK q : q \in Texts /\ q # Spare(1)
    BY DEF Texts
  <2>3. At(1, Spare(1)) = x /\ At(2, Spare(2)) = x /\ Lesser(h, x)
    BY <1>1, <1>5 DEF LvmFirst
  <2>4. At(1, q) = h /\ q # "head" /\ \A p \in Texts : p # q => p = Spare(1)
    BY <1>1, <1>3, SpareIs DEF Texts
  <2>5. At(1, "head")' = x /\ At(1, q)' = h /\ \A p \in Texts : p # q => At(1, p)' = x
    BY <1>1, <1>3, <2>2, <2>3, <2>4
  <2>6. x.id # h.id
    BY <1>1, <2>3 DEF Lesser
  <2>7. Area(1)'
    BY <1>1, <2>5, <2>6, SpareNext
  <2>8. Spare(2)' = Spare(2) /\ Area(2)' /\ At(2, "head")' = At(2, "head")
    <3>1. \A p \in Texts \cup {"head"} : At(2, p)' = At(2, p)
      BY <1>1, <2>2
    <3> QED BY <1>1, <1>3, <3>1, SpareKept
  <2>9. Lesser(At(2, "head"), x)
    BY <1>1, <2>3 DEF LvmAreas, Lesser
  <2>10. (Known(At(1, "head")) /\ Lesser(At(2, "head"), At(1, "head")))'
    BY <1>1, <1>2, <2>3, <2>5, <2>8, <2>9 DEF LvmAreas, Known, Lesser
  <2>11. LvmAreas'
    BY <2>7, <2>8, <2>10 DEF LvmAreas
  <2>12. (current = At(1, "head") /\ Lesser(At(2, "head"), current))'
    BY <1>2, <2>5, <2>10
  <2>13. (At(2, Spare(2)) = current)'
    <3>3. 2 \in Copies /\ Spare(2) \in Texts
      BY <1>1, <1>3
    <3>4. \A p \in Parts : At(2, p)' = At(2, p)
      BY <2>2, <3>3
    <3>1. Spare(2) \in Parts /\ \A p \in Parts : At(2, p)' = At(2, p)
      BY <1>1, <3>3, <3>4
    <3>2. At(2, Spare(2))' = medium'[<<2, Spare(2)>>] /\ \A p \in Parts : At(2, p)' = medium'[<<2, p>>]
      BY <2>8 DEF At
    <3> QED BY <1>2, <2>3, <3>1, <3>2
  <2>14. Then({}, <<{Put(2, "head", current)}>>)'
    BY <1>2, <1>5, <2>1 DEF LvmFirst, Then, Put
  <2>15. LvmSecond'
    BY <2>12, <2>13, <2>14 DEF LvmSecond
  <2> QED BY <2>11, <2>15
<1>6. CASE LvmSecond
  <2>1. w = Put(2, "head", x) /\ flying = {w} /\ steps = <<>>
    BY <1>6 DEF LvmSecond, Then
  <2>2. \A d \in Copies, p \in Parts : At(d, p)' = IF d = 2 /\ p = "head" THEN x ELSE At(d, p)
    BY <1>1, <2>1, OneLand
  <2> PICK q : q \in Texts /\ q # Spare(2)
    BY DEF Texts
  <2>3. At(2, Spare(2)) = x /\ h = x /\ Lesser(At(2, "head"), x)
    BY <1>6 DEF LvmSecond
  <2>4. At(2, q) = At(2, "head") /\ q # "head" /\ \A p \in Texts : p # q => p = Spare(2)
    BY <1>1, <1>3, SpareIs DEF Texts
  <2>5. At(2, "head")' = x /\ At(2, q)' = At(2, "head") /\ \A p \in Texts : p # q => At(2, p)' = x
    BY <1>1, <1>3, <2>2, <2>3, <2>4
  <2>6. x.id # At(2, "head").id
    BY <1>1, <2>3 DEF Lesser
  <2>7. Area(2)'
    BY <1>1, <2>5, <2>6, SpareNext
  <2>8. Area(1)' /\ At(1, "head")' = x
    <3>1. \A p \in Texts \cup {"head"} : At(1, p)' = At(1, p)
      BY <1>1, <2>2
    <3> QED BY <1>1, <1>3, <2>3, <3>1, SpareKept
  <2>9. Known(At(1, "head"))'
    BY <1>2, <2>3, <2>8 DEF LvmAreas, Known
  <2>10. LvmAreas'
    BY <2>5, <2>7, <2>8, <2>9 DEF LvmAreas
  <2>11. LvmRest'
    BY <1>2, <2>1, <2>8 DEF LvmRest, Idle
  <2> QED BY <2>10, <2>11
<1>7. flying # {}
  OBVIOUS
<1> QED BY <1>4, <1>5, <1>6, <1>7 DEF LvmRest, Idle

(* Only a spare text is torn, which no header names.                        *)
LEMMA LvmTear ==
    ASSUME Common, fmt = "LVM", LvmAreas,
           LvmRest \/ (\E T \in SUBSET Copies : LvmTexts(T)) \/ LvmFirst \/ LvmSecond,
           NEW w \in flying, Tear(w), shown' = shown
    PROVE  LvmAreas' /\ \E T \in SUBSET Copies : LvmTexts(T)'
<1> PICK x : x = current
  OBVIOUS
<1>1. /\ Copies = {1, 2} /\ Parts = {"head", "text1", "text2"} /\ Texts \subseteq Parts
      /\ \A d \in Copies : At(d, "head").id \in Nat /\ (At(d, "head").whole <=> At(d, "head").id > 0)
  BY LvmIs
<1>2. /\ fmt' = fmt /\ current' = x /\ safe' = safe /\ steps' = steps /\ flying' = flying /\ Copies' = Copies
  BY SameFormat DEF Tear
<1>3. \A c \in Copies : Area(c) /\ Spare(c) \in Texts
  BY <1>1, SpareIs DEF LvmAreas, Texts
<1>4. ASSUME NEW c
      PROVE  w # Put(c, "head", x)
  <2>1. \A at \in w.at : at[2] # "head"
    BY DEF Tear, AtOnce
  <2>2. <<c, "head">> \in Put(c, "head", x).at /\ <<c, "head">>[2] = "head"
    BY DEF Put
  <2> QED BY <2>1, <2>2
<1>5. PICK T \in SUBSET Copies : LvmTexts(T)
  BY <1>4 DEF LvmRest, LvmFirst, LvmSecond, Idle, Then
<1>6. PICK c \in T : w = Put(c, Spare(c), x)
  BY <1>5 DEF LvmTexts, Then
<1>7. PICK y : /\ ~y.whole /\ y.id = 0
               /\ \A d \in Copies, p \in Parts : At(d, p)' = IF d = c /\ p = Spare(c) THEN y ELSE At(d, p)
  <2>1. c \in Copies /\ Spare(c) \in Parts
    BY <1>1, <1>3
  <2> QED BY <1>6, <2>1, OneTear
<1>8. y.id # At(c, "head").id
  BY <1>1, <1>3, <1>7 DEF Area
<1>9. LvmAreas' /\ \A d \in Copies : Spare(d)' = Spare(d) /\ At(d, "head")' = At(d, "head")
  BY <1>2, <1>7, <1>8, LvmSpareWritten
<1>10. Then({Put(d, Spare(d), current) : d \in T}, <<{Put(1, "head", current)}, {Put(2, "head", current)}>>)'
  <2>1. steps' = <<{Put(1, "head", x)}, {Put(2, "head", x)}>> /\ flying' = {Put(d, Spare(d), x) : d \in T}
    BY <1>2, <1>5 DEF LvmTexts, Then
  <2>2. flying' = {Put(d, Spare(d)', x) : d \in T}
    BY <1>9, <2>1
  <2> QED BY <1>2, <2>1, <2>2 DEF Then, Put
<1>11. (\A d \in Copies \ T : At(d, Spare(d)) = current)'
  <2>1. \A d \in Copies \ T : At(d, Spare(d))' = x
    <3> TAKE d \in Copies \ T
    <3>1. d # c /\ At(d, Spare(d)) = x
      BY <1>5 DEF LvmTexts
    <3>2. At(d, Spare(d))' = medium'[<<d, Spare(d)>>]
      BY <1>9 DEF At
    <3>3. \A p \in Parts : At(d, p)' = medium'[<<d, p>>]
      BY DEF At
    <3>4. Spare(d) \in Parts
      BY <1>1, <1>3
    <3> QED BY <1>7, <3>1, <3>2, <3>3, <3>4
  <2> QED BY <1>2, <2>1
<1>12. Lesser(At(1, "head"), current)'
  BY <1>1, <1>2, <1>5, <1>9 DEF LvmTexts, Lesser
<1>13. LvmTexts(T)'
  BY <1>10, <1>11, <1>12 DEF LvmTexts
<1> QED BY <1>9, <1>13

(* The headers are begun, one after the other, when the texts are written.  *)
LEMMA LvmFlush ==
    ASSUME Common, fmt = "LVM", LvmAreas,
           LvmRest \/ (\E T \in SUBSET Copies : LvmTexts(T)) \/ LvmFirst \/ LvmSecond,
           Flush, shown' = shown
    PROVE  LvmAreas' /\ (LvmFirst' \/ LvmSecond')
<1> PICK x : x = current
  OBVIOUS
<1>1. /\ current' = x /\ fmt' = fmt /\ safe' = safe /\ Copies' = Copies
      /\ flying = {} /\ steps # <<>> /\ flying' = Head(steps) /\ steps' = Tail(steps)
      /\ \A d, p : At(d, p)' = At(d, p)
  BY FlushKeeps
<1>2. Known(At(1, "head"))'
  BY <1>1 DEF LvmAreas, Known
<1>3. LvmAreas' /\ \A c : Spare(c)' = Spare(c)
  BY <1>1, <1>2, LvmKept
<1>4. \A c : At(c, Spare(c))' = At(c, Spare(c))
  <2> TAKE c
  <2>1. At(c, Spare(c))' = medium'[<<c, Spare(c)>>] /\ At(c, Spare(c)) = medium[<<c, Spare(c)>>]
    BY <1>3 DEF At
  <2>2. \A p : medium'[<<c, p>>] = medium[<<c, p>>]
    BY <1>1 DEF At
  <2> QED BY <2>1, <2>2
<1>5. ASSUME NEW T \in SUBSET Copies, LvmTexts(T)
      PROVE  LvmFirst'
  <2>1. T = {}
    BY <1>1, <1>5 DEF LvmTexts, Then
  <2>2. /\ Lesser(At(1, "head"), x) /\ steps = <<{Put(1, "head", x)}, {Put(2, "head", x)}>>
        /\ \A c \in Copies : At(c, Spare(c)) = x
    BY <1>5, <2>1 DEF LvmTexts, Then
  <2>3. flying' = {Put(1, "head", x)} /\ steps' = <<{Put(2, "head", x)}>>
    BY <1>1, <2>2, StartOf
  <2>4. Then({Put(1, "head", current)}, <<{Put(2, "head", current)}>>)'
    BY <1>1, <2>3 DEF Then, Put
  <2>5. Lesser(At(1, "head"), current)' /\ (\A c \in Copies : At(c, Spare(c)) = current)'
    BY <1>1, <1>4, <2>2 DEF Lesser
  <2> QED BY <2>4, <2>5 DEF LvmFirst
<1>6. CASE LvmSecond
  <2>1. /\ x = At(1, "head") /\ Lesser(At(2, "head"), x) /\ At(2, Spare(2)) = x
        /\ steps = <<{Put(2, "head", x)}>>
    BY <1>1, <1>6 DEF LvmSecond, Then
  <2>2. flying' = {Put(2, "head", x)} /\ steps' = <<>>
    BY <1>1, <2>1, StartOf
  <2>3. Then({Put(2, "head", current)}, <<>>)'
    BY <1>1, <2>2 DEF Then, Put
  <2>4. (current = At(1, "head") /\ Lesser(At(2, "head"), current) /\ At(2, Spare(2)) = current)'
    BY <1>1, <1>4, <2>1 DEF Lesser
  <2>5. LvmSecond'
    BY <2>3, <2>4 DEF LvmSecond
  <2> QED BY <1>3, <2>5
<1>7. ~LvmRest /\ ~LvmFirst
  BY <1>1 DEF LvmRest, LvmFirst, Idle, Then
<1> QED BY <1>3, <1>5, <1>6, <1>7

(* The metadata that both headers name is safe.                             *)
LEMMA LvmFinish ==
    ASSUME Common, fmt = "LVM", LvmAreas,
           LvmRest \/ (\E T \in SUBSET Copies : LvmTexts(T)) \/ LvmFirst \/ LvmSecond,
           Finish, shown' = shown
    PROVE  LvmAreas' /\ LvmRest'
<1>1. /\ current' = current /\ safe' = current.id /\ Idle /\ Idle'
      /\ \A d, p : At(d, p)' = At(d, p)
  BY FinishKeeps
<1>2. current = At(1, "head")
  <2>1. <<{Put(1, "head", current)}, {Put(2, "head", current)}>> # <<>> /\ <<{Put(2, "head", current)}>> # <<>>
    BY StartOf
  <2> QED BY <1>1, <2>1 DEF LvmRest, LvmTexts, LvmFirst, LvmSecond, Then, Idle
<1>3. Known(At(1, "head"))'
  BY <1>1, <1>2, LvmIs DEF LvmAreas, Known
<1>4. LvmAreas'
  BY <1>1, <1>3, LvmKept
<1> QED BY <1>1, <1>2, <1>4 DEF LvmRest

(* The second area may stay behind, and is not read.                        *)
LEMMA LvmCrash ==
    ASSUME Common, fmt = "LVM", LvmAreas, Crash, shown' = shown
    PROVE  LvmAreas' /\ LvmRest'
<1> PICK x : x = Found
  OBVIOUS
<1>1. /\ current' = x /\ safe' = safe /\ Start(Mending(x)) /\ \A d, p : At(d, p)' = At(d, p)
  BY CrashKeeps, LvmFound
<1>2. Mending(x) = <<>>
  BY DEF Mending, Mirrored
<1>3. Idle'
  BY <1>1, <1>2 DEF Start, Idle
<1>4. x = At(1, "head")
  BY LvmFound
<1>5. Known(At(1, "head"))'
  BY <1>1 DEF LvmAreas, Known
<1>6. LvmAreas'
  BY <1>1, <1>5, LvmKept
<1> QED BY <1>1, <1>3, <1>4, <1>6 DEF LvmRest

(* What was shown may be shown again.                                       *)
LEMMA LvmOpen ==
    ASSUME Common, fmt = "LVM", LvmAreas,
           LvmRest \/ (\E T \in SUBSET Copies : LvmTexts(T)) \/ LvmFirst \/ LvmSecond,
           UNCHANGED writer, shown' \in {shown, State(Used)}
    PROVE  LvmAreas' /\ (LvmRest' \/ (\E T \in SUBSET Copies : LvmTexts(T)') \/ LvmFirst' \/ LvmSecond')
<1> PICK x : x = current
  OBVIOUS
<1>1. /\ current' = x /\ safe' = safe /\ flying' = flying /\ steps' = steps /\ Copies' = Copies
      /\ \A d, p : At(d, p)' = At(d, p)
  BY OpenLeaves
<1>2. Known(At(1, "head"))'
  <2>1. State(Used) = At(1, "head").id
    BY LvmFound
  <2>2. At(1, "head").id \in Nat /\ {safe, shown} \subseteq Nat
    BY LvmIs
  <2> QED BY <1>1, <2>1, <2>2 DEF LvmAreas, Known
<1>3. LvmAreas' /\ \A c : Spare(c)' = Spare(c)
  BY <1>1, <1>2, LvmKept
<1>4. \A c : At(c, Spare(c))' = At(c, Spare(c))
  <2> TAKE c
  <2>1. At(c, Spare(c))' = medium'[<<c, Spare(c)>>] /\ At(c, Spare(c)) = medium[<<c, Spare(c)>>]
    BY <1>3 DEF At
  <2>2. \A p : medium'[<<c, p>>] = medium[<<c, p>>]
    BY <1>1 DEF At
  <2> QED BY <2>1, <2>2
<1>5. CASE LvmRest
  <2>1. LvmRest'
    BY <1>1, <1>5 DEF LvmRest, Idle
  <2> QED BY <1>3, <2>1
<1>6. ASSUME NEW T \in SUBSET Copies, LvmTexts(T)
      PROVE  LvmTexts(T)'
  <2>1. Then({Put(c, Spare(c), current) : c \in T}, <<{Put(1, "head", current)}, {Put(2, "head", current)}>>)'
    <3>1. steps' = <<{Put(1, "head", x)}, {Put(2, "head", x)}>> /\ flying' = {Put(c, Spare(c), x) : c \in T}
      BY <1>1, <1>6 DEF LvmTexts, Then
    <3>2. flying' = {Put(c, Spare(c)', x) : c \in T}
      BY <1>3, <3>1
    <3> QED BY <1>1, <3>1, <3>2 DEF Then, Put
  <2>2. Lesser(At(1, "head"), current)' /\ (\A c \in Copies \ T : At(c, Spare(c)) = current)'
    BY <1>1, <1>4, <1>6 DEF LvmTexts, Lesser
  <2> QED BY <2>1, <2>2 DEF LvmTexts
<1>7. CASE LvmFirst
  <2>1. Then({Put(1, "head", current)}, <<{Put(2, "head", current)}>>)'
    BY <1>1, <1>7 DEF LvmFirst, Then, Put
  <2>2. Lesser(At(1, "head"), current)' /\ (\A c \in Copies : At(c, Spare(c)) = current)'
    BY <1>1, <1>4, <1>7 DEF LvmFirst, Lesser
  <2>3. LvmFirst'
    BY <2>1, <2>2 DEF LvmFirst
  <2> QED BY <1>3, <2>3
<1>8. CASE LvmSecond
  <2>1. (Then({}, <<{Put(2, "head", current)}>>) \/ Then({Put(2, "head", current)}, <<>>))'
    BY <1>1, <1>8 DEF LvmSecond, Then, Put
  <2>2. (current = At(1, "head") /\ Lesser(At(2, "head"), current) /\ At(2, Spare(2)) = current)'
    BY <1>1, <1>4, <1>8 DEF LvmSecond, Lesser
  <2>3. LvmSecond'
    BY <2>1, <2>2 DEF LvmSecond
  <2> QED BY <1>3, <2>3
<1> QED BY <1>3, <1>5, <1>6, <1>7, <1>8

(* The reader is shown a text that a header names and sums.                 *)
LEMMA LvmShows ==
    ASSUME Common, fmt = "LVM", LvmInv
    PROVE  Shows /\ Flies /\ Finds
<1>1. LvmAreas /\ (LvmRest \/ (\E T \in SUBSET Copies : LvmTexts(T)) \/ LvmFirst \/ LvmSecond)
  BY DEF LvmInv
<1>2. Used # {} /\ State(Used) = At(1, "head").id /\ Finds
  BY <1>1, LvmFound
<1>3. At(1, "head").id \in Nat /\ At(1, "head").id <= issued
  BY LvmIs
<1>4. Known(At(1, "head")) /\ Flies
  BY <1>1, LvmFlies DEF LvmAreas
<1> QED BY <1>2, <1>3, <1>4 DEF Shows, Known

(* Every step keeps a text for each header, and the first area ahead.       *)
LEMMA LvmStep ==
    ASSUME Common, fmt = "LVM", LvmInv, WriterStep \/ ReaderStep
    PROVE  LvmInv'
<1>1. LvmAreas /\ (LvmRest \/ (\E T \in SUBSET Copies : LvmTexts(T)) \/ LvmFirst \/ LvmSecond)
  BY DEF LvmInv
<1>2. Copies' = Copies
  <2>1. fmt' = fmt
    BY DEF WriterStep, WriterNext, ReaderStep, writer, Begin, Flush, Finish, Crash, Land, Tear
  <2> QED BY <2>1, SameFormat
<1> PICK K : K = Copies
  OBVIOUS
<1>3. LvmAreas' /\ (LvmRest' \/ (\E T \in SUBSET K : LvmTexts(T)') \/ LvmFirst' \/ LvmSecond')
  <2>1. CASE WriterStep /\ Begin
    BY <1>1, <2>1, LvmBegin DEF WriterStep
  <2>2. CASE WriterStep /\ Flush
    BY <1>1, <2>2, LvmFlush DEF WriterStep
  <2>3. CASE WriterStep /\ Finish
    BY <1>1, <2>3, LvmFinish DEF WriterStep
  <2>4. CASE WriterStep /\ Crash
    BY <1>1, <2>4, LvmCrash DEF WriterStep
  <2>5. CASE WriterStep /\ \E w \in flying : Land(w)
    BY <1>1, <2>5, LvmLand DEF WriterStep
  <2>6. CASE WriterStep /\ \E w \in flying : Tear(w)
    BY <1>1, <2>6, LvmTear DEF WriterStep
  <2>7. CASE ReaderStep
    BY <1>1, <2>7, LvmOpen DEF ReaderStep
  <2> QED BY <2>1, <2>2, <2>3, <2>4, <2>5, <2>6, <2>7 DEF WriterStep, WriterNext
<1> QED BY <1>2, <1>3 DEF LvmInv

-----------------------------------------------------------------------------
(* UBI.                                                                     *)

(* The two erase blocks, and what one of their writes is.                   *)
LEMMA UbiIs ==
    ASSUME Common, fmt = "UBI", NEW c \in Copies, NEW o \in Copies, c # o
    PROVE  /\ Copies = {1, 2} /\ Parts = {"vid", "data"} /\ Zero \notin Copies
           /\ Copies = {c, o} /\ 3 - o = c
           /\ current.whole /\ current.id \in Nat /\ current.id <= issued /\ current.stamp \in Nat
           /\ {safe, shown} \subseteq Nat
           /\ \A d \in Copies, p \in Parts : /\ At(d, p).stamp \in Nat /\ At(d, p).id \in Nat
                                             /\ At(d, p).id <= issued
                                             /\ At(d, p).whole => At(d, p).stamp > 0
<1>1. 1..2 = {1, 2}
  OBVIOUS
<1>2. Copies = {1, 2} /\ Parts = {"vid", "data"} /\ Zero \notin Copies
  BY <1>1 DEF Copies, Parts, Zero
<1>3. Copies = {c, o} /\ 3 - o = c
  BY <1>2
<1>4. current.whole /\ current.id \in Nat /\ current.id <= issued /\ current.stamp \in Nat
      /\ {safe, shown} \subseteq Nat
  BY PartIs DEF Common
<1>5. \A d \in Copies, p \in Parts : /\ At(d, p).stamp \in Nat /\ At(d, p).id \in Nat
                                     /\ At(d, p).id <= issued
                                     /\ At(d, p).whole => At(d, p).stamp > 0
  <2> TAKE d \in Copies, p \in Parts
  <2>1. issued \in Nat
    BY DEF Common
  <2> QED BY <2>1, AtIs
<1> QED BY <1>2, <1>3, <1>4, <1>5

(* A block with a newer header and other data is passed over.               *)
LEMMA UbiFound ==
    ASSUME Common, fmt = "UBI", NEW c \in Copies, NEW o \in Copies, c # o, UbiWhole(c, o)
    PROVE  /\ Found = At(c, "vid") /\ Content(c) = At(c, "vid") /\ Content(o) # At(c, "vid")
           /\ Finds
           /\ Used # {} /\ State(Used) = At(c, "vid").id
<1> PICK y : y = At(c, "vid")
  OBVIOUS
<1>1. /\ Copies = {1, 2} /\ Parts = {"vid", "data"} /\ Copies = {c, o}
      /\ \A d \in Copies, p \in Parts : At(d, p).stamp \in Nat /\ (At(d, p).whole => At(d, p).stamp > 0)
  BY UbiIs
<1>2. /\ y.whole /\ At(c, "vid") = y /\ At(c, "data") = y
      /\ At(o, "vid").whole =>
          \/ At(o, "vid").stamp < y.stamp
          \/ /\ At(o, "vid").stamp > y.stamp
             /\ ~(At(o, "data").whole /\ At(o, "data").id = At(o, "vid").id)
  BY DEF UbiWhole, Lesser
<1>3. y.stamp \in Nat /\ y.stamp > 0 /\ "vid" \in Parts /\ "data" \in Parts
  BY <1>1, <1>2
<1>4. Content(c) = y
  <2>1. fmt \notin {"LVM", "UBIFS"}
    OBVIOUS
  <2>2. ~(Content(c) = Blank /\ \A z : z.whole => \E p \in Parts : At(c, p) # z)
    BY <1>1, <1>2
  <2>3. \A p \in Parts : At(c, p) = Content(c)
    BY <2>1, <2>2, ContentIs
  <2> QED BY <1>2, <1>3, <2>3
<1>5. Content(o) = Blank \/ (Content(o).whole /\ At(o, "vid") = Content(o) /\ At(o, "data") = Content(o))
  BY <1>1, ContentIs
<1>6. Content(o).stamp \in Nat /\ Content(o).stamp < y.stamp
  BY <1>1, <1>2, <1>3, <1>5, PartIs
<1>7. Found = y
  <2>1. \A d \in Copies : Content(d) = Content(c)
                          \/ (Content(d).stamp \in Nat /\ Content(d).stamp < Content(c).stamp)
    BY <1>1, <1>4, <1>6
  <2>2. ~(fmt \in {"GPT", "Btrfs", "UBItable"} /\ Content(1) # Blank)
    OBVIOUS
  <2>3. Content(c).stamp \in Nat
    BY <1>3, <1>4
  <2>4. Found = Content(c)
    BY <2>1, <2>2, <2>3, FoundIs
  <2> QED BY <1>4, <2>4
<1>8. Finds
  BY <1>2, <1>3, <1>7 DEF Finds
<1> PICK seen : seen = {d \in Copies : At(d, "vid").whole}
  OBVIOUS
<1> PICK used : used = {d \in seen : \/ At(d, "data").whole /\ At(d, "data").id = At(d, "vid").id
                                     \/ \A e \in seen : At(d, "vid").stamp <= At(e, "vid").stamp}
  OBVIOUS
<1>9. c \in seen /\ c \in used /\ used \subseteq Copies
  BY <1>2
<1>10. \A d \in used : d = c \/ At(d, "vid").stamp < y.stamp
  BY <1>1, <1>2, <1>3, <1>9
<1>11. Greatest(used, "vid") = c
  <2>1. used \in SUBSET Copies /\ "vid" \in Parts /\ \A d \in used : At(d, "vid").stamp <= At(c, "vid").stamp
    BY <1>3, <1>9, <1>10, <1>1
  <2>2. /\ Greatest(used, "vid") \in used
        /\ At(Greatest(used, "vid"), "vid").stamp = At(c, "vid").stamp
    BY <1>9, <2>1, GreatestIs
  <2> QED BY <1>1, <1>10, <2>2
<1>12. Used = {c} \X {"vid", "data"}
  <2>1. Used = IF used = {} THEN {} ELSE {Greatest(used, "vid")} \X {"vid", "data"}
    BY DEF Used, ReadUbi
  <2> QED BY <1>9, <1>11, <2>1
<1>13. Used # {} /\ \A at \in Used : medium[at] = y
  BY <1>2, <1>12 DEF At
<1>14. State(Used) = y.id
  BY <1>13, StateIs
<1>15. Content(o) # y
  BY <1>6
<1> QED BY <1>4, <1>7, <1>8, <1>13, <1>14, <1>15

(* What UBI's writer has under way is of the contents being made, or        *)
(* erases.                                                                  *)
LEMMA UbiFlies ==
    ASSUME Common, fmt = "UBI", NEW c \in Copies, NEW o \in Copies, UbiAt(c, o)
    PROVE  Flies
<1>1. Parts = {"vid", "data"}
  BY DEF Parts
<1>2. flying = {} \/ flying = Erase(o) \/ \E p \in Parts : flying = {Put(o, p, current)}
  BY <1>1 DEF UbiAt, UbiDone, UbiMake, UbiErase, UbiErased, UbiVid, UbiVidDone, UbiData, Then, Idle
<1>3. CASE flying = Erase(o)
  BY <1>3 DEF Flies, Erase
<1>4. CASE \E p \in Parts : flying = {Put(o, p, current)}
  BY <1>4 DEF Flies, Put
<1> QED BY <1>2, <1>3, <1>4 DEF Flies

(* While the medium is not written the block found stays whole.             *)
LEMMA UbiKept ==
    ASSUME NEW c, NEW o, UbiWhole(c, o), \A d, p : At(d, p)' = At(d, p), Known(At(c, "vid"))'
    PROVE  UbiWhole(c, o)'
BY DEF UbiWhole, Lesser

(* New contents go into the block that is not read by.                      *)
LEMMA UbiBegin ==
    ASSUME Common, fmt = "UBI", NEW c \in Copies, NEW o \in Copies, UbiAt(c, o), Begin, shown' = shown
    PROVE  UbiAt(c, o)'
<1> PICK x : x = current'
  OBVIOUS
<1>1. /\ fmt' = fmt /\ safe' = safe /\ Start(Plan(x)) /\ flying = {} /\ steps = <<>>
      /\ Lesser(current, x) /\ \A d, p : At(d, p)' = At(d, p)
  BY BeginKeeps
<1>2. UbiWhole(c, o) /\ c # o
  BY DEF UbiAt
<1>3. current = At(c, "vid")
  <2>1. /\ <<{Put(o, "vid", current)}, {Put(o, "data", current)}, Erase(c)>> # <<>>
        /\ <<{Put(o, "data", current)}, Erase(c)>> # <<>>
    BY StartOf
  <2>2. Erase(o) # {}
    BY DEF Erase
  <2> QED BY <1>1, <2>1, <2>2 DEF UbiAt, UbiDone, UbiMake, UbiErase, UbiErased, UbiVid, UbiVidDone, UbiData, Then
<1>4. Plan(x) = <<Erase(o), {Put(o, "vid", x)}, {Put(o, "data", x)}, Erase(c)>>
  <2>1. Copies = {c, o} /\ Zero \notin Copies /\ 3 - o = c
    BY <1>2, UbiIs
  <2>2. Content(c) = current /\ Content(o) # current
    BY <1>2, <1>3, UbiFound
  <2>3. (CHOOSE d \in Copies \ {Zero} : Content(d) # current) = o
    BY <2>1, <2>2
  <2> QED BY <2>1, <2>3 DEF Plan
<1>5. flying' = Erase(o) /\ steps' = <<{Put(o, "vid", x)}, {Put(o, "data", x)}, Erase(c)>>
  BY <1>1, <1>4, StartOf DEF Start
<1>6. \A d : Erase(d)' = Erase(d)
  BY <1>1, SameFormat
<1>7. UbiErase(c, o)'
  BY <1>5, <1>6 DEF UbiErase, Then, Put
<1>8. Known(At(c, "vid"))'
  BY <1>1 DEF UbiAt, UbiWhole, Known
<1>9. UbiWhole(c, o)'
  BY <1>1, <1>2, <1>8, UbiKept
<1>10. Lesser(At(c, "vid"), current)'
  BY <1>1, <1>3 DEF Lesser
<1> QED BY <1>2, <1>7, <1>9, <1>10 DEF UbiAt, UbiMake

(* A block is erased, or its header or its data reaches the medium.         *)
LEMMA UbiLand ==
    ASSUME Common, fmt = "UBI", NEW c \in Copies, NEW o \in Copies, UbiAt(c, o),
           NEW w \in flying, Land(w), shown' = shown
    PROVE  UbiAt(c, o)' \/ UbiAt(o, c)'
<1> PICK x : x = current
  OBVIOUS
<1> PICK y : y = At(c, "vid")
  OBVIOUS
<1>1. /\ Parts = {"vid", "data"} /\ c # o /\ "vid" \in Parts /\ "data" \in Parts
      /\ x.id \in Nat /\ x.whole /\ y.id \in Nat /\ {safe, shown} \subseteq Nat
      /\ x.stamp \in Nat /\ y.stamp \in Nat
  BY UbiIs DEF UbiAt
<1>2. /\ fmt' = fmt /\ current' = x /\ safe' = safe /\ steps' = steps /\ flying' = flying \ {w}
      /\ medium' = Written(w, w.part) /\ \A d : Erase(d)' = Erase(d)
  BY SameFormat DEF Land
<1>3. /\ y.whole /\ At(c, "vid") = y /\ At(c, "data") = y /\ Known(y)
      /\ At(o, "vid").whole =>
          \/ Lesser(At(o, "vid"), y)
          \/ /\ At(o, "vid").stamp > y.stamp
             /\ ~(At(o, "data").whole /\ At(o, "data").id = At(o, "vid").id)
  BY DEF UbiAt, UbiWhole
<1>4. ASSUME flying = Erase(o)
      PROVE  /\ At(c, "vid")' = y /\ At(o, "vid")' = Blank /\ At(o, "data")' = Blank
             /\ flying' = {} /\ UbiWhole(c, o)'
  <2>1. w \in Erase(o)
    BY <1>4
  <2>2. \A d \in Copies, q \in Parts : At(d, q)' = IF d = o THEN Blank ELSE At(d, q)
    BY <1>2, <2>1, EraseWritten
  <2>3. At(c, "vid")' = y /\ At(c, "data")' = y /\ At(o, "vid")' = Blank /\ At(o, "data")' = Blank
    BY <1>1, <1>3, <2>2
  <2>4. flying' = {}
    BY <1>2, <1>4, <2>1 DEF Erase
  <2>5. UbiWhole(c, o)'
    BY <1>2, <1>3, <2>3, PartIs DEF UbiWhole, Known
  <2> QED BY <2>3, <2>4, <2>5
<1>5. CASE UbiDone(c, o)
  <2>1. Then(Erase(o), <<>>) /\ x = y
    BY <1>5 DEF UbiDone, Idle, Then
  <2>2. At(c, "vid")' = y /\ flying' = {} /\ UbiWhole(c, o)'
    BY <1>4, <2>1 DEF Then
  <2>3. UbiDone(c, o)'
    BY <1>2, <2>1, <2>2 DEF UbiDone, Idle, Then
  <2> QED BY <1>1, <2>2, <2>3 DEF UbiAt
<1>6. CASE UbiMake(c, o) /\ UbiErase(c, o)
  <2>1. At(c, "vid")' = y /\ At(o, "vid")' = Blank /\ At(o, "data")' = Blank /\ flying' = {} /\ UbiWhole(c, o)'
    BY <1>4, <1>6 DEF UbiErase, Then
  <2>2. UbiErased(c, o)'
    BY <1>2, <1>6, <2>1 DEF UbiErase, UbiErased, Then, Put, Blank
  <2>3. Lesser(At(c, "vid"), current)'
    BY <1>2, <1>6, <2>1 DEF UbiMake, Lesser
  <2> QED BY <1>1, <2>1, <2>2, <2>3 DEF UbiAt, UbiMake
<1>7. CASE UbiMake(c, o) /\ UbiVid(c, o)
  <2>1. w = Put(o, "vid", x) /\ flying = {w}
    BY <1>7 DEF UbiVid, Then
  <2>2. \A d \in Copies, p \in Parts : At(d, p)' = IF d = o /\ p = "vid" THEN x ELSE At(d, p)
    BY <1>1, <2>1, OneLand
  <2>3. At(c, "vid")' = y /\ At(c, "data")' = y /\ At(o, "vid")' = x /\ At(o, "data")' = Blank
    BY <1>1, <1>3, <1>7, <2>2 DEF UbiVid
  <2>4. Lesser(y, x)
    BY <1>7 DEF UbiMake
  <2>5. UbiWhole(c, o)'
    BY <1>1, <1>2, <1>3, <2>3, <2>4, PartIs DEF UbiWhole, Known, Lesser
  <2>6. UbiVidDone(c, o)'
    BY <1>2, <1>7, <2>1, <2>3 DEF UbiVid, UbiVidDone, Then, Put, Blank
  <2>7. Lesser(At(c, "vid"), current)'
    BY <1>2, <2>3, <2>4 DEF Lesser
  <2> QED BY <1>1, <2>5, <2>6, <2>7 DEF UbiAt, UbiMake
<1>8. CASE UbiMake(c, o) /\ UbiData(c, o)
  <2>1. w = Put(o, "data", x) /\ flying = {w} /\ steps = <<Erase(c)>> /\ At(o, "vid") = x
    BY <1>8 DEF UbiData, Then
  <2>2. \A d \in Copies, p \in Parts : At(d, p)' = IF d = o /\ p = "data" THEN x ELSE At(d, p)
    BY <1>1, <2>1, OneLand
  <2>3. At(c, "vid")' = y /\ At(c, "data")' = y /\ At(o, "vid")' = x /\ At(o, "data")' = x
    BY <1>1, <1>3, <2>1, <2>2
  <2>4. Lesser(y, x)
    BY <1>8 DEF UbiMake
  <2>5. UbiWhole(o, c)'
    BY <1>1, <1>2, <1>3, <2>3, <2>4 DEF UbiWhole, Known, Lesser
  <2>6. UbiDone(o, c)'
    BY <1>2, <2>1, <2>3 DEF UbiDone, Then
  <2> QED BY <1>1, <2>5, <2>6 DEF UbiAt
<1>9. flying # {}
  OBVIOUS
<1> QED BY <1>5, <1>6, <1>7, <1>8, <1>9 DEF UbiAt, UbiMake, UbiErased, UbiVidDone, Then

(* A torn header is none, and torn data does not match.                     *)
LEMMA UbiTear ==
    ASSUME Common, fmt = "UBI", NEW c \in Copies, NEW o \in Copies, UbiAt(c, o),
           NEW w \in flying, Tear(w), shown' = shown
    PROVE  UbiAt(c, o)'
<1> PICK x : x = current
  OBVIOUS
<1> PICK y : y = At(c, "vid")
  OBVIOUS
<1>1. /\ Parts = {"vid", "data"} /\ c # o /\ "vid" \in Parts /\ "data" \in Parts
      /\ x.stamp \in Nat /\ y.stamp \in Nat
  BY UbiIs DEF UbiAt
<1>2. /\ fmt' = fmt /\ current' = x /\ safe' = safe /\ steps' = steps /\ flying' = flying
      /\ w.part # Blank /\ \A d : Erase(d)' = Erase(d)
  BY SameFormat DEF Tear, AtOnce
<1>3. /\ y.whole /\ At(c, "vid") = y /\ At(c, "data") = y /\ Known(y)
  BY DEF UbiAt, UbiWhole
<1>4. w \notin Erase(o)
  BY <1>2 DEF Erase
<1>5. CASE UbiMake(c, o) /\ UbiVid(c, o)
  <2>1. w = Put(o, "vid", x)
    BY <1>5 DEF UbiVid, Then
  <2>2. PICK z : ~z.whole /\ \A d \in Copies, p \in Parts : At(d, p)' = IF d = o /\ p = "vid" THEN z ELSE At(d, p)
    BY <1>1, <2>1, OneTear
  <2>3. At(c, "vid")' = y /\ At(c, "data")' = y /\ ~At(o, "vid")'.whole /\ At(o, "data")' = Blank
    BY <1>1, <1>3, <1>5, <2>2 DEF UbiVid
  <2>4. UbiWhole(c, o)'
    BY <1>2, <1>3, <2>3 DEF UbiWhole, Known
  <2>5. UbiVid(c, o)'
    BY <1>2, <1>5, <2>3 DEF UbiVid, Then, Put, Blank
  <2>6. Lesser(At(c, "vid"), current)'
    BY <1>2, <1>5, <2>3 DEF UbiMake, Lesser
  <2> QED BY <1>1, <2>4, <2>5, <2>6 DEF UbiAt, UbiMake
<1>6. CASE UbiMake(c, o) /\ UbiData(c, o)
  <2>1. w = Put(o, "data", x) /\ At(o, "vid") = x /\ Lesser(y, x)
    BY <1>6 DEF UbiData, UbiMake, Then
  <2>2. PICK z : ~z.whole /\ \A d \in Copies, p \in Parts : At(d, p)' = IF d = o /\ p = "data" THEN z ELSE At(d, p)
    BY <1>1, <2>1, OneTear
  <2>3. At(c, "vid")' = y /\ At(c, "data")' = y /\ At(o, "vid")' = x /\ ~At(o, "data")'.whole
    BY <1>1, <1>3, <2>1, <2>2
  <2>4. UbiWhole(c, o)'
    BY <1>1, <1>2, <1>3, <2>1, <2>3 DEF UbiWhole, Known, Lesser
  <2>5. UbiData(c, o)'
    BY <1>2, <1>6, <2>3 DEF UbiData, Then, Put
  <2>6. Lesser(At(c, "vid"), current)'
    BY <1>2, <2>1, <2>3 DEF Lesser
  <2> QED BY <1>1, <2>4, <2>5, <2>6 DEF UbiAt, UbiMake
<1>7. flying # {} /\ flying # Erase(o)
  BY <1>4
<1> QED BY <1>5, <1>6, <1>7 DEF UbiAt, UbiMake, UbiDone, Idle, UbiErase, UbiErased, UbiVidDone, Then

(* The next part of the block is begun, its old copy erased last.           *)
LEMMA UbiFlush ==
    ASSUME Common, fmt = "UBI", NEW c \in Copies, NEW o \in Copies, UbiAt(c, o), Flush, shown' = shown
    PROVE  UbiAt(c, o)'
<1> PICK x : x = current
  OBVIOUS
<1>1. /\ current' = x /\ fmt' = fmt /\ safe' = safe
      /\ flying = {} /\ steps # <<>> /\ flying' = Head(steps) /\ steps' = Tail(steps)
      /\ \A d, p : At(d, p)' = At(d, p)
  BY FlushKeeps
<1>2. (\A d : Erase(d)' = Erase(d)) /\ Erase(o) # {}
  BY <1>1, SameFormat DEF Erase
<1>3. UbiWhole(c, o)'
  <2>1. Known(At(c, "vid"))'
    BY <1>1 DEF UbiAt, UbiWhole, Known
  <2> QED BY <1>1, <2>1, UbiKept DEF UbiAt
<1>4. CASE UbiDone(c, o)
  <2>1. x = At(c, "vid") /\ steps = <<Erase(o)>>
    BY <1>1, <1>2, <1>4 DEF UbiDone, Idle, Then
  <2>2. flying' = Erase(o) /\ steps' = <<>>
    BY <1>1, <2>1, StartOf
  <2>3. UbiDone(c, o)'
    BY <1>1, <1>2, <2>1, <2>2 DEF UbiDone, Then
  <2> QED BY <1>3, <2>3 DEF UbiAt
<1>5. ASSUME UbiMake(c, o)
      PROVE  Lesser(At(c, "vid"), current)'
  BY <1>1, <1>5 DEF UbiMake, Lesser
<1>6. CASE UbiMake(c, o) /\ UbiErased(c, o)
  <2>1. steps = <<{Put(o, "vid", x)}, {Put(o, "data", x)}, Erase(c)>>
    BY <1>6 DEF UbiErased, Then
  <2>2. flying' = {Put(o, "vid", x)} /\ steps' = <<{Put(o, "data", x)}, Erase(c)>>
    BY <1>1, <2>1, StartOf
  <2>3. Then({Put(o, "vid", current)}, <<{Put(o, "data", current)}, Erase(c)>>)'
    BY <1>1, <1>2, <2>2 DEF Then, Put
  <2>4. (~At(o, "vid").whole /\ At(o, "data") = Blank)'
    BY <1>1, <1>6, PartIs DEF UbiErased, Blank
  <2>5. UbiVid(c, o)'
    BY <2>3, <2>4 DEF UbiVid
  <2> QED BY <1>3, <1>5, <1>6, <2>5 DEF UbiAt, UbiMake
<1>7. CASE UbiMake(c, o) /\ UbiVidDone(c, o)
  <2>1. steps = <<{Put(o, "data", x)}, Erase(c)>>
    BY <1>7 DEF UbiVidDone, Then
  <2>2. flying' = {Put(o, "data", x)} /\ steps' = <<Erase(c)>>
    BY <1>1, <2>1, StartOf
  <2>3. Then({Put(o, "data", current)}, <<Erase(c)>>)'
    BY <1>1, <1>2, <2>2 DEF Then, Put
  <2>4. (At(o, "vid") = current /\ ~At(o, "data").whole)'
    BY <1>1, <1>7, PartIs DEF UbiVidDone
  <2>5. UbiData(c, o)'
    BY <2>3, <2>4 DEF UbiData
  <2> QED BY <1>3, <1>5, <1>7, <2>5 DEF UbiAt, UbiMake
<1> QED BY <1>1, <1>2, <1>4, <1>6, <1>7 DEF UbiAt, UbiMake, UbiErase, UbiVid, UbiData, Then

(* With nothing under way the block is of the state made last.              *)
LEMMA UbiFinish ==
    ASSUME Common, fmt = "UBI", NEW c \in Copies, NEW o \in Copies, UbiAt(c, o), Finish, shown' = shown
    PROVE  UbiAt(c, o)'
<1>1. /\ current' = current /\ safe' = current.id /\ Idle /\ Idle'
      /\ \A d, p : At(d, p)' = At(d, p)
  BY FinishKeeps
<1>2. /\ <<{Put(o, "vid", current)}, {Put(o, "data", current)}, Erase(c)>> # <<>>
      /\ <<{Put(o, "data", current)}, Erase(c)>> # <<>> /\ <<Erase(c)>> # <<>>
  BY StartOf
<1>3. current = At(c, "vid")
  BY <1>1, <1>2 DEF UbiAt, UbiDone, UbiMake, UbiErase, UbiErased, UbiVid, UbiVidDone, UbiData, Then, Idle
<1>4. current.id \in Nat
  BY UbiIs DEF UbiAt
<1>5. Known(At(c, "vid"))'
  BY <1>1, <1>3, <1>4 DEF UbiAt, UbiWhole, Known
<1>6. UbiWhole(c, o)' /\ c # o
  BY <1>1, <1>5, UbiKept DEF UbiAt
<1>7. UbiDone(c, o)'
  BY <1>1, <1>3 DEF UbiDone
<1> QED BY <1>6, <1>7 DEF UbiAt

(* A block whose data does not match is passed over.                        *)
LEMMA UbiCrash ==
    ASSUME Common, fmt = "UBI", NEW c \in Copies, NEW o \in Copies, UbiAt(c, o), Crash, shown' = shown
    PROVE  UbiAt(c, o)'
<1> PICK x : x = Found
  OBVIOUS
<1>1. UbiWhole(c, o) /\ c # o
  BY DEF UbiAt
<1>2. x = At(c, "vid") /\ Finds
  BY <1>1, UbiFound
<1>3. /\ current' = x /\ safe' = safe /\ Start(Mending(x)) /\ \A d, p : At(d, p)' = At(d, p)
  BY <1>2, CrashKeeps
<1>4. Mending(x) = <<>>
  BY DEF Mending, Mirrored
<1>5. Idle'
  BY <1>3, <1>4 DEF Start, Idle
<1>6. Known(At(c, "vid"))'
  BY <1>1, <1>3 DEF UbiWhole, Known
<1>7. UbiWhole(c, o)'
  BY <1>1, <1>3, <1>6, UbiKept
<1>8. UbiDone(c, o)'
  BY <1>2, <1>3, <1>5 DEF UbiDone
<1> QED BY <1>1, <1>7, <1>8 DEF UbiAt

(* What was shown may be shown again.                                       *)
LEMMA UbiOpen ==
    ASSUME Common, fmt = "UBI", NEW c \in Copies, NEW o \in Copies, UbiAt(c, o), UNCHANGED writer,
           shown' \in {shown, State(Used)}
    PROVE  UbiAt(c, o)'
<1>1. /\ current' = current /\ safe' = safe /\ flying' = flying /\ steps' = steps
      /\ (\A d : Erase(d)' = Erase(d)) /\ \A d, p : At(d, p)' = At(d, p)
  BY OpenLeaves
<1>2. UbiWhole(c, o) /\ c # o
  BY DEF UbiAt
<1>3. UbiWhole(c, o)'
  <2>1. State(Used) = At(c, "vid").id
    BY <1>2, UbiFound
  <2>2. At(c, "vid").id \in Nat /\ {safe, shown} \subseteq Nat
    BY <1>2, UbiIs
  <2>3. Known(At(c, "vid"))'
    BY <1>1, <1>2, <2>1, <2>2 DEF UbiWhole, Known
  <2> QED BY <1>1, <1>2, <2>3, UbiKept
<1>4. UbiDone(c, o) => UbiDone(c, o)'
  BY <1>1 DEF UbiDone, Idle, Then
<1>5. /\ UbiErase(c, o) => UbiErase(c, o)'
      /\ UbiErased(c, o) => UbiErased(c, o)'
  BY <1>1 DEF UbiErase, UbiErased, Then, Put, Blank
<1>6. /\ UbiVid(c, o) => UbiVid(c, o)'
      /\ UbiVidDone(c, o) => UbiVidDone(c, o)'
  BY <1>1 DEF UbiVid, UbiVidDone, Then, Put, Blank
<1>7. UbiData(c, o) => UbiData(c, o)'
  BY <1>1 DEF UbiData, Then, Put
<1>8. Lesser(At(c, "vid"), current) => Lesser(At(c, "vid"), current)'
  BY <1>1 DEF Lesser
<1>9. UbiMake(c, o) => UbiMake(c, o)'
  BY <1>5, <1>6, <1>7, <1>8 DEF UbiMake
<1> QED BY <1>2, <1>3, <1>4, <1>9 DEF UbiAt

(* The reader is shown a block whose data matches its header.               *)
LEMMA UbiShows ==
    ASSUME Common, fmt = "UBI", UbiInv
    PROVE  Shows /\ Flies /\ Finds
<1>1. PICK c, o \in Copies : UbiAt(c, o)
  BY DEF UbiInv
<1>2. UbiWhole(c, o) /\ c # o
  BY <1>1 DEF UbiAt
<1>3. Used # {} /\ State(Used) = At(c, "vid").id /\ Finds
  BY <1>2, UbiFound
<1>4. At(c, "vid").id \in Nat /\ At(c, "vid").id <= issued
  BY <1>2, UbiIs
<1>5. Known(At(c, "vid")) /\ Flies
  BY <1>1, <1>2, UbiFlies DEF UbiWhole
<1> QED BY <1>3, <1>4, <1>5 DEF Shows, Known

(* Every step keeps one block whole, and the other older or not matching.   *)
LEMMA UbiStep ==
    ASSUME Common, fmt = "UBI", UbiInv, WriterStep \/ ReaderStep
    PROVE  UbiInv'
<1>1. PICK c, o \in Copies : UbiAt(c, o)
  BY DEF UbiInv
<1>2. Copies' = Copies
  <2>1. fmt' = fmt
    BY DEF WriterStep, WriterNext, ReaderStep, writer, Begin, Flush, Finish, Crash, Land, Tear
  <2> QED BY <2>1, SameFormat
<1>3. UbiAt(c, o)' \/ UbiAt(o, c)'
  <2>1. CASE WriterStep /\ Begin
    BY <1>1, <2>1, UbiBegin DEF WriterStep
  <2>2. CASE WriterStep /\ Flush
    BY <1>1, <2>2, UbiFlush DEF WriterStep
  <2>3. CASE WriterStep /\ Finish
    BY <1>1, <2>3, UbiFinish DEF WriterStep
  <2>4. CASE WriterStep /\ Crash
    BY <1>1, <2>4, UbiCrash DEF WriterStep
  <2>5. CASE WriterStep /\ \E w \in flying : Land(w)
    BY <1>1, <2>5, UbiLand DEF WriterStep
  <2>6. CASE WriterStep /\ \E w \in flying : Tear(w)
    BY <1>1, <2>6, UbiTear DEF WriterStep
  <2>7. CASE ReaderStep
    BY <1>1, <2>7, UbiOpen DEF ReaderStep
  <2> QED BY <2>1, <2>2, <2>3, <2>4, <2>5, <2>6, <2>7 DEF WriterStep, WriterNext
<1> QED BY <1>2, <1>3 DEF UbiInv

-----------------------------------------------------------------------------
(* UBIFS.                                                                   *)

(* Steps put after steps.                                                   *)
LEMMA Join ==
    ASSUME NEW S, NEW s \in Seq(S), NEW t \in Seq(S), NEW u \in Seq(S), Len(u) = Len(s) + Len(t),
           \A i \in 1..Len(u) : u[i] = IF i <= Len(s) THEN s[i] ELSE t[i - Len(s)]
    PROVE  s \o t = u
  BY ConcatProperties, SeqEqual

(* One step and one.                                                        *)
LEMMA JoinOneOne ==
    ASSUME NEW a, NEW c
    PROVE  <<a>> \o <<c>> = <<a, c>>
<1> DEFINE S == {a, c}
<1>1. PICK s, t, u : s = <<a>> /\ t = <<c>> /\ u = <<a, c>>
  OBVIOUS
<1>2. <<a>> \in Seq(S) /\ <<c>> \in Seq(S) /\ <<a, c>> \in Seq(S)
  OBVIOUS
<1>3. Len(<<a>>) = 1 /\ Len(<<c>>) = 1 /\ Len(<<a, c>>) = 2
  OBVIOUS
<1>4. s \in Seq(S) /\ t \in Seq(S) /\ u \in Seq(S) /\ Len(s) = 1 /\ Len(t) = 1 /\ Len(u) = 2
  BY <1>1, <1>2, <1>3
<1>5. \A i \in 1..2 : u[i] = IF i <= 1 THEN s[i] ELSE t[i - 1]
  BY <1>1
<1> HIDE DEF S
<1>6. Len(u) = Len(s) + Len(t) /\ \A i \in 1..Len(u) : u[i] = IF i <= Len(s) THEN s[i] ELSE t[i - Len(s)]
  BY <1>4, <1>5
<1>7. s \o t = u
  BY <1>4, <1>6, Join
<1> QED BY <1>1, <1>7

(* Two steps and one.                                                       *)
LEMMA JoinTwoOne ==
    ASSUME NEW a, NEW b, NEW c
    PROVE  <<a, b>> \o <<c>> = <<a, b, c>>
<1> DEFINE S == {a, b, c}
<1>1. PICK s, t, u : s = <<a, b>> /\ t = <<c>> /\ u = <<a, b, c>>
  OBVIOUS
<1>2. <<a, b>> \in Seq(S) /\ <<c>> \in Seq(S) /\ <<a, b, c>> \in Seq(S)
  OBVIOUS
<1>3. Len(<<a, b>>) = 2 /\ Len(<<c>>) = 1 /\ Len(<<a, b, c>>) = 3
  OBVIOUS
<1>4. s \in Seq(S) /\ t \in Seq(S) /\ u \in Seq(S) /\ Len(s) = 2 /\ Len(t) = 1 /\ Len(u) = 3
  BY <1>1, <1>2, <1>3
<1>5. \A i \in 1..3 : u[i] = IF i <= 2 THEN s[i] ELSE t[i - 2]
  BY <1>1
<1> HIDE DEF S
<1>6. Len(u) = Len(s) + Len(t) /\ \A i \in 1..Len(u) : u[i] = IF i <= Len(s) THEN s[i] ELSE t[i - Len(s)]
  BY <1>4, <1>5
<1>7. s \o t = u
  BY <1>4, <1>6, Join
<1> QED BY <1>1, <1>7

(* One step and two.                                                        *)
LEMMA JoinOneTwo ==
    ASSUME NEW a, NEW c, NEW d
    PROVE  <<a>> \o <<c, d>> = <<a, c, d>>
<1> DEFINE S == {a, c, d}
<1>1. PICK s, t, u : s = <<a>> /\ t = <<c, d>> /\ u = <<a, c, d>>
  OBVIOUS
<1>2. <<a>> \in Seq(S) /\ <<c, d>> \in Seq(S) /\ <<a, c, d>> \in Seq(S)
  OBVIOUS
<1>3. Len(<<a>>) = 1 /\ Len(<<c, d>>) = 2 /\ Len(<<a, c, d>>) = 3
  OBVIOUS
<1>4. s \in Seq(S) /\ t \in Seq(S) /\ u \in Seq(S) /\ Len(s) = 1 /\ Len(t) = 2 /\ Len(u) = 3
  BY <1>1, <1>2, <1>3
<1>5. \A i \in 1..3 : u[i] = IF i <= 1 THEN s[i] ELSE t[i - 1]
  BY <1>1
<1> HIDE DEF S
<1>6. Len(u) = Len(s) + Len(t) /\ \A i \in 1..Len(u) : u[i] = IF i <= Len(s) THEN s[i] ELSE t[i - Len(s)]
  BY <1>4, <1>5
<1>7. s \o t = u
  BY <1>4, <1>6, Join
<1> QED BY <1>1, <1>7

(* Two steps and two.                                                       *)
LEMMA JoinTwoTwo ==
    ASSUME NEW a, NEW b, NEW c, NEW d
    PROVE  <<a, b>> \o <<c, d>> = <<a, b, c, d>>
<1> DEFINE S == {a, b, c, d}
<1>1. PICK s, t, u : s = <<a, b>> /\ t = <<c, d>> /\ u = <<a, b, c, d>>
  OBVIOUS
<1>2. <<a, b>> \in Seq(S) /\ <<c, d>> \in Seq(S) /\ <<a, b, c, d>> \in Seq(S)
  OBVIOUS
<1>3. Len(<<a, b>>) = 2 /\ Len(<<c, d>>) = 2 /\ Len(<<a, b, c, d>>) = 4
  OBVIOUS
<1>4. s \in Seq(S) /\ t \in Seq(S) /\ u \in Seq(S) /\ Len(s) = 2 /\ Len(t) = 2 /\ Len(u) = 4
  BY <1>1, <1>2, <1>3
<1>5. \A i \in 1..4 : u[i] = IF i <= 2 THEN s[i] ELSE t[i - 2]
  BY <1>1
<1> HIDE DEF S
<1>6. Len(u) = Len(s) + Len(t) /\ \A i \in 1..Len(u) : u[i] = IF i <= Len(s) THEN s[i] ELSE t[i - Len(s)]
  BY <1>4, <1>5
<1>7. s \o t = u
  BY <1>4, <1>6, Join
<1> QED BY <1>1, <1>7

(* No steps put before or after some.                                       *)
LEMMA JoinNone ==
    ASSUME NEW a, NEW b
    PROVE  /\ <<a>> \o <<>> = <<a>> /\ <<a, b>> \o <<>> = <<a, b>>
           /\ <<>> \o <<a>> = <<a>> /\ <<>> \o <<a, b>> = <<a, b>> /\ <<>> \o <<>> = <<>>
<1> DEFINE S == {a, b}
<1>1. <<a>> \in Seq(S) /\ <<a, b>> \in Seq(S) /\ <<>> \in Seq(S)
  OBVIOUS
<1> HIDE DEF S
<1> QED BY <1>1, ConcatEmptySeq

(* What comes after the first of one step and some.                         *)
LEMMA JoinedOne ==
    ASSUME NEW a, NEW r,
           r = <<>> \/ (\E c : r = <<c>>) \/ (\E c, d : r = <<c, d>>)
    PROVE  <<a>> \o r # <<>> /\ Head(<<a>> \o r) = a /\ Tail(<<a>> \o r) = r
<1>1. CASE r = <<>>
  <2>1. <<a>> \o <<>> = <<a>>
    BY JoinNone
  <2>2. <<a>> # <<>> /\ Head(<<a>>) = a /\ Tail(<<a>>) = <<>>
    OBVIOUS
  <2> QED BY <1>1, <2>1, <2>2
<1>2. ASSUME NEW c, r = <<c>>
      PROVE  <<a>> \o r # <<>> /\ Head(<<a>> \o r) = a /\ Tail(<<a>> \o r) = r
  <2>1. <<a>> \o <<c>> = <<a, c>>
    BY JoinOneOne
  <2>2. <<a, c>> # <<>> /\ Head(<<a, c>>) = a /\ Tail(<<a, c>>) = <<c>>
    OBVIOUS
  <2> QED BY <1>2, <2>1, <2>2
<1>3. ASSUME NEW c, NEW d, r = <<c, d>>
      PROVE  <<a>> \o r # <<>> /\ Head(<<a>> \o r) = a /\ Tail(<<a>> \o r) = r
  <2>1. <<a>> \o <<c, d>> = <<a, c, d>>
    BY JoinOneTwo
  <2>2. <<a, c, d>> # <<>> /\ Head(<<a, c, d>>) = a /\ Tail(<<a, c, d>>) = <<c, d>>
    OBVIOUS
  <2> QED BY <1>3, <2>1, <2>2
<1> QED BY <1>1, <1>2, <1>3

(* What comes after the first and the second of two steps and some.         *)
LEMMA JoinedTwo ==
    ASSUME NEW a, NEW b, NEW r,
           r = <<>> \/ (\E c : r = <<c>>) \/ (\E c, d : r = <<c, d>>)
    PROVE  /\ <<a, b>> \o r # <<>> /\ Head(<<a, b>> \o r) = a
             /\ Tail(<<a, b>> \o r) # <<>> /\ Head(Tail(<<a, b>> \o r)) = b /\ Tail(Tail(<<a, b>> \o r)) = r
<1>1. CASE r = <<>>
  <2>1. <<a, b>> \o <<>> = <<a, b>>
    BY JoinNone
  <2>2. <<a, b>> # <<>> /\ Head(<<a, b>>) = a /\ Tail(<<a, b>>) # <<>> /\ Head(Tail(<<a, b>>)) = b /\ Tail(Tail(<<a, b>>)) = <<>>
    OBVIOUS
  <2> QED BY <1>1, <2>1, <2>2
<1>2. ASSUME NEW c, r = <<c>>
      PROVE  /\ <<a, b>> \o r # <<>> /\ Head(<<a, b>> \o r) = a
             /\ Tail(<<a, b>> \o r) # <<>> /\ Head(Tail(<<a, b>> \o r)) = b /\ Tail(Tail(<<a, b>> \o r)) = r
  <2>1. <<a, b>> \o <<c>> = <<a, b, c>>
    BY JoinTwoOne
  <2>2. <<a, b, c>> # <<>> /\ Head(<<a, b, c>>) = a /\ Tail(<<a, b, c>>) # <<>> /\ Head(Tail(<<a, b, c>>)) = b /\ Tail(Tail(<<a, b, c>>)) = <<c>>
    OBVIOUS
  <2> QED BY <1>2, <2>1, <2>2
<1>3. ASSUME NEW c, NEW d, r = <<c, d>>
      PROVE  /\ <<a, b>> \o r # <<>> /\ Head(<<a, b>> \o r) = a
             /\ Tail(<<a, b>> \o r) # <<>> /\ Head(Tail(<<a, b>> \o r)) = b /\ Tail(Tail(<<a, b>> \o r)) = r
  <2>1. <<a, b>> \o <<c, d>> = <<a, b, c, d>>
    BY JoinTwoTwo
  <2>2. <<a, b, c, d>> # <<>> /\ Head(<<a, b, c, d>>) = a /\ Tail(<<a, b, c, d>>) # <<>> /\ Head(Tail(<<a, b, c, d>>)) = b /\ Tail(Tail(<<a, b, c, d>>)) = <<c, d>>
    OBVIOUS
  <2> QED BY <1>3, <2>1, <2>2
<1> QED BY <1>1, <1>2, <1>3

(* The two blocks of UBIFS's master node, and what they may hold.           *)
LEMMA UbifsIs ==
    ASSUME Common, fmt = "UBIFS"
    PROVE  /\ Copies = {1, 2} /\ Parts = {"node1", "node2"}
           /\ current.whole /\ current.id \in Nat /\ current.id > 0 /\ current.id <= issued /\ current.stamp \in Nat
           /\ {safe, shown} \subseteq Nat
           /\ \A c \in Copies : /\ At(c, "node1").stamp \in Nat /\ At(c, "node1").id \in 0..issued
                                /\ At(c, "node2").stamp \in Nat /\ At(c, "node2").id \in 0..issued
                                /\ At(c, "node1").whole => At(c, "node1").stamp > 0
                                /\ At(c, "node2").whole => At(c, "node2").stamp > 0
                                /\ Latest(c).id \in 0..issued /\ Latest(c).stamp \in Nat
                                /\ Latest(c).whole => Latest(c).stamp > 0
<1>1. 1..2 = {1, 2}
  OBVIOUS
<1>2. Copies = {1, 2} /\ Parts = {"node1", "node2"}
  BY <1>1 DEF Copies, Parts
<1>3. /\ current.whole /\ current.id \in Nat /\ current.id > 0 /\ current.id <= issued /\ current.stamp \in Nat
      /\ {safe, shown} \subseteq Nat
  BY PartIs DEF Common
<1>4. ASSUME NEW c \in Copies
      PROVE  /\ At(c, "node1").stamp \in Nat /\ At(c, "node1").id \in 0..issued
             /\ At(c, "node2").stamp \in Nat /\ At(c, "node2").id \in 0..issued
             /\ At(c, "node1").whole => At(c, "node1").stamp > 0
             /\ At(c, "node2").whole => At(c, "node2").stamp > 0
             /\ Latest(c).id \in 0..issued /\ Latest(c).stamp \in Nat
             /\ Latest(c).whole => Latest(c).stamp > 0
  <2>1. "node1" \in Parts /\ "node2" \in Parts
    BY <1>2
  <2>2. /\ At(c, "node1").stamp \in Nat /\ At(c, "node1").id \in 0..issued
        /\ At(c, "node1").whole => At(c, "node1").stamp > 0
    BY <2>1, AtIs
  <2>3. /\ At(c, "node2").stamp \in Nat /\ At(c, "node2").id \in 0..issued
        /\ At(c, "node2").whole => At(c, "node2").stamp > 0
    BY <2>1, AtIs
  <2> QED BY <2>2, <2>3 DEF Latest
<1> QED BY <1>2, <1>3, <1>4

(* The last node that holds is what a block holds.                          *)
LEMMA UbifsContent ==
    ASSUME Common, fmt = "UBIFS", NEW c \in Copies, Log(c)
    PROVE  /\ Content(c) = IF Latest(c).whole THEN Latest(c) ELSE Blank
           /\ Latest(c).whole <=> At(c, "node1").whole
           /\ \E p \in Parts : At(c, p) = Latest(c)
<1>1. /\ Copies = {1, 2} /\ Parts = {"node1", "node2"}
      /\ At(c, "node1").id \in Nat /\ At(c, "node2").id \in Nat
  BY UbifsIs
<1>2. ~Blank.whole
  BY PartIs
<1> PICK a, b : a = At(c, "node1") /\ b = At(c, "node2")
  OBVIOUS
<1>3. IF a.whole THEN b.whole => a.id < b.id ELSE ~b.whole
  BY <1>2 DEF Log, Lesser
<1> PICK nodes : nodes = {p \in Parts : medium[<<c, p>>].whole}
  OBVIOUS
<1> PICK top : top = {q \in nodes : \A r \in nodes : medium[<<c, r>>].id <= medium[<<c, q>>].id}
  OBVIOUS
<1> PICK found : found = {medium[<<c, p>>] : p \in top}
  OBVIOUS
<1>4. Content(c) = IF found = {} THEN Blank ELSE CHOOSE x \in found : TRUE
  BY DEF Content
<1>5. medium[<<c, "node1">>] = a /\ medium[<<c, "node2">>] = b
  BY DEF At
<1>6. CASE ~a.whole
  <2>1. nodes = {}
    BY <1>1, <1>3, <1>5, <1>6
  <2>2. found = {}
    BY <2>1
  <2> QED BY <1>1, <1>3, <1>4, <1>6, <2>2 DEF Latest
<1>7. CASE a.whole /\ ~b.whole
  <2>1. nodes = {"node1"}
    BY <1>1, <1>5, <1>7
  <2>2. top = {"node1"}
    BY <1>1, <1>5, <2>1
  <2>3. found = {a}
    BY <1>5, <2>2
  <2> QED BY <1>1, <1>4, <1>7, <2>3 DEF Latest
<1>8. CASE a.whole /\ b.whole
  <2>1. nodes = {"node1", "node2"}
    BY <1>1, <1>5, <1>8
  <2>2. top = {"node2"}
    BY <1>1, <1>3, <1>5, <1>8, <2>1
  <2>3. found = {b}
    BY <1>5, <2>2
  <2> QED BY <1>1, <1>4, <1>8, <2>3 DEF Latest
<1> QED BY <1>3, <1>6, <1>7, <1>8

(* What is read, and found again, is y.                                     *)
UbifsRead(y) ==
    /\ y.whole /\ Known(y)
    /\ Latest(1) = y \/ (~Latest(1).whole /\ Latest(2) = y)
    /\ Latest(2) = y \/ ~Latest(2).whole \/ (Lesser(Latest(2), y) /\ Latest(1) = y)

(* In every one of its writer's stages there is one state to be read.       *)
LEMMA UbifsReads ==
    ASSUME Common, fmt = "UBIFS"
    PROVE  /\ UbifsBoth => UbifsRead(current)
           /\ UbifsFirst => UbifsRead(Latest(2))
           /\ UbifsSecond => UbifsRead(current)
<1>1. current.whole
  BY UbifsIs
<1>2. UbifsBoth => UbifsRead(current)
  BY <1>1 DEF UbifsBoth, UbifsRead
<1>3. UbifsFirst => UbifsRead(Latest(2))
  BY DEF UbifsFirst, UbifsRead
<1>4. UbifsSecond => UbifsRead(current)
  BY <1>1 DEF UbifsSecond, UbifsRead
<1> QED BY <1>2, <1>3, <1>4

(* That state is read, and is what a writer that starts again finds.        *)
LEMMA UbifsFound ==
    ASSUME Common, fmt = "UBIFS", Log(1), Log(2), NEW y, UbifsRead(y)
    PROVE  Found = y /\ Finds /\ Used # {} /\ State(Used) = y.id /\ y.id \in 0..issued
<1>1. /\ Copies = {1, 2} /\ Parts = {"node1", "node2"} /\ 1 \in Copies /\ 2 \in Copies
      /\ \A c \in Copies : /\ Latest(c).id \in 0..issued /\ Latest(c).stamp \in Nat
                           /\ Latest(c).whole => Latest(c).stamp > 0
  BY UbifsIs
<1>2. \A c \in Copies : Log(c)
  BY <1>1
<1>3. \A c \in Copies : /\ Content(c) = IF Latest(c).whole THEN Latest(c) ELSE Blank
                        /\ Latest(c).whole <=> At(c, "node1").whole
                        /\ \E p \in Parts : At(c, p) = Latest(c)
  BY <1>2, UbifsContent
<1> PICK g \in Copies : Latest(g) = y /\ (g = 1 \/ ~Latest(1).whole)
  BY <1>1 DEF UbifsRead
<1>4. y.whole /\ y.stamp \in Nat /\ y.stamp > 0 /\ y.id \in 0..issued
  BY <1>1 DEF UbifsRead
<1>5. \A d \in Copies : Latest(d).whole => Latest(d) = y \/ Latest(d).stamp < y.stamp
  BY <1>1 DEF UbifsRead, Lesser
<1>6. Found = y
  <2>1. Content(g) = y
    BY <1>3, <1>4
  <2>2. \A d \in Copies : Content(d) = Content(g)
                          \/ (Content(d).stamp \in Nat /\ Content(d).stamp < Content(g).stamp)
    <3> TAKE d \in Copies
    <3>1. CASE Latest(d).whole
      BY <1>1, <1>3, <1>5, <2>1, <3>1
    <3>2. CASE ~Latest(d).whole
      BY <1>3, <1>4, <2>1, <3>2, PartIs
    <3> QED BY <3>1, <3>2
  <2>3. ~(fmt \in {"GPT", "Btrfs", "UBItable"} /\ Content(1) # Blank)
    OBVIOUS
  <2>4. Content(g).stamp \in Nat
    BY <1>4, <2>1
  <2>5. Found = Content(g)
    BY <2>2, <2>3, <2>4, FoundIs
  <2> QED BY <2>1, <2>5
<1>7. Finds
  <2>1. PICK p \in Parts : At(g, p) = y
    BY <1>3
  <2> QED BY <1>4, <1>6, <2>1 DEF Finds
<1> DEFINE nodes(c) == IF ~At(c, "node1").whole THEN {}
                       ELSE IF ~At(c, "node2").whole THEN {"node1"} ELSE {"node1", "node2"}
           newest(c) == CHOOSE p \in nodes(c) : \A q \in nodes(c) : At(c, q).stamp <= At(c, p).stamp
           used == {c \in Copies : nodes(c) # {}}
<1>8. g \in used /\ \A d \in used : g <= d /\ (d <= g => d = g)
  BY <1>1, <1>3, <1>4
<1>9. Min(used) = g
  <2> HIDE DEF used
  <2> QED BY <1>8 DEF Min
<1>10. At(g, newest(g)) = y
  <2>1. Log(g) /\ At(g, "node1").whole
    BY <1>2, <1>3, <1>4
  <2>2. CASE ~At(g, "node2").whole
    <3>1. nodes(g) = {"node1"}
      BY <2>1, <2>2
    <3>2. newest(g) = "node1"
      <4> HIDE DEF nodes
      <4>1. newest(g) \in {"node1"}
        BY <1>1, <3>1, UbifsIs
      <4> QED BY <4>1
    <3> HIDE DEF newest, nodes
    <3>9. At(g, newest(g)) = At(g, "node1")
      BY <3>2
    <3> QED BY <2>2, <3>9 DEF Latest
  <2>3. CASE At(g, "node2").whole
    <3>1. nodes(g) = {"node1", "node2"}
      BY <2>1, <2>3
    <3>2. At(g, "node1").stamp < At(g, "node2").stamp
      BY <2>1, <2>3 DEF Log, Lesser
    <3>3. At(g, "node1").stamp \in Nat /\ At(g, "node2").stamp \in Nat
      BY UbifsIs
    <3>4. newest(g) = "node2"
      <4> HIDE DEF nodes
      <4>1. \A p \in nodes(g) : (\A q \in nodes(g) : At(g, q).stamp <= At(g, p).stamp) <=> p = "node2"
        BY <3>1, <3>2, <3>3
      <4> QED BY <3>1, <4>1
    <3> HIDE DEF newest, nodes
    <3>9. At(g, newest(g)) = At(g, "node2")
      BY <3>4
    <3> QED BY <2>3, <3>9 DEF Latest
  <2> QED BY <2>2, <2>3
<1>11. Used = {<<g, newest(g)>>}
  <2>1. Used = IF used = {} THEN {} ELSE {<<Min(used), newest(Min(used))>>}
    BY DEF Used, ReadUbifs
  <2> HIDE DEF used, newest
  <2> QED BY <1>8, <1>9, <2>1
<1>12. Used # {} /\ \A at \in Used : medium[at] = y
  <2> HIDE DEF newest
  <2> QED BY <1>10, <1>11 DEF At
<1>13. State(Used) = y.id
  BY <1>12, StateIs
<1> QED BY <1>4, <1>6, <1>7, <1>12, <1>13

(* A step of writing a block leaves the other alone, and ends with what is  *)
(* being made or leaves nothing newer.                                      *)
LEMMA LoggingLand ==
    ASSUME Common, fmt = "UBIFS", NEW c \in Copies, NEW rest, Log(c), Logging(c, rest),
           NEW w \in flying, Land(w)
    PROVE  /\ \A d \in Copies : d # c => At(d, "node1")' = At(d, "node1") /\ At(d, "node2")' = At(d, "node2")
           /\ Log(c)'
           /\ \/ Latest(c)' = current /\ Then({}, rest)'
              \/ ~Latest(c)'.whole /\ Logging(c, rest)'
<1> PICK x : x = current
  OBVIOUS
<1>1. /\ Parts = {"node1", "node2"} /\ "node1" \in Parts /\ "node2" \in Parts /\ x.whole
  BY UbifsIs
<1>2. /\ fmt' = fmt /\ current' = x /\ steps' = steps /\ flying' = flying \ {w} /\ medium' = Written(w, w.part)
      /\ Erase(c)' = Erase(c)
  BY SameFormat DEF Land
<1>3. ~Blank.whole
  BY PartIs
<1>4. CASE /\ Then({Put(c, "node2", x)}, rest)
           /\ At(c, "node1").whole /\ ~At(c, "node2").whole /\ Lesser(At(c, "node1"), x)
  <2>1. w = Put(c, "node2", x) /\ flying = {w} /\ steps = rest
    BY <1>4 DEF Then
  <2>2. \A d \in Copies, p \in Parts : At(d, p)' = IF d = c /\ p = "node2" THEN x ELSE At(d, p)
    BY <1>1, <2>1, OneLand
  <2>3. At(c, "node1")' = At(c, "node1") /\ At(c, "node2")' = x
    BY <1>1, <2>2
  <2>4. Log(c)'
    BY <1>1, <1>4, <2>3 DEF Log, Lesser
  <2>5. Latest(c)' = x
    BY <1>1, <2>3 DEF Latest
  <2>6. Then({}, rest)'
    BY <1>2, <2>1 DEF Then
  <2> QED BY <1>1, <2>2, <2>4, <2>5, <2>6
<1>5. CASE Follows(Erase(c), {Put(c, "node1", x)}, rest)
  <2>1. w \in Erase(c) /\ flying = Erase(c)
    BY <1>5 DEF Follows
  <2>2. \A d \in Copies, q \in Parts : At(d, q)' = IF d = c THEN Blank ELSE At(d, q)
    BY <1>2, <2>1, EraseWritten
  <2>3. At(c, "node1")' = Blank /\ At(c, "node2")' = Blank
    BY <1>1, <2>2
  <2>4. flying' = {}
    BY <1>2, <2>1 DEF Erase
  <2>5. (At(c, "node1") = Blank /\ Follows({}, {Put(c, "node1", current)}, rest))'
    BY <1>2, <1>5, <2>3, <2>4 DEF Follows, Put, Blank
  <2>6. Log(c)'
    BY <1>3, <2>3 DEF Log, Blank
  <2>7. ~Latest(c)'.whole
    BY <1>3, <2>3 DEF Latest
  <2>8. Logging(c, rest)'
    BY <2>5 DEF Logging
  <2> QED BY <1>1, <2>2, <2>6, <2>7, <2>8
<1>6. CASE ~At(c, "node1").whole /\ Then({Put(c, "node1", x)}, rest)
  <2>1. w = Put(c, "node1", x) /\ flying = {w} /\ steps = rest
    BY <1>6 DEF Then
  <2>2. \A d \in Copies, p \in Parts : At(d, p)' = IF d = c /\ p = "node1" THEN x ELSE At(d, p)
    BY <1>1, <2>1, OneLand
  <2>3. At(c, "node1")' = x /\ At(c, "node2")' = Blank
    BY <1>1, <1>6, <2>2 DEF Log
  <2>4. Log(c)'
    BY <1>1, <1>3, <2>3 DEF Log
  <2>5. Latest(c)' = x
    BY <1>3, <2>3 DEF Latest
  <2>6. Then({}, rest)'
    BY <1>2, <2>1 DEF Then
  <2> QED BY <1>1, <2>2, <2>4, <2>5, <2>6
<1>7. flying # {}
  OBVIOUS
<1> QED BY <1>4, <1>5, <1>6, <1>7 DEF Logging, Follows

(* A torn node ends its block, which keeps what it had or had nothing.      *)
LEMMA LoggingTear ==
    ASSUME Common, fmt = "UBIFS", NEW c \in Copies, NEW rest, Log(c), Logging(c, rest),
           NEW w \in flying, Tear(w)
    PROVE  /\ \A d \in Copies : d # c => At(d, "node1")' = At(d, "node1") /\ At(d, "node2")' = At(d, "node2")
           /\ Log(c)' /\ Logging(c, rest)'
           /\ Latest(c)' = Latest(c) \/ (~Latest(c)'.whole /\ ~Latest(c).whole)
<1> PICK x : x = current
  OBVIOUS
<1>1. /\ Parts = {"node1", "node2"} /\ "node1" \in Parts /\ "node2" \in Parts
  BY UbifsIs
<1>2. /\ fmt' = fmt /\ current' = x /\ steps' = steps /\ flying' = flying /\ w.part # Blank
  BY DEF Tear, AtOnce
<1>3. ~Blank.whole /\ w \notin Erase(c)
  BY <1>2, PartIs DEF Erase
<1>4. CASE /\ Then({Put(c, "node2", x)}, rest)
           /\ At(c, "node1").whole /\ ~At(c, "node2").whole /\ Lesser(At(c, "node1"), x)
  <2>1. w = Put(c, "node2", x)
    BY <1>4 DEF Then
  <2>2. PICK z : ~z.whole /\ \A d \in Copies, p \in Parts : At(d, p)' = IF d = c /\ p = "node2" THEN z ELSE At(d, p)
    BY <1>1, <2>1, OneTear
  <2>3. At(c, "node1")' = At(c, "node1") /\ ~At(c, "node2")'.whole
    BY <1>1, <2>2
  <2>4. Log(c)'
    BY <1>4, <2>3 DEF Log
  <2>5. Latest(c)' = Latest(c)
    BY <1>4, <2>3 DEF Latest
  <2>6. (/\ Then({Put(c, "node2", current)}, rest)
         /\ At(c, "node1").whole /\ ~At(c, "node2").whole /\ Lesser(At(c, "node1"), current))'
    BY <1>2, <1>4, <2>3 DEF Then, Lesser, Put
  <2>7. Logging(c, rest)'
    BY <2>6 DEF Logging
  <2> QED BY <1>1, <2>2, <2>4, <2>5, <2>7
<1>5. CASE ~At(c, "node1").whole /\ Then({Put(c, "node1", x)}, rest)
  <2>1. w = Put(c, "node1", x)
    BY <1>5 DEF Then
  <2>2. PICK z : ~z.whole /\ \A d \in Copies, p \in Parts : At(d, p)' = IF d = c /\ p = "node1" THEN z ELSE At(d, p)
    BY <1>1, <2>1, OneTear
  <2>3. ~At(c, "node1")'.whole /\ At(c, "node2")' = Blank /\ At(c, "node2") = Blank
    BY <1>1, <1>5, <2>2 DEF Log
  <2>4. Log(c)'
    BY <2>3 DEF Log, Blank
  <2>5. ~Latest(c)'.whole /\ ~Latest(c).whole
    BY <1>3, <1>5, <2>3 DEF Latest
  <2>6. (~At(c, "node1").whole /\ Then({Put(c, "node1", current)}, rest))'
    BY <1>2, <1>5, <2>3 DEF Then, Put
  <2>7. Logging(c, rest)'
    BY <2>6 DEF Logging
  <2> QED BY <1>1, <2>2, <2>4, <2>5, <2>7
<1>6. flying # {} /\ flying # Erase(c)
  BY <1>3
<1> QED BY <1>4, <1>5, <1>6 DEF Logging, Follows

(* A block's first node is begun when the block is erased.                  *)
LEMMA LoggingFlush ==
    ASSUME Common, fmt = "UBIFS", NEW c \in Copies, NEW rest, Logging(c, rest),
           Flush, shown' = shown
    PROVE  Logging(c, rest)'
<1> PICK x : x = current
  OBVIOUS
<1>1. /\ current' = x /\ flying = {} /\ flying' = Head(steps) /\ steps' = Tail(steps)
      /\ \A d, p : At(d, p)' = At(d, p)
  BY FlushKeeps
<1>2. Erase(c) # {} /\ ~Blank.whole
  BY PartIs DEF Erase
<1>3. At(c, "node1") = Blank /\ Follows({}, {Put(c, "node1", x)}, rest)
  BY <1>1, <1>2 DEF Logging, Follows, Then
<1>4. (~At(c, "node1").whole /\ Then({Put(c, "node1", current)}, rest))'
  BY <1>1, <1>2, <1>3 DEF Follows, Then, Put
<1> QED BY <1>4 DEF Logging

(* A reader leaves the writing of a block as it is.                         *)
LEMMA LoggingKept ==
    ASSUME NEW c \in Copies, NEW rest, Logging(c, rest), UNCHANGED writer
    PROVE  Logging(c, rest)'
<1>1. /\ current' = current /\ flying' = flying /\ steps' = steps /\ Erase(c)' = Erase(c)
      /\ \A d, p : At(d, p)' = At(d, p)
  BY OpenLeaves
<1>2. ASSUME NEW S, NEW T
      PROVE  Follows(S, T, rest)' = Follows(S, T, rest) /\ Then(S, rest)' = Then(S, rest)
  BY <1>1 DEF Follows, Then
<1>3. \A p : Put(c, p, current)' = Put(c, p, current)
  BY <1>1 DEF Put
<1> PICK x : x = current
  OBVIOUS
<1>4. CASE /\ Then({Put(c, "node2", x)}, rest)
           /\ At(c, "node1").whole /\ ~At(c, "node2").whole /\ Lesser(At(c, "node1"), x)
  <2>1. (/\ Then({Put(c, "node2", current)}, rest)
         /\ At(c, "node1").whole /\ ~At(c, "node2").whole /\ Lesser(At(c, "node1"), current))'
    BY <1>1, <1>4 DEF Then, Lesser, Put
  <2> QED BY <2>1 DEF Logging
<1>5. CASE Follows(Erase(c), {Put(c, "node1", x)}, rest)
  <2>1. Follows(Erase(c), {Put(c, "node1", current)}, rest)'
    BY <1>1, <1>5 DEF Follows, Put
  <2> QED BY <2>1 DEF Logging
<1>6. CASE At(c, "node1") = Blank /\ Follows({}, {Put(c, "node1", x)}, rest)
  <2>1. (At(c, "node1") = Blank /\ Follows({}, {Put(c, "node1", current)}, rest))'
    BY <1>1, <1>6 DEF Follows, Put, Blank
  <2> QED BY <2>1 DEF Logging
<1>7. CASE ~At(c, "node1").whole /\ Then({Put(c, "node1", x)}, rest)
  <2>1. (~At(c, "node1").whole /\ Then({Put(c, "node1", current)}, rest))'
    BY <1>1, <1>7 DEF Then, Put
  <2> QED BY <2>1 DEF Logging
<1> QED BY <1>4, <1>5, <1>6, <1>7 DEF Logging

(* How a block is written, and how that is begun.                           *)
LEMMA AppendingIs ==
    ASSUME NEW c, NEW x
    PROVE  /\ (\E a : Appending(c, x) = <<a>>) \/ (\E a, b : Appending(c, x) = <<a, b>>)
           /\ IF At(c, "node1").whole /\ At(c, "node2") = Blank THEN Appending(c, x) = <<{Put(c, "node2", x)}>>
              ELSE Appending(c, x) = <<Erase(c), {Put(c, "node1", x)}>>
BY DEF Appending, At

(* The writing of a block is begun, with other steps to come after it.      *)
LEMMA AppendingStart ==
    ASSUME Common, fmt = "UBIFS", NEW c \in Copies, NEW x, NEW r, Log(c), Latest(c).whole => Lesser(Latest(c), x),
           r = <<>> \/ (\E a : r = <<a>>) \/ (\E a, b : r = <<a, b>>),
           Start(Appending(c, x) \o r), fmt' = fmt, current' = x, \A d, p : At(d, p)' = At(d, p)
    PROVE  Logging(c, r)'
<1>1. Erase(c)' = Erase(c) /\ ~Blank.whole
  BY SameFormat, PartIs
<1>2. CASE At(c, "node1").whole /\ At(c, "node2") = Blank
  <2>1. PICK e : e = {Put(c, "node2", x)}
    OBVIOUS
  <2>2. Appending(c, x) = <<e>>
    BY <1>2, <2>1, AppendingIs
  <2>3. <<e>> \o r # <<>> /\ Head(<<e>> \o r) = e /\ Tail(<<e>> \o r) = r
    BY JoinedOne
  <2>4. flying' = {Put(c, "node2", x)} /\ steps' = r
    BY <2>1, <2>2, <2>3 DEF Start
  <2>5. Lesser(At(c, "node1"), x)
    BY <1>1, <1>2 DEF Latest
  <2>6. (/\ Then({Put(c, "node2", current)}, r)
         /\ At(c, "node1").whole /\ ~At(c, "node2").whole /\ Lesser(At(c, "node1"), current))'
    BY <1>1, <1>2, <2>4, <2>5 DEF Then, Lesser, Put
  <2> QED BY <2>6 DEF Logging
<1>3. CASE ~(At(c, "node1").whole /\ At(c, "node2") = Blank)
  <2>1. PICK e, f : e = Erase(c) /\ f = {Put(c, "node1", x)}
    OBVIOUS
  <2>2. Appending(c, x) = <<e, f>>
    BY <1>3, <2>1, AppendingIs
  <2>3. PICK j : j = <<e, f>> \o r
    OBVIOUS
  <2>7. /\ <<e, f>> \o r # <<>> /\ Head(<<e, f>> \o r) = e
        /\ Tail(<<e, f>> \o r) # <<>> /\ Head(Tail(<<e, f>> \o r)) = f /\ Tail(Tail(<<e, f>> \o r)) = r
    BY JoinedTwo
  <2>4. j # <<>> /\ Head(j) = e /\ Tail(j) # <<>> /\ Head(Tail(j)) = f /\ Tail(Tail(j)) = r
    BY <2>3, <2>7
  <2>5. flying' = e /\ steps' = Tail(j)
    BY <2>2, <2>3, <2>4 DEF Start
  <2>6. Follows(Erase(c), {Put(c, "node1", current)}, r)'
    BY <1>1, <2>1, <2>4, <2>5 DEF Follows, Put
  <2> QED BY <2>6 DEF Logging
<1> QED BY <1>2, <1>3

(* A block that is not written stays as it is.                              *)
LEMMA BlockKept ==
    ASSUME NEW d, At(d, "node1")' = At(d, "node1"), At(d, "node2")' = At(d, "node2"), fmt' = fmt
    PROVE  /\ Latest(d)' = Latest(d)
           /\ Log(d) => Log(d)'
           /\ \A x : x = current' => Appending(d, current)' = Appending(d, x)
<1>1. Latest(d)' = Latest(d)
  BY DEF Latest
<1>2. Log(d) => Log(d)'
  BY DEF Log, Lesser, Blank
<1>3. Erase(d)' = Erase(d) /\ Blank' = Blank
  BY SameFormat DEF Blank
<1>4. \A x : x = current' => Appending(d, current)' = Appending(d, x)
  BY <1>3 DEF Appending, At, Put
<1> QED BY <1>1, <1>2, <1>4

(* With nothing under way both blocks end with the state made last.         *)
LEMMA UbifsIdle ==
    ASSUME Idle, UbifsBoth \/ UbifsFirst \/ UbifsSecond
    PROVE  UbifsBoth
<1>1. \A c, rest : ~Logging(c, rest)
  BY DEF Logging, Idle, Then, Follows
<1>2. Appending(2, current) # <<>>
  BY AppendingIs, StartOf
<1> QED BY <1>1, <1>2 DEF UbifsFirst, UbifsSecond, Idle, Then

(* A new master node goes into the first block first.                       *)
LEMMA UbifsBegin ==
    ASSUME Common, fmt = "UBIFS", Log(1), Log(2), UbifsBoth \/ UbifsFirst \/ UbifsSecond, Begin, shown' = shown
    PROVE  Log(1)' /\ Log(2)' /\ UbifsFirst'
<1> PICK x : x = current'
  OBVIOUS
<1>1. /\ fmt' = fmt /\ safe' = safe /\ Start(Plan(x)) /\ Idle
      /\ Lesser(current, x) /\ \A d, p : At(d, p)' = At(d, p)
  BY BeginKeeps DEF Idle
<1>2. UbifsBoth
  BY <1>1, UbifsIdle
<1> PICK r : r = Appending(2, x)
  OBVIOUS
<1>3. Plan(x) = Appending(1, x) \o r
  BY DEF Plan
<1>4. r = <<>> \/ (\E a : r = <<a>>) \/ (\E a, b : r = <<a, b>>)
  BY AppendingIs
<1>5. 1 \in Copies /\ current.whole
  BY UbifsIs
<1>6. Latest(1).whole => Lesser(Latest(1), x)
  BY <1>1, <1>2 DEF UbifsBoth
<1>7. Logging(1, r)'
  <2>1. Start(Appending(1, x) \o r)
    BY <1>1, <1>3
  <2> QED BY <1>1, <1>4, <1>5, <1>6, <2>1, AppendingStart
<1>8. /\ Latest(1)' = Latest(1) /\ Latest(2)' = Latest(2) /\ Log(1)' /\ Log(2)'
      /\ Appending(2, current)' = r
  BY <1>1, BlockKept
<1>9. (Latest(2).whole /\ Known(Latest(2)) /\ (Latest(1).whole => Latest(1) = Latest(2)))'
  BY <1>1, <1>2, <1>5, <1>8 DEF UbifsBoth, Known
<1>10. Lesser(Latest(2), current)'
  BY <1>1, <1>2, <1>8 DEF UbifsBoth, Lesser
<1>11. Logging(1, Appending(2, current))'
  BY <1>7, <1>8
<1> QED BY <1>8, <1>9, <1>10, <1>11 DEF UbifsFirst

(* A node reaches the medium, or a block is erased.                         *)
LEMMA UbifsLand ==
    ASSUME Common, fmt = "UBIFS", Log(1), Log(2), UbifsBoth \/ UbifsFirst \/ UbifsSecond,
           NEW w \in flying, Land(w), shown' = shown
    PROVE  Log(1)' /\ Log(2)' /\ (UbifsBoth' \/ UbifsFirst' \/ UbifsSecond')
<1> PICK x : x = current
  OBVIOUS
<1>1. Copies = {1, 2} /\ 1 \in Copies /\ 2 \in Copies /\ x.whole /\ x.id \in Nat /\ {safe, shown} \subseteq Nat
      /\ Latest(2).id \in Nat
  BY UbifsIs
<1>2. fmt' = fmt /\ current' = x /\ safe' = safe /\ steps' = steps
  BY DEF Land
<1>3. \A y : Known(y)' <=> Known(y)
  BY <1>2 DEF Known
<1>4. CASE UbifsFirst /\ current = Latest(2) /\ ~Latest(1).whole /\ Logging(1, <<>>)
  <2>1. /\ \A d \in Copies : d # 1 => At(d, "node1")' = At(d, "node1") /\ At(d, "node2")' = At(d, "node2")
        /\ Log(1)'
        /\ \/ Latest(1)' = current /\ Then({}, <<>>)'
           \/ ~Latest(1)'.whole /\ Logging(1, <<>>)'
    BY <1>1, <1>4, LoggingLand
  <2>2. Latest(2)' = Latest(2) /\ Log(2)'
    BY <1>1, <1>2, <2>1, BlockKept
  <2>3. CASE Latest(1)' = current /\ Then({}, <<>>)'
    <3>1. UbifsBoth'
      BY <1>2, <1>3, <1>4, <2>2, <2>3 DEF UbifsBoth, UbifsFirst, Idle, Then
    <3> QED BY <2>1, <2>2, <3>1
  <2>4. CASE ~Latest(1)'.whole /\ Logging(1, <<>>)'
    <3>1. UbifsFirst'
      BY <1>2, <1>3, <1>4, <2>2, <2>4 DEF UbifsFirst
    <3> QED BY <2>1, <2>2, <3>1
  <2> QED BY <2>1, <2>3, <2>4
<1>5. CASE UbifsFirst /\ Lesser(Latest(2), current) /\ Logging(1, Appending(2, current))
  <2> PICK r : r = Appending(2, x)
    OBVIOUS
  <2>1. Logging(1, r)
    BY <1>5
  <2>2. /\ \A d \in Copies : d # 1 => At(d, "node1")' = At(d, "node1") /\ At(d, "node2")' = At(d, "node2")
        /\ Log(1)'
        /\ \/ Latest(1)' = current /\ Then({}, r)'
           \/ ~Latest(1)'.whole /\ Logging(1, r)'
    BY <1>1, <2>1, LoggingLand
  <2>3. Latest(2)' = Latest(2) /\ Log(2)' /\ Appending(2, current)' = r
    BY <1>1, <1>2, <2>2, BlockKept
  <2>4. Lesser(Latest(2), current)'
    BY <1>2, <1>5, <2>3 DEF Lesser
  <2>5. CASE Latest(1)' = current /\ Then({}, r)'
    <3>1. Known(current)'
      BY <1>1, <1>2, <1>5 DEF UbifsFirst, Known, Lesser
    <3>2. Then({}, Appending(2, current))'
      BY <2>3, <2>5
    <3>3. UbifsSecond'
      BY <1>2, <2>4, <2>5, <3>1, <3>2 DEF UbifsSecond
    <3> QED BY <2>2, <2>3, <3>3
  <2>6. CASE ~Latest(1)'.whole /\ Logging(1, r)'
    <3>1. Logging(1, Appending(2, current))'
      BY <2>3, <2>6
    <3>2. UbifsFirst'
      BY <1>3, <1>5, <2>3, <2>4, <2>6, <3>1 DEF UbifsFirst
    <3> QED BY <2>2, <2>3, <3>2
  <2> QED BY <2>2, <2>5, <2>6
<1>6. CASE UbifsSecond /\ Logging(2, <<>>)
  <2>1. /\ \A d \in Copies : d # 2 => At(d, "node1")' = At(d, "node1") /\ At(d, "node2")' = At(d, "node2")
        /\ Log(2)'
        /\ \/ Latest(2)' = current /\ Then({}, <<>>)'
           \/ ~Latest(2)'.whole /\ Logging(2, <<>>)'
    BY <1>1, <1>6, LoggingLand
  <2>2. Latest(1)' = Latest(1) /\ Log(1)'
    BY <1>1, <1>2, <2>1, BlockKept
  <2>3. CASE Latest(2)' = current /\ Then({}, <<>>)'
    <3>1. UbifsBoth'
      BY <1>2, <1>3, <1>6, <2>2, <2>3 DEF UbifsBoth, UbifsSecond, Idle, Then
    <3> QED BY <2>1, <2>2, <3>1
  <2>4. CASE ~Latest(2)'.whole /\ Logging(2, <<>>)'
    <3>1. UbifsSecond'
      BY <1>2, <1>3, <1>6, <2>2, <2>4 DEF UbifsSecond
    <3> QED BY <2>1, <2>2, <3>1
  <2> QED BY <2>1, <2>3, <2>4
<1>7. flying # {}
  OBVIOUS
<1> QED BY <1>4, <1>5, <1>6, <1>7 DEF UbifsBoth, UbifsFirst, UbifsSecond, Idle, Then

(* A torn node leaves a block with the nodes before it.                     *)
LEMMA UbifsTear ==
    ASSUME Common, fmt = "UBIFS", Log(1), Log(2), UbifsBoth \/ UbifsFirst \/ UbifsSecond,
           NEW w \in flying, Tear(w), shown' = shown
    PROVE  Log(1)' /\ Log(2)' /\ (UbifsFirst' \/ UbifsSecond')
<1> PICK x : x = current
  OBVIOUS
<1>1. Copies = {1, 2} /\ 1 \in Copies /\ 2 \in Copies /\ x.whole
  BY UbifsIs
<1>2. fmt' = fmt /\ current' = x /\ safe' = safe /\ steps' = steps
  BY DEF Tear
<1>3. \A y : Known(y)' <=> Known(y)
  BY <1>2 DEF Known
<1>4. CASE UbifsFirst /\ current = Latest(2) /\ ~Latest(1).whole /\ Logging(1, <<>>)
  <2>1. /\ \A d \in Copies : d # 1 => At(d, "node1")' = At(d, "node1") /\ At(d, "node2")' = At(d, "node2")
        /\ Log(1)' /\ Logging(1, <<>>)'
        /\ Latest(1)' = Latest(1) \/ (~Latest(1)'.whole /\ ~Latest(1).whole)
    BY <1>1, <1>4, LoggingTear
  <2>2. Latest(2)' = Latest(2) /\ Log(2)'
    BY <1>1, <1>2, <2>1, BlockKept
  <2>3. UbifsFirst'
    BY <1>2, <1>3, <1>4, <2>1, <2>2 DEF UbifsFirst
  <2> QED BY <2>1, <2>2, <2>3
<1>5. CASE UbifsFirst /\ Lesser(Latest(2), current) /\ Logging(1, Appending(2, current))
  <2> PICK r : r = Appending(2, x)
    OBVIOUS
  <2>1. Logging(1, r)
    BY <1>5
  <2>2. /\ \A d \in Copies : d # 1 => At(d, "node1")' = At(d, "node1") /\ At(d, "node2")' = At(d, "node2")
        /\ Log(1)' /\ Logging(1, r)'
        /\ Latest(1)' = Latest(1) \/ (~Latest(1)'.whole /\ ~Latest(1).whole)
    BY <1>1, <2>1, LoggingTear
  <2>3. Latest(2)' = Latest(2) /\ Log(2)' /\ Appending(2, current)' = r
    BY <1>1, <1>2, <2>2, BlockKept
  <2>4. Lesser(Latest(2), current)'
    BY <1>2, <1>5, <2>3 DEF Lesser
  <2>5. Logging(1, Appending(2, current))'
    BY <2>2, <2>3
  <2>6. UbifsFirst'
    BY <1>3, <1>5, <2>2, <2>3, <2>4, <2>5 DEF UbifsFirst
  <2> QED BY <2>2, <2>3, <2>6
<1>6. CASE UbifsSecond /\ Logging(2, <<>>)
  <2>1. /\ \A d \in Copies : d # 2 => At(d, "node1")' = At(d, "node1") /\ At(d, "node2")' = At(d, "node2")
        /\ Log(2)' /\ Logging(2, <<>>)'
        /\ Latest(2)' = Latest(2) \/ (~Latest(2)'.whole /\ ~Latest(2).whole)
    BY <1>1, <1>6, LoggingTear
  <2>2. Latest(1)' = Latest(1) /\ Log(1)'
    BY <1>1, <1>2, <2>1, BlockKept
  <2>3. (Latest(2).whole => Lesser(Latest(2), current))'
    BY <1>2, <1>6, <2>1 DEF UbifsSecond, Lesser
  <2>4. UbifsSecond'
    BY <1>2, <1>3, <1>6, <2>1, <2>2, <2>3 DEF UbifsSecond
  <2> QED BY <2>1, <2>2, <2>4
<1>7. flying # {}
  OBVIOUS
<1> QED BY <1>4, <1>5, <1>6, <1>7 DEF UbifsBoth, UbifsFirst, UbifsSecond, Idle, Then

(* The next step of a block's writing is begun.                             *)
LEMMA UbifsFlush ==
    ASSUME Common, fmt = "UBIFS", Log(1), Log(2), UbifsBoth \/ UbifsFirst \/ UbifsSecond, Flush, shown' = shown
    PROVE  Log(1)' /\ Log(2)' /\ (UbifsFirst' \/ UbifsSecond')
<1> PICK x : x = current
  OBVIOUS
<1>1. /\ current' = x /\ fmt' = fmt /\ safe' = safe /\ flying = {} /\ steps # <<>>
      /\ flying' = Head(steps) /\ steps' = Tail(steps) /\ \A d, p : At(d, p)' = At(d, p)
  BY FlushKeeps
<1>2. 1 \in Copies /\ 2 \in Copies
  BY UbifsIs
<1> PICK r : r = Appending(2, x)
  OBVIOUS
<1>3. /\ Latest(1)' = Latest(1) /\ Latest(2)' = Latest(2) /\ Log(1)' /\ Log(2)'
      /\ Appending(2, current)' = r
  BY <1>1, BlockKept
<1>4. \A y : Known(y)' <=> Known(y)
  BY <1>1 DEF Known
<1>5. \A y : Lesser(y, current)' <=> Lesser(y, x)
  BY <1>1 DEF Lesser
<1>6. Lesser(Latest(2), current)' <=> Lesser(Latest(2), x)
  BY <1>1, <1>3 DEF Lesser
<1>7. CASE UbifsFirst /\ current = Latest(2) /\ ~Latest(1).whole /\ Logging(1, <<>>)
  <2>1. Logging(1, <<>>)'
    BY <1>2, <1>7, LoggingFlush
  <2>2. UbifsFirst'
    BY <1>1, <1>3, <1>4, <1>7, <2>1 DEF UbifsFirst
  <2> QED BY <1>3, <2>2
<1>8. CASE UbifsFirst /\ Lesser(Latest(2), current) /\ Logging(1, Appending(2, current))
  <2>1. Logging(1, r)
    BY <1>8
  <2>2. Logging(1, r)'
    BY <1>2, <2>1, LoggingFlush
  <2>3. Logging(1, Appending(2, current))'
    BY <1>3, <2>2
  <2>4. UbifsFirst'
    BY <1>3, <1>4, <1>6, <1>8, <2>3 DEF UbifsFirst
  <2> QED BY <1>3, <2>4
<1>9. CASE UbifsSecond
  <2>1. Logging(2, <<>>)'
    <3>1. CASE Then({}, Appending(2, current))
      <4>1. steps = r /\ r \o <<>> = r
        BY <3>1, AppendingIs, JoinNone DEF Then
      <4>2. Start(Appending(2, x) \o <<>>)
        BY <1>1, <4>1 DEF Start
      <4>3. Latest(2).whole => Lesser(Latest(2), x)
        BY <1>9 DEF UbifsSecond
      <4> QED BY <1>1, <1>2, <4>2, <4>3, AppendingStart
    <3>2. CASE Logging(2, <<>>)
      BY <1>2, <3>2, LoggingFlush
    <3> QED BY <1>9, <3>1, <3>2 DEF UbifsSecond
  <2>2. Latest(1)' = current' /\ Known(current)'
    BY <1>1, <1>3, <1>4, <1>9 DEF UbifsSecond
  <2>3. (Latest(2).whole => Lesser(Latest(2), current))'
    BY <1>3, <1>6, <1>9 DEF UbifsSecond
  <2>4. UbifsSecond'
    BY <2>1, <2>2, <2>3 DEF UbifsSecond
  <2> QED BY <1>3, <2>4
<1> QED BY <1>1, <1>7, <1>8, <1>9 DEF UbifsBoth, UbifsFirst, Idle

(* A state that was written to both blocks is safe.                         *)
LEMMA UbifsFinish ==
    ASSUME Common, fmt = "UBIFS", Log(1), Log(2), UbifsBoth \/ UbifsFirst \/ UbifsSecond, Finish, shown' = shown
    PROVE  Log(1)' /\ Log(2)' /\ UbifsBoth'
<1>1. /\ current' = current /\ fmt' = fmt /\ safe' = current.id /\ Idle /\ Idle'
      /\ \A d, p : At(d, p)' = At(d, p)
  BY FinishKeeps
<1>2. UbifsBoth
  BY <1>1, UbifsIdle
<1>3. current.id \in Nat
  BY UbifsIs
<1>4. Latest(1)' = Latest(1) /\ Latest(2)' = Latest(2) /\ Log(1)' /\ Log(2)'
  BY <1>1, BlockKept
<1>5. Known(current)'
  BY <1>1, <1>2, <1>3 DEF UbifsBoth, Known
<1> QED BY <1>1, <1>2, <1>4, <1>5 DEF UbifsBoth

(* A block that does not end with the state found is written again.         *)
LEMMA UbifsCrash ==
    ASSUME Common, fmt = "UBIFS", Log(1), Log(2), UbifsBoth \/ UbifsFirst \/ UbifsSecond, Crash, shown' = shown
    PROVE  Log(1)' /\ Log(2)' /\ (UbifsBoth' \/ UbifsFirst' \/ UbifsSecond')
<1>1. PICK y : UbifsRead(y)
  BY UbifsReads
<1>2. Found = y /\ Finds
  BY <1>1, UbifsFound
<1>3. /\ current' = y /\ fmt' = fmt /\ safe' = safe /\ Start(Mending(y)) /\ \A d, p : At(d, p)' = At(d, p)
  BY <1>2, CrashKeeps
<1>4. Copies = {1, 2} /\ 1 \in Copies /\ 2 \in Copies
  BY UbifsIs
<1>5. Latest(1)' = Latest(1) /\ Latest(2)' = Latest(2) /\ Log(1)' /\ Log(2)'
  BY <1>3, BlockKept
<1>6. Content(1) = IF Latest(1).whole THEN Latest(1) ELSE Blank
  BY <1>4, UbifsContent
<1>7. Content(2) = IF Latest(2).whole THEN Latest(2) ELSE Blank
  BY <1>4, UbifsContent
<1>8. y.whole /\ ~Blank.whole /\ Known(current)'
  BY <1>1, <1>3, PartIs DEF UbifsRead, Known
<1> PICK s, t : /\ s = (IF Content(1) # y THEN Appending(1, y) ELSE <<>>)
                /\ t = (IF Content(2) # y THEN Appending(2, y) ELSE <<>>)
  OBVIOUS
<1>9. Mending(y) = s \o t
  <2> DEFINE stale == {c \in Copies : Content(c) # y}
  <2>1. (1 \in stale <=> Content(1) # y) /\ (2 \in stale <=> Content(2) # y)
    BY <1>4
  <2>2. Mending(y) = (IF 1 \in stale THEN Appending(1, y) ELSE <<>>) \o (IF 2 \in stale THEN Appending(2, y) ELSE <<>>)
    BY DEF Mending, Mirrored
  <2> HIDE DEF stale
  <2> QED BY <2>1, <2>2
<1>10. CASE Latest(1) = y /\ Latest(2) = y
  <2>1. s = <<>> /\ t = <<>>
    BY <1>6, <1>7, <1>8, <1>10
  <2>2. s \o t = <<>>
    BY <2>1, JoinNone
  <2>3. Idle'
    BY <1>3, <1>9, <2>2 DEF Start, Idle
  <2>4. UbifsBoth'
    BY <1>3, <1>5, <1>8, <1>10, <2>3 DEF UbifsBoth
  <2> QED BY <1>5, <2>4
<1>11. CASE ~Latest(1).whole /\ Latest(2) = y
  <2>1. s = Appending(1, y) /\ t = <<>>
    BY <1>6, <1>7, <1>8, <1>11
  <2>2. Start(Appending(1, y) \o <<>>)
    BY <1>3, <1>9, <2>1
  <2>3. Logging(1, <<>>)'
    BY <1>3, <1>4, <1>11, <2>2, AppendingStart
  <2>4. UbifsFirst'
    BY <1>3, <1>5, <1>8, <1>11, <2>3 DEF UbifsFirst
  <2> QED BY <1>5, <2>4
<1>12. CASE Latest(1) = y /\ Latest(2) # y
  <2>1. s = <<>> /\ t = Appending(2, y)
    BY <1>6, <1>7, <1>8, <1>12
  <2>7. (\E a : t = <<a>>) \/ (\E a, b : t = <<a, b>>)
    BY <2>1, AppendingIs
  <2>2. s \o t = t /\ t \o <<>> = t
    BY <2>1, <2>7, JoinNone
  <2>3. Start(Appending(2, y) \o <<>>)
    BY <1>3, <1>9, <2>1, <2>2
  <2>4. Latest(2).whole => Lesser(Latest(2), y)
    BY <1>1, <1>12 DEF UbifsRead
  <2>5. Logging(2, <<>>)'
    BY <1>3, <1>4, <2>3, <2>4, AppendingStart
  <2>6. (Latest(2).whole => Lesser(Latest(2), current))'
    BY <1>3, <1>5, <2>4 DEF Lesser
  <2>8. UbifsSecond'
    BY <1>3, <1>5, <1>8, <1>12, <2>5, <2>6 DEF UbifsSecond
  <2> QED BY <1>5, <2>8
<1> QED BY <1>1, <1>10, <1>11, <1>12 DEF UbifsRead

(* What is shown becomes the oldest that may be shown again.                *)
LEMMA UbifsOpen ==
    ASSUME Common, fmt = "UBIFS", Log(1), Log(2), UbifsBoth \/ UbifsFirst \/ UbifsSecond, UNCHANGED writer,
           shown' \in {shown, State(Used)}
    PROVE  Log(1)' /\ Log(2)' /\ (UbifsBoth' \/ UbifsFirst' \/ UbifsSecond')
<1> PICK x : x = current
  OBVIOUS
<1>1. /\ current' = x /\ fmt' = fmt /\ safe' = safe /\ Idle' = Idle /\ \A d, p : At(d, p)' = At(d, p)
  BY OpenLeaves
<1>2. 1 \in Copies /\ 2 \in Copies
  BY UbifsIs
<1> PICK r : r = Appending(2, x)
  OBVIOUS
<1>3. /\ Latest(1)' = Latest(1) /\ Latest(2)' = Latest(2) /\ Log(1)' /\ Log(2)'
      /\ Appending(2, current)' = r
  BY <1>1, BlockKept
<1>4. ASSUME NEW y, UbifsRead(y)
      PROVE  Known(y)'
  <2>1. State(Used) = y.id /\ y.id \in Nat
    BY <1>4, UbifsFound, UbifsIs
  <2> QED BY <1>1, <1>4, <2>1, UbifsIs DEF UbifsRead, Known
<1>5. Lesser(Latest(2), current)' <=> Lesser(Latest(2), x)
  BY <1>1, <1>3 DEF Lesser
<1>6. CASE UbifsBoth
  <2>1. Known(x)'
    BY <1>4, <1>6, UbifsReads
  <2>2. Known(current)'
    BY <1>1, <2>1 DEF Known
  <2>3. UbifsBoth'
    BY <1>1, <1>3, <1>6, <2>2 DEF UbifsBoth
  <2> QED BY <1>3, <2>3
<1>7. CASE UbifsFirst
  <2> PICK y : y = Latest(2)
    OBVIOUS
  <2>1. Known(y)'
    BY <1>4, <1>7, UbifsReads
  <2>2. Known(Latest(2))'
    BY <1>3, <2>1 DEF Known
  <2>3. Logging(1, <<>>) => Logging(1, <<>>)'
    BY <1>2, LoggingKept
  <2>4. Logging(1, r) => Logging(1, r)'
    BY <1>2, LoggingKept
  <2>5. Logging(1, Appending(2, current)) => Logging(1, Appending(2, current))'
    BY <1>3, <2>4
  <2>6. UbifsFirst'
    BY <1>1, <1>3, <1>5, <1>7, <2>2, <2>3, <2>5 DEF UbifsFirst
  <2> QED BY <1>3, <2>6
<1>8. CASE UbifsSecond
  <2>1. Known(x)'
    BY <1>4, <1>8, UbifsReads
  <2>2. Known(current)'
    BY <1>1, <2>1 DEF Known
  <2>3. Logging(2, <<>>) => Logging(2, <<>>)'
    BY <1>2, LoggingKept
  <2>4. Then({}, r) => Then({}, r)'
    BY OpenLeaves
  <2>5. Then({}, Appending(2, current)) => Then({}, Appending(2, current))'
    BY <1>3, <2>4
  <2>6. UbifsSecond'
    BY <1>1, <1>3, <1>5, <1>8, <2>2, <2>3, <2>5 DEF UbifsSecond
  <2> QED BY <1>3, <2>6
<1> QED BY <1>6, <1>7, <1>8

(* What UBIFS's reader is shown, and what its writer has under way.         *)
LEMMA UbifsShows ==
    ASSUME Common, fmt = "UBIFS", UbifsInv
    PROVE  Shows /\ Flies /\ Finds
<1>1. Log(1) /\ Log(2) /\ (UbifsBoth \/ UbifsFirst \/ UbifsSecond)
  BY DEF UbifsInv
<1>2. PICK y : UbifsRead(y)
  BY <1>1, UbifsReads
<1>3. Used # {} /\ State(Used) = y.id /\ Finds /\ y.id \in 0..issued
  BY <1>1, <1>2, UbifsFound
<1>4. Known(y)
  BY <1>2 DEF UbifsRead
<1>5. Copies = {1, 2} /\ Parts = {"node1", "node2"}
  BY UbifsIs
<1>6. \A w \in flying : \/ \E c \in Copies, p \in Parts : w = Put(c, p, current)
                        \/ \E c \in Copies : w \in Erase(c)
  BY <1>1, <1>5 DEF UbifsBoth, UbifsFirst, UbifsSecond, Logging, Follows, Then, Idle
<1>7. Flies
  <2> SUFFICES ASSUME NEW w \in flying
               PROVE  w.part \in {current, Blank} /\ w.at \subseteq Copies \X Parts
    BY DEF Flies
  <2>1. ASSUME NEW c \in Copies, NEW p \in Parts, w = Put(c, p, current)
        PROVE  w.part = current /\ w.at = {<<c, p>>}
    BY <2>1 DEF Put
  <2>2. ASSUME NEW c \in Copies, w \in Erase(c)
        PROVE  w.part = Blank /\ w.at = {c} \X Parts
    BY <2>2 DEF Erase
  <2> QED BY <1>6, <2>1, <2>2
<1>8. issued \in Nat
  BY DEF Common
<1> QED BY <1>3, <1>4, <1>7, <1>8 DEF Shows, Known

(* Every step keeps what UBIFS's reader relies on.                          *)
LEMMA UbifsStep ==
    ASSUME Common, fmt = "UBIFS", UbifsInv, WriterStep \/ ReaderStep
    PROVE  UbifsInv'
<1>1. Log(1) /\ Log(2) /\ (UbifsBoth \/ UbifsFirst \/ UbifsSecond)
  BY DEF UbifsInv
<1>2. Log(1)' /\ Log(2)' /\ (UbifsBoth' \/ UbifsFirst' \/ UbifsSecond')
  <2>1. CASE WriterStep /\ Begin
    BY <1>1, <2>1, UbifsBegin DEF WriterStep
  <2>2. CASE WriterStep /\ Flush
    BY <1>1, <2>2, UbifsFlush DEF WriterStep
  <2>3. CASE WriterStep /\ Finish
    BY <1>1, <2>3, UbifsFinish DEF WriterStep
  <2>4. CASE WriterStep /\ Crash
    BY <1>1, <2>4, UbifsCrash DEF WriterStep
  <2>5. CASE WriterStep /\ \E w \in flying : Land(w)
    BY <1>1, <2>5, UbifsLand DEF WriterStep
  <2>6. CASE WriterStep /\ \E w \in flying : Tear(w)
    BY <1>1, <2>6, UbifsTear DEF WriterStep
  <2>7. CASE ReaderStep
    BY <1>1, <2>7, UbifsOpen DEF ReaderStep
  <2> QED BY <2>1, <2>2, <2>3, <2>4, <2>5, <2>6, <2>7 DEF WriterStep, WriterNext
<1> QED BY <1>2 DEF UbifsInv

-----------------------------------------------------------------------------
(* All formats.                                                             *)

(* Each format is one of those whose writers are described.                 *)
LEMMA Kinds ==
    ASSUME fmt \in Formats
    PROVE  \/ fmt \in Serial \/ fmt = "Btrfs" \/ fmt = "UBItable" \/ fmt = "GPT"
           \/ fmt = "F2FS" \/ fmt = "LVM" \/ fmt = "UBI" \/ fmt = "UBIFS"
<1>1. fmt \in Alternating \cup Mirrored \cup {"LVM", "UBI", "UBIFS"}
  BY WriterAssumption
<1> QED BY <1>1 DEF Alternating, Mirrored, Serial

(* What the medium holds when nothing was written but the first state.      *)
LEMMA InitIs ==
    ASSUME Init
    PROVE  /\ Common /\ Idle /\ current = First /\ Known(First)
           /\ \A c \in Copies, p \in Parts :
                 At(c, p) = IF (fmt \in Alternating \cup {"UBI"} /\ c = 2) \/ p \in {"text2", "node2"}
                            THEN Blank ELSE First
<1>1. /\ fmt \in Formats /\ steps = <<>> /\ flying = {} /\ making = 0 /\ current = First
      /\ issued = 1 /\ safe = 1 /\ shown = 1
      /\ medium = [at \in Copies \X Parts |->
                     IF \/ fmt \in Alternating \cup {"UBI"} /\ at[1] = 2
                        \/ at[2] \in {"text2", "node2"} THEN Blank ELSE First]
  BY DEF Init, WriterInit
<1>2. /\ First \in Part /\ First.id = 1 /\ First.stamp = 1 /\ First.whole
      /\ Blank \in Part /\ Blank.id = 0 /\ ~Blank.whole
  BY PartIs DEF First
<1>3. medium \in [Copies \X Parts -> Part] /\ \A a \in Copies \X Parts : medium[a] = First \/ medium[a] = Blank
  BY <1>1, <1>2
<1>4. \A a \in Copies \X Parts :
          /\ medium[a].id <= issued
          /\ IF medium[a].whole THEN medium[a].id > 0 /\ medium[a].stamp > 0 ELSE medium[a].id = 0
          /\ medium[a].id = current.id => medium[a] = current
          /\ \A b \in Copies \X Parts : medium[a].id = medium[b].id /\ medium[a].whole => medium[a] = medium[b]
  BY <1>1, <1>2, <1>3
<1>5. Common
  BY <1>1, <1>2, <1>3, <1>4 DEF Common
<1>6. Idle /\ Known(First)
  BY <1>1, <1>2 DEF Idle, Known
<1>7. ASSUME NEW c \in Copies, NEW p \in Parts
      PROVE  At(c, p) = IF (fmt \in Alternating \cup {"UBI"} /\ c = 2) \/ p \in {"text2", "node2"}
                        THEN Blank ELSE First
  <2>1. <<c, p>> \in Copies \X Parts /\ <<c, p>>[1] = c /\ <<c, p>>[2] = p
    OBVIOUS
  <2> QED BY <1>1, <2>1 DEF At
<1> QED BY <1>1, <1>5, <1>6, <1>7

(* The first state of each format's medium is one its invariant allows.     *)
LEMMA InitIInv ==
    ASSUME Init
    PROVE  IInv
<1>1. /\ Common /\ Idle /\ current = First /\ Known(First)
      /\ \A c \in Copies, p \in Parts :
            At(c, p) = IF (fmt \in Alternating \cup {"UBI"} /\ c = 2) \/ p \in {"text2", "node2"}
                       THEN Blank ELSE First
  BY InitIs
<1>2. /\ First.id = 1 /\ First.stamp = 1 /\ First.whole
      /\ Blank.id = 0 /\ Blank.stamp = 0 /\ ~Blank.whole /\ Lesser(Blank, First) /\ Blank # First
  BY PartIs DEF First, Lesser
<1>3. SerialInv
  <2> SUFFICES ASSUME fmt \in Serial
               PROVE  SerialAt(1)
    BY SerialCopies DEF SerialInv
  <2>1. /\ Copies = (IF fmt = "APFS" THEN {0, 1, 2} ELSE {1, 2}) /\ 1 \in Copies /\ Zero = 0
        /\ fmt \in {"QNX6", "ReFS", "APFS", "LUKS2"} /\ Copies \ {Zero} = {1, 2}
    BY SerialCopies
  <2>2. Parts = {"block"}
    BY <2>1 DEF Parts
  <2>3. \A c \in Copies : Held(c) = IF fmt # "LUKS2" /\ c = 2 THEN Blank ELSE First
    BY <1>1, <2>1, <2>2 DEF Held, Alternating
  <2>4. Held(1) = First /\ Held(2) = IF fmt # "LUKS2" THEN Blank ELSE First
    BY <2>1, <2>3
  <2>5. fmt = "APFS" => 1 # Zero /\ Held(Zero).whole
    BY <1>2, <2>1, <2>3
  <2>6. fmt # "LUKS2" => \A d \in Copies \ {Zero, 1} : Held(d) # Held(1)
    BY <1>2, <2>1, <2>4
  <2>7. \A d \in Copies : Held(d).whole => Held(d) = Held(1)
    BY <1>2, <2>3, <2>4
  <2>8. fmt = "LUKS2" => \A d \in Copies : Held(d) = current
    BY <1>1, <2>3
  <2> QED BY <1>1, <1>2, <2>4, <2>5, <2>6, <2>7, <2>8 DEF SerialAt
<1>4. BtrfsInv
  <2> SUFFICES ASSUME fmt = "Btrfs"
               PROVE  BtrfsAt({})
    BY DEF BtrfsInv
  <2>1. Parts = {"block"}
    BY DEF Parts
  <2>2. \A c \in Copies : Held(c) = current
    BY <1>1, <2>1 DEF Held, Alternating
  <2>3. UNION {All(c, current) : c \in {}} = {}
    OBVIOUS
  <2>4. Then(UNION {All(c, current) : c \in {}}, <<>>)
    BY <1>1, <2>3 DEF Then, Idle
  <2> QED BY <1>1, <2>2, <2>4 DEF BtrfsAt
<1>5. TableInv
  <2> SUFFICES ASSUME fmt = "UBItable"
               PROVE  TableIdle
    BY DEF TableInv
  <2>1. Copies = {1, 2} /\ Parts = {"block"}
    BY DEF Copies, Parts
  <2> QED BY <1>1, <2>1 DEF TableIdle, Held, Alternating
<1>6. GptInv
  <2> SUFFICES ASSUME fmt = "GPT"
               PROVE  GptFirst({})
    BY DEF GptInv
  <2>1. Copies = {1, 2} /\ Parts = {"head", "array"}
    BY DEF Copies, Parts
  <2>2. \A c \in {1, 2}, p \in Parts : At(c, p) = First
    BY <1>1, <2>1 DEF Alternating
  <2>3. Putting(2, {}) /\ steps = <<>>
    BY <1>1 DEF Putting, Idle
  <2> QED BY <1>1, <1>2, <2>1, <2>2, <2>3 DEF GptFirst
<1>7. F2fsInv
  <2> SUFFICES ASSUME fmt = "F2FS"
               PROVE  1 \in Copies /\ F2fsAt(1)
    BY DEF F2fsInv
  <2>1. Copies = {1, 2} /\ Parts = {"head", "body", "tail"}
    BY DEF Copies, Parts
  <2>2. (\A p \in Parts : At(1, p) = First) /\ At(2, "tail") = Blank
    BY <1>1, <2>1 DEF Alternating
  <2>3. 3 - 1 = 2
    OBVIOUS
  <2> QED BY <1>1, <1>2, <2>1, <2>2, <2>3 DEF F2fsAt
<1>8. LvmInv
  <2> SUFFICES ASSUME fmt = "LVM"
               PROVE  LvmAreas /\ LvmRest
    BY DEF LvmInv
  <2>1. Copies = {1, 2} /\ Parts = {"head", "text1", "text2"}
    BY DEF Copies, Parts
  <2>2. \A c \in {1, 2} : At(c, "head") = First /\ At(c, "text1") = First /\ At(c, "text2") = Blank
    BY <1>1, <2>1 DEF Alternating
  <2>3. Area(1) /\ Area(2)
    BY <1>2, <2>2 DEF Area, Texts
  <2> QED BY <1>1, <2>2, <2>3 DEF LvmAreas, LvmRest
<1>9. UbiInv
  <2> SUFFICES ASSUME fmt = "UBI"
               PROVE  1 \in Copies /\ 2 \in Copies /\ UbiAt(1, 2)
    BY DEF UbiInv
  <2>1. Copies = {1, 2} /\ Parts = {"vid", "data"}
    BY DEF Copies, Parts
  <2>2. At(1, "vid") = First /\ At(1, "data") = First /\ At(2, "vid") = Blank
    BY <1>1, <2>1 DEF Alternating
  <2> QED BY <1>1, <1>2, <2>1, <2>2 DEF UbiAt, UbiWhole, UbiDone
<1>10. UbifsInv
  <2> SUFFICES ASSUME fmt = "UBIFS"
               PROVE  Log(1) /\ Log(2) /\ UbifsBoth
    BY DEF UbifsInv
  <2>1. Copies = {1, 2} /\ Parts = {"node1", "node2"}
    BY DEF Copies, Parts
  <2>2. \A c \in {1, 2} : At(c, "node1") = First /\ At(c, "node2") = Blank
    BY <1>1, <2>1 DEF Alternating
  <2> QED BY <1>1, <1>2, <2>2 DEF Log, UbifsBoth, Latest
<1> QED BY <1>1, <1>3, <1>4, <1>5, <1>6, <1>7, <1>8, <1>9, <1>10 DEF IInv

(* Whatever the format a reader is shown one state that it may be shown.    *)
LEMMA AllShow ==
    ASSUME IInv
    PROVE  Shows /\ Flies /\ Finds
<1>1. Common
  BY DEF IInv
<1>2. fmt \in Formats
  BY <1>1 DEF Common
<1>3. CASE fmt \in Serial
  BY <1>1, <1>3, SerialShows DEF IInv
<1>4. CASE fmt = "Btrfs"
  BY <1>1, <1>4, BtrfsShows DEF IInv
<1>5. CASE fmt = "UBItable"
  BY <1>1, <1>5, TableShows DEF IInv
<1>6. CASE fmt = "GPT"
  BY <1>1, <1>6, GptShows DEF IInv
<1>7. CASE fmt = "F2FS"
  BY <1>1, <1>7, F2fsShows DEF IInv
<1>8. CASE fmt = "LVM"
  BY <1>1, <1>8, LvmShows DEF IInv
<1>9. CASE fmt = "UBI"
  BY <1>1, <1>9, UbiShows DEF IInv
<1>10. CASE fmt = "UBIFS"
  BY <1>1, <1>10, UbifsShows DEF IInv
<1> QED BY <1>2, <1>3, <1>4, <1>5, <1>6, <1>7, <1>8, <1>9, <1>10, Kinds

(* With nothing under way the state made last is one that may be shown, so  *)
(* what becomes safe is never older than what was.                          *)
LEMMA MadeIsKnown ==
    ASSUME IInv, Idle
    PROVE  Known(current)
<1>1. Common
  BY DEF IInv
<1>2. fmt \in Formats
  BY <1>1 DEF Common
<1>3. CASE fmt \in Serial
  <2>1. PICK c \in Copies : SerialAt(c)
    BY <1>3 DEF IInv, SerialInv
  <2>2. \A d : All(d, current) # {}
    BY <1>1, <1>3, OneBlock
  <2>3. current = Held(c)
    BY <2>1, <2>2 DEF SerialAt, Idle, Then
  <2> QED BY <2>1, <2>3 DEF SerialAt
<1>4. CASE fmt = "Btrfs"
  <2>1. PICK T \in SUBSET Copies : BtrfsAt(T)
    BY <1>4 DEF IInv, BtrfsInv
  <2> QED BY <1>1, <1>4, <2>1, BtrfsIs DEF Idle
<1>5. CASE fmt = "UBItable"
  <2>1. /\ All(1, current) # {} /\ All(2, current) # {}
        /\ TableIdle \/ TableFirst \/ TableSecond \/ TableMend
    BY <1>1, <1>5, TableIs DEF IInv
  <2>2. /\ <<All(1, current), Erase(2), All(2, current)>> # <<>> /\ <<Erase(2), All(2, current)>> # <<>>
        /\ <<All(2, current)>> # <<>>
    BY StartOf
  <2> QED BY <2>1, <2>2 DEF TableIdle, TableFirst, TableSecond, TableMend, Then, Idle
<1>6. CASE fmt = "GPT"
  <2>1. PICK T \in SUBSET Parts : GptFirst(T) \/ GptBackup(T)
    BY <1>6 DEF IInv, GptInv
  <2> QED BY <1>1, <1>6, <2>1, GptIdle
<1>7. CASE fmt = "F2FS"
  <2>1. PICK c \in Copies : F2fsAt(c)
    BY <1>7 DEF IInv, F2fsInv
  <2>2. <<{Put(3 - c, "tail", current)}>> # <<>>
    BY StartOf
  <2> QED BY <2>1, <2>2 DEF F2fsAt, Idle, Then
<1>8. CASE fmt = "LVM"
  <2>1. LvmAreas /\ (LvmRest \/ (\E T \in SUBSET Copies : LvmTexts(T)) \/ LvmFirst \/ LvmSecond)
    BY <1>8 DEF IInv, LvmInv
  <2>2. <<{Put(1, "head", current)}, {Put(2, "head", current)}>> # <<>> /\ <<{Put(2, "head", current)}>> # <<>>
    BY StartOf
  <2> QED BY <2>1, <2>2 DEF LvmAreas, LvmRest, LvmTexts, LvmFirst, LvmSecond, Then, Idle
<1>9. CASE fmt = "UBI"
  <2>1. PICK c, o \in Copies : UbiAt(c, o)
    BY <1>9 DEF IInv, UbiInv
  <2>2. /\ <<{Put(o, "vid", current)}, {Put(o, "data", current)}, Erase(c)>> # <<>>
        /\ <<{Put(o, "data", current)}, Erase(c)>> # <<>> /\ <<Erase(c)>> # <<>>
    BY StartOf
  <2>3. current = At(c, "vid")
    BY <2>1, <2>2 DEF UbiAt, UbiDone, UbiMake, UbiErase, UbiErased, UbiVid, UbiVidDone, UbiData, Then, Idle
  <2> QED BY <2>1, <2>3 DEF UbiAt, UbiWhole
<1>10. CASE fmt = "UBIFS"
  <2>1. UbifsBoth
    BY <1>10, UbifsIdle DEF IInv, UbifsInv
  <2> QED BY <2>1 DEF UbifsBoth
<1> QED BY <1>2, <1>3, <1>4, <1>5, <1>6, <1>7, <1>8, <1>9, <1>10, Kinds

(* A step is one of a writer, of a reader, or of neither.                   *)
LEMMA StepIs ==
    ASSUME [Next]_vars
    PROVE  WriterStep \/ ReaderStep
  BY DEF Next, vars, WriterStep, ReaderStep, OpenCopy

(* A volume stays one of its format.                                        *)
LEMMA FormatStays ==
    ASSUME WriterStep \/ ReaderStep
    PROVE  fmt' = fmt
  BY DEF WriterStep, WriterNext, ReaderStep, writer, Begin, Flush, Finish, Crash, Land, Tear

(* Every step keeps what all formats share.                                 *)
LEMMA CommonStep ==
    ASSUME IInv, WriterStep \/ ReaderStep
    PROVE  Common'
<1>1. Common
  BY DEF IInv
<1>2. Shows /\ Flies /\ Finds
  BY AllShow
<1>3. CASE WriterStep /\ Begin
  BY <1>1, <1>3, BeginKeeps DEF WriterStep
<1>4. CASE WriterStep /\ Flush
  BY <1>1, <1>4, FlushKeeps DEF WriterStep
<1>5. CASE WriterStep /\ Finish
  BY <1>1, <1>5, FinishKeeps DEF WriterStep
<1>6. CASE WriterStep /\ Crash
  BY <1>1, <1>2, <1>6, CrashKeeps DEF WriterStep
<1>7. CASE WriterStep /\ \E w \in flying : Land(w)
  BY <1>1, <1>2, <1>7, LandKeeps DEF WriterStep
<1>8. CASE WriterStep /\ \E w \in flying : Tear(w)
  BY <1>1, <1>2, <1>8, TearKeeps DEF WriterStep
<1>9. CASE ReaderStep
  <2>1. shown \in Nat \ {0}
    BY <1>1 DEF Common
  <2>2. State(Used) \in Nat \ {0}
    BY <1>2, <2>1 DEF Shows
  <2> QED BY <1>1, <1>9, <2>1, <2>2, OpenKeeps DEF ReaderStep
<1> QED BY <1>3, <1>4, <1>5, <1>6, <1>7, <1>8, <1>9 DEF WriterStep, WriterNext

(* F2FS's reader looks at no checksum: the medium must not tear a block.    *)
TearsNoPack == fmt = "F2FS" => "F2FS" \in Untorn

(* Every step keeps what the format's reader relies on.                     *)
LEMMA NextIInv ==
    ASSUME IInv, TearsNoPack, WriterStep \/ ReaderStep
    PROVE  IInv'
<1>1. Common /\ fmt \in Formats /\ fmt' = fmt
  BY FormatStays DEF IInv, Common
<1>2. Common'
  BY CommonStep
<1>3. SerialInv'
  BY <1>1, SerialStep DEF IInv, SerialInv
<1>4. BtrfsInv'
  BY <1>1, BtrfsStep DEF IInv, BtrfsInv
<1>5. TableInv'
  BY <1>1, TableStep DEF IInv, TableInv
<1>6. GptInv'
  BY <1>1, GptStep DEF IInv, GptInv
<1>7. F2fsInv'
  BY <1>1, F2fsStep DEF IInv, F2fsInv, TearsNoPack
<1>8. LvmInv'
  BY <1>1, LvmStep DEF IInv, LvmInv
<1>9. UbiInv'
  BY <1>1, UbiStep DEF IInv, UbiInv
<1>10. UbifsInv'
  BY <1>1, UbifsStep DEF IInv, UbifsInv
<1> QED BY <1>2, <1>3, <1>4, <1>5, <1>6, <1>7, <1>8, <1>9, <1>10 DEF IInv

-----------------------------------------------------------------------------
(* The theorems, about ten formats whatever is torn, and about F2FS on a    *)
(* medium that writes a block whole or not at all.                          *)

(* Whenever and however often the writing stopped, each reader finds a copy *)
(* to read the volume by (sb_slots, _load_checkpoint, _newest_checkpoint,   *)
(* _btrfs_pick_super, _luks2, LvmPv, read_gpt, UBI and UBIFS's _master).    *)
THEOREM NewestCopyAlwaysFound == Spec /\ TearsNoPack => []IsAlwaysFound
<1>1. Init => IInv
  BY InitIInv
<1>2. IInv /\ TearsNoPack /\ [Next]_vars => IInv' /\ TearsNoPack'
  BY StepIs, NextIInv, FormatStays DEF TearsNoPack
<1>3. IInv => IsAlwaysFound
  BY AllShow DEF Shows, IsAlwaysFound
<1> QED BY <1>1, <1>2, <1>3, PTL DEF Spec

(* A step is one of the store's, or leaves what it promises alone.          *)
LEMMA StoreStep ==
    ASSUME IInv, [Next]_vars
    PROVE  [Store!Next]_<<issued, safe, shown>>
<1>1. Common /\ issued \in Nat /\ safe \in Nat /\ shown \in Nat
  BY DEF IInv, Common
<1>2. CASE Begin /\ shown' = shown
  BY <1>2 DEF Begin, Store!Next, Store!Begin
<1>3. CASE Finish /\ shown' = shown
  <2>1. safe' = current.id /\ Idle /\ issued' = issued
    BY <1>1, <1>3, FinishKeeps DEF Finish
  <2>2. safe <= current.id
    BY <2>1, MadeIsKnown DEF Known
  <2>3. current.id \in 1..issued
    BY <1>1 DEF Common
  <2>4. safe' = safe \/ safe' \in (safe + 1)..issued
    BY <1>1, <2>1, <2>2, <2>3
  <2> QED BY <1>3, <2>1, <2>4 DEF Store!Next, Store!Sync
<1>4. CASE OpenCopy
  <2>1. Shows
    BY AllShow
  <2>2. shown' = State(Used) /\ issued' = issued /\ safe' = safe
    BY <1>4 DEF OpenCopy, writer
  <2>3. shown' \in shown..issued /\ shown' >= safe
    BY <1>1, <2>1, <2>2 DEF Shows
  <2> QED BY <2>2, <2>3 DEF Store!Next, Store!Show
<1>5. CASE (Flush \/ Crash \/ \E w \in flying : Land(w) \/ Tear(w)) /\ shown' = shown
  BY <1>5 DEF Flush, Crash, Land, Tear
<1>6. CASE UNCHANGED vars
  BY <1>6 DEF vars, writer
<1> QED BY <1>2, <1>3, <1>4, <1>5, <1>6 DEF Next, WriterNext

(* What qnxprobe.py reads a volume of the other ten formats by is an atomic *)
(* store: one state, whole, no older than the last that was safe, nor than  *)
(* one read before, whatever block was torn whenever the writing stopped    *)
(* (_newest_checkpoint, _btrfs_pick_super, _luks2, LvmPv, read_gpt, UBI);   *)
(* and a volume of F2FS, where the medium tears no block (_load_checkpoint).*)
THEOREM NewestCopyIsAtomic == Spec /\ TearsNoPack => IsAtomic
<1>1. Init => IInv
  BY InitIInv
<1>2. IInv /\ TearsNoPack /\ [Next]_vars => IInv' /\ TearsNoPack'
  BY StepIs, NextIInv, FormatStays DEF TearsNoPack
<1>3. Init => Store!Init
  BY DEF Init, WriterInit, Store!Init
<1>4. IInv /\ [Next]_vars => [Store!Next]_<<issued, safe, shown>>
  BY StoreStep
<1>5. Store!Spec <=> Store!Init /\ [][Store!Next]_<<issued, safe, shown>>
  BY DEF Store!Spec, Store!vars
<1> QED BY <1>1, <1>2, <1>3, <1>4, <1>5, PTL DEF Spec, IsAtomic
=============================================================================
