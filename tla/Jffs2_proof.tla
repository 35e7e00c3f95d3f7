----------------------------- MODULE Jffs2_proof -----------------------------
(***************************************************************************)
(* Proofs about Jffs2 for any names, any size of file, any number of nodes  *)
(* and of files: whatever step the device stopped at, its directory and its *)
(* file are read as it had them, and a deleted file that is given back is   *)
(* one file, as it was when it was deleted.                                 *)
(***************************************************************************)
EXTENDS Jffs2, Numbers_proof, SequenceTheorems

-----------------------------------------------------------------------------
(* The inductive invariant: what is on the flash, and what the driver knows *)
(* of it.                                                                   *)

(* A node, and what is known of a file.  A version is never more than the   *)
(* number of nodes written, so of any nodes there is a newest.              *)
Vals == (0..MaxLives) \X (0..MaxNodes)
States == {"valid", "obsolete", "torn", "erased"}
Node == [kind : {"inode", "dirent"}, ver : Nat, life : 0..MaxLives, size : 0..FilePages,
         page : 0..FilePages, val : Vals, name : Names \cup {""}, ino : {0, Ino}, state : States]
File == [life : 0..MaxLives, ver : Nat, size : 0..FilePages, at : [0..FilePages -> Nat]]

FlashType ==
    /\ nor \in BOOLEAN
    /\ chip \in Seq(Node) /\ Len(chip) <= MaxNodes
    /\ \A x \in Written : chip[x].ver <= x
    /\ file \in File /\ file.ver <= Len(chip)
    /\ names \in [Names -> Nat]
    /\ dead \in Seq([held : Contents, at : SUBSET Nat])

(* The nodes that a mount would see are of the last file, and on a flash    *)
(* where nodes cannot be marked none are.                                   *)
Lives ==
    /\ Len(dead) = IF file.ver > 0 THEN file.life - 1 ELSE file.life
    /\ \A x \in Written : chip[x].kind = "inode" => chip[x].life <= file.life
    /\ \A x \in InodeNodes : chip[x].life = file.life
    /\ file.ver = 0 => \A p \in 0..FilePages : file.at[p] = Nowhere
    /\ nor \/ On({"obsolete"}) = {}
    /\ Named # {} => file.ver > 0

(* What says what a name names is newer than all else that would, and is    *)
(* gone only when nothing else would.                                       *)
NamesKept ==
    \A n \in Names :
       /\ names[n] = Nowhere => OfName(n) = {}
       /\ names[n] # Nowhere =>
             /\ names[n] \in Written /\ chip[names[n]].kind = "dirent" /\ chip[names[n]].name = n
             /\ names[n] \in Valid \/ (chip[names[n]].ino = 0 /\ OfName(n) = {})
             /\ \A y \in OfName(n) : y = names[n] \/ chip[y].ver < chip[names[n]].ver

(* The nodes of a file ever written, there or not.                          *)
Nodes(l) == {x \in Written : chip[x].kind = "inode" /\ chip[x].life = l /\ chip[x].state # "torn"}

(* Of the nodes of the file, the newest tells its size, and the newest of   *)
(* each range is the one the driver knows of; the driver needs them all.    *)
FileKept ==
    file.ver > 0 =>
       /\ \A p \in 0..FilePages :
             /\ p > file.size => file.at[p] = Nowhere
             /\ p \in 1..file.size => file.at[p] # Nowhere
             /\ file.at[p] # Nowhere =>
                   file.at[p] \in Nodes(file.life) \cap Valid /\ chip[file.at[p]].page = p
       /\ \E p \in 0..FilePages : file.at[p] # Nowhere /\ chip[file.at[p]].ver = file.ver
       /\ \A y \in Nodes(file.life) :
             /\ chip[y].ver <= file.ver
             /\ chip[y].ver = file.ver => chip[y].size = file.size
             /\ chip[y].page \in 1..file.size =>
                   y = file.at[chip[y].page] \/ Supersedes(file.at[chip[y].page], y)

(* Nodes "at" of a file are as new as all others and tell what it holds;    *)
(* those of a deleted file go on telling what it held.                      *)
Tells(l, at, held) ==
    /\ at \subseteq Nodes(l)
    /\ \E x \in at : \A y \in Nodes(l) :
          chip[y].ver < chip[x].ver \/ (chip[y].ver = chip[x].ver /\ chip[y].size = held.size)
    /\ \A p \in Pages :
          IF p > held.size THEN held.pages[p] = Zeros
          ELSE \E x \in at : /\ chip[x].page = p /\ chip[x].val = held.pages[p]
                             /\ \A y \in Nodes(l) : chip[y].page = p => y = x \/ Supersedes(x, y)

DeadKept == \A l \in 1..Len(dead) : Tells(l, dead[l].at, dead[l].held)

IInv == FlashType /\ Lives /\ NamesKept /\ FileKept /\ DeadKept

-----------------------------------------------------------------------------
(* What a step makes of the flash: a node more, or a node less.             *)
Grown(d) ==
    /\ nor' = nor /\ d \in Node /\ d.ver <= Here
    /\ Len(chip) < MaxNodes /\ chip' \in Seq(Node) /\ Len(chip') = Here
    /\ Written' = Written \cup {Here} /\ Here \notin Written /\ Here \in Nat
    /\ \A x \in Written : chip'[x] = chip[x]
    /\ chip'[Here] = d

Dropped(x, s) ==
    /\ nor' = nor /\ x \in On({"valid", "obsolete"}) \ Needed /\ s \in {"obsolete", "erased"}
    /\ chip' \in Seq(Node) /\ Len(chip') = Len(chip) /\ Written' = Written
    /\ \A y \in Written :
          /\ chip'[y].state = IF y = x THEN s ELSE chip[y].state
          /\ chip'[y].kind = chip[y].kind /\ chip'[y].ver = chip[y].ver
          /\ chip'[y].life = chip[y].life /\ chip'[y].size = chip[y].size
          /\ chip'[y].page = chip[y].page /\ chip'[y].val = chip[y].val
          /\ chip'[y].name = chip[y].name /\ chip'[y].ino = chip[y].ino

(* A node is written.                                                       *)
LEMMA PutGrows ==
    ASSUME FlashType, NEW d \in Node, d.ver <= Here, Put(d), nor' = nor
    PROVE  Grown(d)
<1>1. chip \in Seq(Node) /\ Len(chip) \in Nat
  BY DEF FlashType
<1>2. chip' = Append(chip, d) /\ Len(chip) < MaxNodes
  BY DEF Put
<1>3. /\ chip' \in Seq(Node) /\ Len(chip') = Len(chip) + 1
      /\ \A x \in 1..Len(chip) : chip'[x] = chip[x]
      /\ chip'[Len(chip) + 1] = d
  BY <1>1, <1>2
<1> QED BY <1>1, <1>2, <1>3 DEF Grown, Here, Written

(* The state of a node changes.                                             *)
LEMMA StateDrops ==
    ASSUME FlashType, NEW x \in On({"valid", "obsolete"}) \ Needed, NEW s \in {"obsolete", "erased"},
           chip' = [chip EXCEPT ![x].state = s], nor' = nor
    PROVE  Dropped(x, s)
<1>1. x \in Written /\ chip \in Seq(Node)
  BY DEF On, FlashType
<1>2. /\ Len(chip') = Len(chip) /\ Written' = Written
      /\ \A y \in Written : chip'[y] = IF y = x THEN [chip[x] EXCEPT !.state = s] ELSE chip[y]
  BY <1>1 DEF Written
<1>3. \A y \in Written : chip[y] \in Node
  BY <1>1 DEF Written
<1>4. [chip[x] EXCEPT !.state = s] \in Node
  BY <1>1, <1>3 DEF Node, States
<1>5. chip' \in Seq(Node)
  BY <1>1, <1>4, ExceptSeq DEF Written
<1>6. \A y \in Written :
          /\ chip'[y].state = IF y = x THEN s ELSE chip[y].state
          /\ chip'[y].kind = chip[y].kind /\ chip'[y].ver = chip[y].ver
          /\ chip'[y].life = chip[y].life /\ chip'[y].size = chip[y].size
          /\ chip'[y].page = chip[y].page /\ chip'[y].val = chip[y].val
          /\ chip'[y].name = chip[y].name /\ chip'[y].ino = chip[y].ino
  <2> DEFINE e == [chip[x] EXCEPT !.state = s]
  <2>1. /\ e.state = s /\ e.kind = chip[x].kind /\ e.ver = chip[x].ver /\ e.life = chip[x].life
        /\ e.size = chip[x].size /\ e.page = chip[x].page /\ e.val = chip[x].val
        /\ e.name = chip[x].name /\ e.ino = chip[x].ino
    BY <1>1, <1>3 DEF Node
  <2> HIDE DEF e
  <2>2. \A y \in Written : chip'[y] = IF y = x THEN e ELSE chip[y]
    BY <1>2 DEF e
  <2> QED BY <2>1, <2>2
<1> QED BY <1>2, <1>5, <1>6 DEF Dropped

(* What is of a type.                                                       *)
LEMMA Typed ==
    ASSUME FlashType
    PROVE  /\ Len(chip) \in Nat /\ Here \in Nat /\ Here = Len(chip) + 1 /\ Written \subseteq Nat
           /\ \A x \in Written :
                 /\ chip[x] \in Node /\ chip[x].ver \in Nat /\ chip[x].life \in 0..MaxLives
                 /\ chip[x].size \in 0..FilePages /\ chip[x].page \in 0..FilePages
                 /\ chip[x].val \in Vals /\ chip[x].state \in States
           /\ file.life \in 0..MaxLives /\ file.ver \in Nat /\ file.size \in 0..FilePages
           /\ file.at \in [0..FilePages -> Nat]
           /\ Zeros \in Vals
<1>1. chip \in Seq(Node)
  BY DEF FlashType
<1>2. \A x \in Written : chip[x] \in Node
  BY <1>1 DEF Written
<1>3. Zeros \in Vals
  BY FlashBounds DEF Zeros, Vals
<1>4. ASSUME NEW d \in Node
      PROVE  /\ d.ver \in Nat /\ d.life \in 0..MaxLives
             /\ d.size \in 0..FilePages /\ d.page \in 0..FilePages
             /\ d.val \in Vals /\ d.state \in States
  BY DEF Node
<1>5. Len(chip) \in Nat /\ Here \in Nat /\ Here = Len(chip) + 1 /\ Written \subseteq Nat
  BY <1>1 DEF Written, Here
<1>6. /\ file.life \in 0..MaxLives /\ file.ver \in Nat /\ file.size \in 0..FilePages
      /\ file.at \in [0..FilePages -> Nat]
  BY DEF FlashType, File
<1> QED BY <1>2, <1>3, <1>4, <1>5, <1>6

(* The version of a new name is more than that of any before it.            *)
LEMMA NextNameIs ==
    ASSUME FlashType
    PROVE  /\ NextName \in Nat /\ NextName <= Here
           /\ \A x \in Written : chip[x].kind = "dirent" => chip[x].ver < NextName
<1> DEFINE S == {chip[x].ver : x \in {y \in Written : chip[y].kind = "dirent"}} \cup {0}
<1>1. \A x \in Written : chip[x].ver \in Nat /\ chip[x].ver <= Len(chip)
  BY Typed DEF FlashType, Written
<1>2. S \subseteq Nat /\ S # {} /\ \A v \in S : v <= Len(chip)
  BY <1>1, Typed
<1>3. NextName = 1 + Max(S)
  BY DEF NextName
<1> HIDE DEF S
<1>4. Max(S) \in S /\ \A v \in S : v <= Max(S)
  BY <1>2, Typed, GreatestOf
<1>5. \A x \in Written : chip[x].kind = "dirent" => chip[x].ver \in S
  BY DEF S
<1>6. Max(S) \in Nat /\ Max(S) <= Len(chip) /\ Len(chip) \in Nat /\ Here = Len(chip) + 1
  BY <1>2, <1>4, Typed
<1>7. ASSUME NEW x \in Written, chip[x].kind = "dirent" PROVE chip[x].ver < NextName
  BY <1>1, <1>3, <1>4, <1>5, <1>6, <1>7
<1> QED BY <1>3, <1>6, <1>7

(* What a step leaves alone of the nodes there were: all but their state.   *)
Alike ==
    /\ Written \subseteq Written'
    /\ \A y \in Written :
          /\ chip'[y].kind = chip[y].kind /\ chip'[y].ver = chip[y].ver
          /\ chip'[y].life = chip[y].life /\ chip'[y].size = chip[y].size
          /\ chip'[y].page = chip[y].page /\ chip'[y].val = chip[y].val
          /\ chip'[y].name = chip[y].name /\ chip'[y].ino = chip[y].ino

(* What of the flash a mount sees, and of its files, when a node is         *)
(* written.                                                                 *)
LEMMA GrownSets ==
    ASSUME FlashType, NEW d, Grown(d), d.state \in {"valid", "torn"}
    PROVE  /\ Alike
           /\ \A x : x \in Valid' <=> x \in Valid \/ (x = Here /\ d.state = "valid")
           /\ \A x : x \in On({"obsolete"})' <=> x \in On({"obsolete"})
           /\ \A x : x \in InodeNodes' <=>
                 x \in InodeNodes \/ (x = Here /\ d.state = "valid" /\ d.kind = "inode")
           /\ \A n, x : x \in OfName(n)' <=>
                 x \in OfName(n) \/ (x = Here /\ d.state = "valid" /\ d.kind = "dirent" /\ d.name = n)
           /\ \A l, x : x \in Nodes(l)' <=>
                 x \in Nodes(l) \/ (x = Here /\ d.state # "torn" /\ d.kind = "inode" /\ d.life = l)
<1>1. /\ Written' = Written \cup {Here} /\ Here \notin Written
      /\ \A x \in Written : chip'[x] = chip[x]
      /\ chip'[Here] = d
  BY DEF Grown
<1> HIDE DEF Written, Here
<1>2. Alike
  BY <1>1 DEF Alike
<1>3. \A x : x \in Valid' <=> x \in Valid \/ (x = Here /\ d.state = "valid")
  BY <1>1 DEF Valid, On
<1>4. \A x : x \in On({"obsolete"})' <=> x \in On({"obsolete"})
  BY <1>1 DEF On
<1>5. Valid \subseteq Written
  BY DEF Valid, On
<1>6. \A x : x \in InodeNodes' <=>
         x \in InodeNodes \/ (x = Here /\ d.state = "valid" /\ d.kind = "inode")
  BY <1>1, <1>3, <1>5 DEF InodeNodes
<1>7. \A n, x : x \in OfName(n)' <=>
         x \in OfName(n) \/ (x = Here /\ d.state = "valid" /\ d.kind = "dirent" /\ d.name = n)
  BY <1>1, <1>3, <1>5 DEF OfName, DirentNodes
<1>8. \A l, x : x \in Nodes(l)' <=>
         x \in Nodes(l) \/ (x = Here /\ d.state # "torn" /\ d.kind = "inode" /\ d.life = l)
  BY <1>1 DEF Nodes
<1> QED BY <1>2, <1>3, <1>4, <1>6, <1>7, <1>8

(* And when one is marked or erased.                                        *)
LEMMA DroppedSets ==
    ASSUME FlashType, NEW x, NEW s, Dropped(x, s)
    PROVE  /\ Alike
           /\ x \in Written
           /\ \A y : y \in Valid' <=> y \in Valid /\ y # x
           /\ s # "obsolete" => \A y : y \in On({"obsolete"})' => y \in On({"obsolete"})
           /\ \A y : y \in InodeNodes' <=> y \in InodeNodes /\ y # x
           /\ \A n, y : y \in OfName(n)' <=> y \in OfName(n) /\ y # x
           /\ \A l, y : y \in Nodes(l)' <=> y \in Nodes(l)
<1>1. /\ Written' = Written /\ x \in Written /\ chip[x].state # "torn"
      /\ s \in {"obsolete", "erased"}
      /\ \A y \in Written :
          /\ chip'[y].state = IF y = x THEN s ELSE chip[y].state
          /\ chip'[y].kind = chip[y].kind /\ chip'[y].ver = chip[y].ver
          /\ chip'[y].life = chip[y].life /\ chip'[y].size = chip[y].size
          /\ chip'[y].page = chip[y].page /\ chip'[y].val = chip[y].val
          /\ chip'[y].name = chip[y].name /\ chip'[y].ino = chip[y].ino
  BY DEF Dropped, On
<1>2. Alike
  BY <1>1 DEF Alike
<1>3. \A y : y \in Valid' <=> y \in Valid /\ y # x
  BY <1>1 DEF Valid, On
<1>4. s # "obsolete" => \A y : y \in On({"obsolete"})' => y \in On({"obsolete"})
  BY <1>1 DEF On
<1>5. Valid \subseteq Written
  BY DEF Valid, On
<1>6. \A y : y \in InodeNodes' <=> y \in InodeNodes /\ y # x
  BY <1>1, <1>3, <1>5 DEF InodeNodes
<1>7. \A n, y : y \in OfName(n)' <=> y \in OfName(n) /\ y # x
  BY <1>1, <1>3, <1>5 DEF OfName, DirentNodes
<1>8. \A l, y : y \in Nodes(l)' <=> y \in Nodes(l)
  BY <1>1 DEF Nodes
<1> QED BY <1>1, <1>2, <1>3, <1>4, <1>6, <1>7, <1>8

(* Of any nodes there is a newest.                                          *)
LEMMA NewestIs ==
    ASSUME FlashType, NEW S, S \subseteq Written, S # {}
    PROVE  Newest(S) \in S /\ \A y \in S \ {Newest(S)} : Supersedes(Newest(S), y)
<1>1. Len(chip) \in Nat /\ S \subseteq Nat /\ \A x \in S : x <= Len(chip)
  BY Typed DEF Written
<1>2. \A x \in S : chip[x].ver \in Nat /\ chip[x].ver <= Len(chip)
  BY <1>1, Typed DEF FlashType
<1> DEFINE V == {chip[x].ver : x \in S}
<1>3. V \subseteq Nat /\ V # {} /\ \A v \in V : v <= Len(chip)
  BY <1>2
<1>4. PICK m \in V : \A v \in V : v <= m
  <2> HIDE DEF V
  <2> QED BY <1>1, <1>3, GreatestOf
<1> DEFINE T == {x \in S : chip[x].ver = m}
<1>5. T \subseteq Nat /\ T # {} /\ \A x \in T : x <= Len(chip)
  BY <1>1, <1>4
<1>6. PICK t \in T : \A x \in T : x <= t
  <2> HIDE DEF T
  <2> QED BY <1>1, <1>5, GreatestOf
<1>7. ASSUME NEW y \in S \ {t} PROVE Supersedes(t, y)
  <2>1. chip[y].ver <= m /\ chip[t].ver = m /\ t \in Nat /\ y \in Nat /\ m \in Nat /\ chip[y].ver \in Nat
    BY <1>1, <1>2, <1>3, <1>4
  <2>2. chip[y].ver = m => y <= t
    BY <1>6
  <2> QED BY <2>1, <2>2 DEF Supersedes
<1>8. t \in S
  OBVIOUS
<1> QED BY <1>7, <1>8 DEF Newest

-----------------------------------------------------------------------------
(* What the parts of the invariant need to hold after a step that leaves    *)
(* alone what they are about.                                               *)

(* The type of what is on the flash.                                        *)
LEMMA GrownTyped ==
    ASSUME FlashType, NEW d, Grown(d), file' \in File, file'.ver <= Here, names' \in [Names -> Nat],
           dead' \in Seq([held : Contents, at : SUBSET Nat])
    PROVE  FlashType'
<1>1. /\ nor' \in BOOLEAN /\ chip' \in Seq(Node)
      /\ Len(chip) < MaxNodes /\ Len(chip') = Here /\ Here = Len(chip) + 1 /\ Len(chip) \in Nat
  BY Typed DEF Grown, FlashType
<1>2. Len(chip') <= MaxNodes
  BY <1>1, FlashBounds
<1>3. ASSUME NEW x \in Written' PROVE chip'[x].ver <= x
  <2>1. x \in Written \/ x = Here
    BY DEF Grown
  <2>2. CASE x \in Written
    BY <2>2 DEF Grown, FlashType
  <2>3. CASE x = Here
    BY <2>3 DEF Grown
  <2> QED BY <2>1, <2>2, <2>3
<1>4. file'.ver <= Len(chip')
  BY <1>1
<1> QED BY <1>1, <1>2, <1>3, <1>4 DEF FlashType

(* The state still has its type when a node has changed its state.          *)
LEMMA DroppedTyped ==
    ASSUME FlashType, NEW x, NEW s, Dropped(x, s), file' = file, names' \in [Names -> Nat], dead' = dead
    PROVE  FlashType'
<1>1. nor' \in BOOLEAN /\ chip' \in Seq(Node) /\ Len(chip') = Len(chip) /\ Written' = Written
  BY DEF Dropped, FlashType
<1>2. \A y \in Written : chip'[y].ver = chip[y].ver
  BY DEF Dropped
<1> QED BY <1>1, <1>2 DEF FlashType

(* A node of the inode, and one of the directory, is one.                   *)
LEMMA NewNodes ==
    ASSUME FlashType
    PROVE  /\ \A ver \in Nat, size, page \in 0..FilePages, val \in Vals : Inode(ver, size, page, val) \in Node
           /\ \A ver \in Nat, n \in Names, ino \in {0, Ino} : Dirent(ver, n, ino) \in Node
<1>1. file.life \in 0..MaxLives
  BY Typed
<1>2. 0 \in 0..FilePages
  BY FlashBounds
<1> QED BY <1>1, <1>2, Typed DEF Inode, Dirent, Node, States

(* The nodes of the file are what they were.                                *)
LEMMA FileStays ==
    ASSUME FlashType, FileKept, file' = file, Alike,
           \A y : y \in Nodes(file.life)' <=> y \in Nodes(file.life),
           \A p \in 0..FilePages : file.at[p] # Nowhere /\ file.at[p] \in Valid => file.at[p] \in Valid'
    PROVE  FileKept'
<1> SUFFICES ASSUME file.ver > 0 PROVE FileKept'
  BY DEF FileKept
<1> PICK at : at = file.at /\ at = file'.at
  OBVIOUS
<1> PICK sz : sz = file.size /\ sz = file'.size
  OBVIOUS
<1> PICK vr : vr = file.ver /\ vr = file'.ver
  OBVIOUS
<1> PICK lf : lf = file.life /\ lf = file'.life
  OBVIOUS
<1>1. /\ \A p \in 0..FilePages :
             /\ p > sz => at[p] = Nowhere
             /\ p \in 1..sz => at[p] # Nowhere
             /\ at[p] # Nowhere => at[p] \in Nodes(lf) /\ at[p] \in Valid /\ chip[at[p]].page = p
      /\ \E p \in 0..FilePages : at[p] # Nowhere /\ chip[at[p]].ver = vr
      /\ \A y \in Nodes(lf) :
             /\ chip[y].ver <= vr
             /\ chip[y].ver = vr => chip[y].size = sz
             /\ chip[y].page \in 1..sz => y = at[chip[y].page] \/ Supersedes(at[chip[y].page], y)
  BY DEF FileKept
<1>3. \A y \in Nodes(lf) : y \in Written /\ chip[y].page \in 0..FilePages
  BY Typed DEF Nodes
<1>4. \A y \in Nodes(lf) : chip'[y].ver = chip[y].ver /\ chip'[y].size = chip[y].size /\ chip'[y].page = chip[y].page
  BY <1>3 DEF Alike
<1>5. \A y : y \in Nodes(lf)' <=> y \in Nodes(lf)
  BY DEF Nodes
<1>6. sz \in 0..FilePages /\ \A q \in 1..sz : q \in 0..FilePages
  <2>1. file.size \in 0..FilePages /\ FilePages \in Nat
    BY Typed, FlashBounds
  <2> QED BY <2>1
<1>8. \A p \in 0..FilePages : at[p] # Nowhere => at[p] \in Nodes(lf)' /\ at[p] \in Valid' /\ chip'[at[p]].page = p
  BY <1>1, <1>4, <1>5
<1>9. \E p \in 0..FilePages : at[p] # Nowhere /\ chip'[at[p]].ver = vr
  BY <1>1, <1>4
<1>10. ASSUME NEW y \in Nodes(lf)'
       PROVE  /\ chip'[y].ver <= vr
              /\ chip'[y].ver = vr => chip'[y].size = sz
              /\ \A p \in 1..sz : chip'[y].page = p => y = at[p] \/ Supersedes(at[p], y)'
  <2>1. y \in Nodes(lf)
    BY <1>5
  <2>2. chip'[y].ver <= vr /\ (chip'[y].ver = vr => chip'[y].size = sz)
    BY <1>1, <1>4, <2>1
  <2>3. ASSUME NEW p \in 1..sz, chip'[y].page = p, y # at[p] PROVE Supersedes(at[p], y)'
    <3>1. chip[y].page = p
      BY <1>4, <2>1, <2>3
    <3>2. Supersedes(at[p], y)
      BY <1>1, <2>1, <2>3, <3>1
    <3>3. at[p] \in Nodes(lf)
      BY <1>1, <1>6
    <3> QED BY <1>4, <2>1, <3>2, <3>3 DEF Supersedes
  <2> QED BY <2>2, <2>3
<1>11. \A p \in 0..FilePages :
             /\ p > sz => at[p] = Nowhere
             /\ p \in 1..sz => at[p] # Nowhere
  BY <1>1
<1>12. ASSUME NEW y \in Nodes(lf)', chip'[y].page \in 1..file'.size
       PROVE  y = file'.at[chip'[y].page] \/ Supersedes(file.at[chip[y].page], y)'
  <2>1. PICK p : p = chip'[y].page
    OBVIOUS
  <2>2. y = at[p] \/ Supersedes(at[p], y)'
    BY <1>10, <1>12, <2>1
  <2>3. at[p] = file'.at[chip'[y].page]
    BY <2>1
  <2> QED BY <2>2, <2>3 DEF Supersedes
<1> QED BY <1>8, <1>9, <1>10, <1>11, <1>12 DEF FileKept

(* And those of the files before it.                                        *)
LEMMA TellsStays ==
    ASSUME Alike, NEW l, NEW at, NEW held, Tells(l, at, held),
           \A y : y \in Nodes(l)' <=> y \in Nodes(l)
    PROVE  Tells(l, at, held)'
<1>1. \A y \in Nodes(l) : chip'[y].ver = chip[y].ver /\ chip'[y].size = chip[y].size
                          /\ chip'[y].page = chip[y].page /\ chip'[y].val = chip[y].val
  BY DEF Alike, Nodes
<1>2. \A x, y \in Nodes(l) : Supersedes(x, y)' <=> Supersedes(x, y)
  BY <1>1 DEF Supersedes
<1>3. at \subseteq Nodes(l)' /\ at \subseteq Nodes(l)
  BY DEF Tells
<1>4. \E x \in at : \A y \in Nodes(l)' :
          chip'[y].ver < chip'[x].ver \/ (chip'[y].ver = chip'[x].ver /\ chip'[y].size = held.size)
  BY <1>1, <1>3 DEF Tells
<1>5. ASSUME NEW p \in Pages
      PROVE  IF p > held.size THEN held.pages[p] = Zeros
             ELSE \E x \in at : /\ chip'[x].page = p /\ chip'[x].val = held.pages[p]
                                /\ \A y \in Nodes(l)' : chip'[y].page = p => y = x \/ Supersedes(x, y)'
  BY <1>1, <1>2, <1>3 DEF Tells
<1> QED BY <1>3, <1>4, <1>5 DEF Tells, Pages

(* The nodes of a deleted file still tell what it held, if none came or     *)
(* went.                                                                    *)
LEMMA DeadStays ==
    ASSUME Alike, DeadKept, NEW l \in 1..Len(dead), dead'[l] = dead[l],
           \A y : y \in Nodes(l)' <=> y \in Nodes(l)
    PROVE  Tells(l, dead[l].at, dead[l].held)'
<1> PICK at : at = dead[l].at
  OBVIOUS
<1> PICK held : held = dead[l].held
  OBVIOUS
<1>1. Tells(l, at, held)
  BY DEF DeadKept
<1>2. Tells(l, at, held)'
  BY <1>1, TellsStays
<1>3. dead'[l].at = at /\ dead'[l].held = held
  OBVIOUS
<1> QED BY <1>2, <1>3 DEF Tells

(* What the names name is as it was.                                        *)
LEMMA NamedStays ==
    ASSUME NamesKept, Alike, names' = names
    PROVE  Named' = Named
<1>1. \A n \in Names : names[n] # Nowhere => chip'[names[n]].ino = chip[names[n]].ino
  BY DEF NamesKept, Alike
<1> QED BY <1>1 DEF Named

(* Each name still means what the driver has for it when its dirents stay   *)
(* as they are and only other nodes change.                                 *)
LEMMA NamesStay ==
    ASSUME FlashType, NamesKept, names' = names, Alike,
           \A n, y : y \in OfName(n)' <=> y \in OfName(n),
           \A x : x \in Valid => x \in Valid'
    PROVE  NamesKept'
<1> SUFFICES ASSUME NEW n \in Names
             PROVE  /\ names'[n] = Nowhere => OfName(n)' = {}
                    /\ names'[n] # Nowhere =>
                          /\ names'[n] \in Written' /\ chip'[names'[n]].kind = "dirent" /\ chip'[names'[n]].name = n
                          /\ names'[n] \in Valid' \/ (chip'[names'[n]].ino = 0 /\ OfName(n)' = {})
                          /\ \A y \in OfName(n)' : y = names'[n] \/ chip'[y].ver < chip'[names'[n]].ver
  BY DEF NamesKept
<1>1. PICK m : m = names[n] /\ m = names'[n]
  OBVIOUS
<1>2. OfName(n)' = OfName(n)
  OBVIOUS
<1>3. \A y \in OfName(n) : chip'[y].ver = chip[y].ver
  BY DEF OfName, DirentNodes, Valid, On, Alike
<1>4. m # Nowhere => chip'[m].ver = chip[m].ver
  BY <1>1 DEF NamesKept, Alike
<1>5. m # Nowhere =>
         /\ m \in Written' /\ chip'[m].kind = "dirent" /\ chip'[m].name = n /\ chip'[m].ino = chip[m].ino
  BY <1>1 DEF NamesKept, Alike
<1> QED BY <1>1, <1>2, <1>3, <1>4, <1>5 DEF NamesKept

(* A node that is not needed is marked, or is erased and forgotten.         *)
LEMMA NamesDrop ==
    ASSUME FlashType, NamesKept, NEW x, NEW s, Dropped(x, s),
           names' = names \/ names' = [n \in Names |-> IF names[n] = x THEN Nowhere ELSE names[n]]
    PROVE  NamesKept' /\ Named' = Named /\ names' \in [Names -> Nat]
<1>1. x \in Written /\ Alike /\ \A n, y : y \in OfName(n)' <=> y \in OfName(n) /\ y # x
  BY DroppedSets
<1>2. x # Nowhere /\ x \notin Needed
  BY <1>1, Typed DEF Dropped, Nowhere, Written
<1>3. \A y : y \in Valid' <=> y \in Valid /\ y # x
  BY DroppedSets
<1>4. ASSUME NEW n \in Names, names[n] = x
      PROVE  chip[x].ino = 0 /\ OfName(n)' = {}
  <2>1. chip[x].ino = 0 /\ \A y \in Dirents : chip[y].name = chip[x].name => ~(chip[y].ver < chip[x].ver)
    BY <1>2, <1>4 DEF Needed
  <2>2. chip[x].name = n /\ \A y \in OfName(n) : y = x \/ chip[y].ver < chip[x].ver
    BY <1>2, <1>4 DEF NamesKept
  <2>3. OfName(n) \subseteq {x}
    BY <2>1, <2>2 DEF OfName, DirentNodes, Dirents
  <2> QED BY <1>1, <2>1, <2>3
<1>5. \A n \in Names : \A y \in OfName(n) : chip'[y].ver = chip[y].ver
  BY <1>1 DEF OfName, DirentNodes, Valid, On, Alike
<1>6. ASSUME NEW n \in Names
      PROVE  /\ names'[n] = Nowhere => OfName(n)' = {}
             /\ names'[n] # Nowhere =>
                   /\ names'[n] \in Written' /\ chip'[names'[n]].kind = "dirent" /\ chip'[names'[n]].name = n
                   /\ names'[n] \in Valid' \/ (chip'[names'[n]].ino = 0 /\ OfName(n)' = {})
                   /\ \A y \in OfName(n)' : y = names'[n] \/ chip'[y].ver < chip'[names'[n]].ver
  <2>1. CASE names'[n] = Nowhere
    <3>1. names[n] = Nowhere \/ names[n] = x
      BY <2>1
    <3>2. CASE names[n] = Nowhere
      BY <1>1, <2>1, <3>2 DEF NamesKept
    <3>3. CASE names[n] = x
      BY <1>4, <2>1, <3>3
    <3> QED BY <3>1, <3>2, <3>3
  <2>2. CASE names'[n] # Nowhere
    <3>1. PICK m : m = names[n] /\ m = names'[n]
      BY <2>2
    <3>2. /\ m \in Written /\ chip[m].kind = "dirent" /\ chip[m].name = n
          /\ m \in Valid \/ (chip[m].ino = 0 /\ OfName(n) = {})
          /\ \A y \in OfName(n) : y = m \/ chip[y].ver < chip[m].ver
      BY <2>2, <3>1 DEF NamesKept
    <3>3. /\ m \in Written' /\ chip'[m].kind = "dirent" /\ chip'[m].name = n
          /\ chip'[m].ino = chip[m].ino /\ chip'[m].ver = chip[m].ver
      BY <1>1, <3>2 DEF Alike
    <3>4. m \in Valid' \/ (chip'[m].ino = 0 /\ OfName(n)' = {})
      BY <1>1, <1>3, <1>4, <3>1, <3>2, <3>3
    <3>5. \A y \in OfName(n)' : y = m \/ chip'[y].ver < chip'[m].ver
      BY <1>1, <1>5, <3>2, <3>3
    <3> QED BY <2>2, <3>1, <3>3, <3>4, <3>5
  <2> QED BY <2>1, <2>2
<1>7. NamesKept'
  BY <1>6 DEF NamesKept
<1>8. ASSUME NEW n \in Names PROVE n \in Named' <=> n \in Named
  <2>1. names[n] # Nowhere => chip'[names[n]].ino = chip[names[n]].ino
    BY <1>1 DEF NamesKept, Alike
  <2>2. names[n] = x => chip[x].ino # Ino
    BY <1>4 DEF Ino
  <2>3. names'[n] = names[n] \/ (names[n] = x /\ names'[n] = Nowhere)
    OBVIOUS
  <2> QED BY <2>1, <2>2, <2>3 DEF Named
<1>9. Named \subseteq Names /\ Named' \subseteq Names
  BY DEF Named
<1>10. names' \in [Names -> Nat]
  BY DEF FlashType, Nowhere
<1> QED BY <1>7, <1>8, <1>9, <1>10

(* A name is given, taken away, or copied.                                  *)
LEMMA NameGiven ==
    ASSUME FlashType, NamesKept, NEW n \in Names, NEW d, Grown(d), d.kind = "dirent", d.state = "valid",
           d.name = n, d.ver = NextName, names' = [names EXCEPT ![n] = Here]
    PROVE  /\ NamesKept' /\ names' \in [Names -> Nat]
           /\ Named' = IF d.ino = Ino THEN Named \cup {n} ELSE Named \ {n}
<1>1. /\ Alike
      /\ \A x : x \in Valid' <=> x \in Valid \/ x = Here
      /\ \A m, x : x \in OfName(m)' <=> x \in OfName(m) \/ (x = Here /\ m = n)
  BY GrownSets
<1>2. Here \in Nat /\ Here # Nowhere /\ names \in [Names -> Nat]
  BY Typed DEF FlashType, Nowhere
<1>3. names' \in [Names -> Nat] /\ names'[n] = Here /\ \A m \in Names \ {n} : names'[m] = names[m]
  BY <1>2
<1>4. Here \in Written' /\ chip'[Here] = d
  BY DEF Grown
<1>5. \A m \in Names : \A y \in OfName(m) : y \in Written /\ chip[y].kind = "dirent" /\ chip'[y].ver = chip[y].ver
  BY <1>1 DEF OfName, DirentNodes, Valid, On, Alike
<1>6. \A y \in OfName(n) : chip'[y].ver < d.ver
  BY <1>5, NextNameIs
<1>7. ASSUME NEW m \in Names
      PROVE  /\ names'[m] = Nowhere => OfName(m)' = {}
             /\ names'[m] # Nowhere =>
                   /\ names'[m] \in Written' /\ chip'[names'[m]].kind = "dirent" /\ chip'[names'[m]].name = m
                   /\ names'[m] \in Valid' \/ (chip'[names'[m]].ino = 0 /\ OfName(m)' = {})
                   /\ \A y \in OfName(m)' : y = names'[m] \/ chip'[y].ver < chip'[names'[m]].ver
  <2>1. CASE m = n
    BY <1>1, <1>2, <1>3, <1>4, <1>6, <2>1
  <2>2. CASE m # n
    <3>1. PICK k : k = names[m] /\ k = names'[m]
      BY <1>3, <2>2
    <3>2. /\ k = Nowhere => OfName(m) = {}
          /\ k # Nowhere =>
                /\ k \in Written /\ chip[k].kind = "dirent" /\ chip[k].name = m
                /\ k \in Valid \/ (chip[k].ino = 0 /\ OfName(m) = {})
                /\ \A y \in OfName(m) : y = k \/ chip[y].ver < chip[k].ver
      BY <3>1 DEF NamesKept
    <3>3. OfName(m)' = OfName(m)
      <4>1. \A y : y \in OfName(m)' <=> y \in OfName(m)
        BY <1>1, <2>2
      <4> QED BY <4>1
    <3>4. k # Nowhere =>
            /\ k \in Written' /\ chip'[k].kind = "dirent" /\ chip'[k].name = m
            /\ chip'[k].ino = chip[k].ino /\ chip'[k].ver = chip[k].ver
      BY <1>1, <3>2 DEF Alike
    <3>5. k # Nowhere => \A y \in OfName(m)' : y = k \/ chip'[y].ver < chip'[k].ver
      BY <1>5, <3>2, <3>3, <3>4
    <3>6. k \in Valid => k \in Valid'
      BY <1>1
    <3> QED BY <3>1, <3>2, <3>3, <3>4, <3>5, <3>6
  <2> QED BY <2>1, <2>2
<1>8. NamesKept'
  BY <1>7 DEF NamesKept
<1>9. ASSUME NEW m \in Names \ {n} PROVE m \in Named' <=> m \in Named
  <2>1. names'[m] = names[m]
    BY <1>3
  <2>2. names[m] # Nowhere => chip'[names[m]].ino = chip[names[m]].ino
    BY <1>1 DEF NamesKept, Alike
  <2> QED BY <2>1, <2>2 DEF Named
<1>10. n \in Named' <=> d.ino = Ino
  BY <1>2, <1>3, <1>4 DEF Named
<1>11. Named \subseteq Names /\ Named' \subseteq Names
  BY DEF Named
<1> QED BY <1>3, <1>8, <1>9, <1>10, <1>11

(* What is needed is there.                                                 *)
LEMMA NeededIsThere ==
    ASSUME FlashType, Lives, NamesKept, FileKept
    PROVE  /\ Needed \subseteq Valid
           /\ \A p \in 0..FilePages : file.at[p] # Nowhere =>
                 /\ file.ver > 0 /\ file.at[p] \in Valid /\ file.at[p] \in Nodes(file.life)
                 /\ file.at[p] \in Needed
<1>1. ASSUME NEW p \in 0..FilePages, file.at[p] # Nowhere
      PROVE  /\ file.ver > 0 /\ file.at[p] \in Valid /\ file.at[p] \in Nodes(file.life)
             /\ file.at[p] \in Needed
  <2>1. file.ver # 0
    BY <1>1 DEF Lives
  <2>2. file.ver > 0
    BY <2>1, Typed
  <2> QED BY <1>1, <2>2 DEF FileKept, Needed
<1>2. ASSUME NEW n \in Names, names[n] # Nowhere,
             chip[names[n]].ino # 0 \/ \E y \in Dirents : chip[y].name = chip[names[n]].name
      PROVE  names[n] \in Valid
  <2>1. chip[names[n]].name = n
    BY <1>2 DEF NamesKept
  <2>2. chip[names[n]].ino # 0 \/ OfName(n) # {}
    BY <1>2, <2>1 DEF OfName, DirentNodes, Dirents
  <2> QED BY <1>2, <2>2 DEF NamesKept
<1>3. Needed \subseteq Valid
  BY <1>1, <1>2 DEF Needed
<1> QED BY <1>1, <1>3

-----------------------------------------------------------------------------
(* The steps, by what they write.                                           *)

(* A node of the directory is written and a name changes.                   *)
LEMMA NameKeeps ==
    ASSUME IInv, NEW n \in Names, NEW d, Grown(d), d.kind = "dirent", d.state = "valid",
           d.name = n, d.ver = NextName, names' = [names EXCEPT ![n] = Here],
           file' = file, dead' = dead, d.ino = Ino => file.ver > 0
    PROVE  IInv'
<1>1. FlashType /\ Lives /\ NamesKept /\ FileKept /\ DeadKept
  BY DEF IInv
<1>2. /\ Alike
      /\ \A x : x \in Valid' <=> x \in Valid \/ x = Here
      /\ \A x : x \in On({"obsolete"})' <=> x \in On({"obsolete"})
      /\ \A x : x \in InodeNodes' <=> x \in InodeNodes
      /\ \A l, x : x \in Nodes(l)' <=> x \in Nodes(l)
  BY <1>1, GrownSets
<1>3. NamesKept' /\ names' \in [Names -> Nat] /\ Named' = IF d.ino = Ino THEN Named \cup {n} ELSE Named \ {n}
  BY <1>1, NameGiven
<1>4. FlashType'
  <2>1. file' \in File /\ file'.ver <= Here /\ dead' \in Seq([held : Contents, at : SUBSET Nat])
    <3>1. file.ver <= Len(chip) /\ Here = Len(chip) + 1 /\ Len(chip) \in Nat /\ file.ver \in Nat
      BY <1>1, Typed DEF FlashType
    <3>2. file.ver <= Here
      BY <3>1
    <3> QED BY <1>1, <3>2 DEF FlashType
  <2> QED BY <1>1, <1>3, <2>1, GrownTyped
<1>5. Lives'
  <2>1. \A x \in Written' : chip'[x].kind = "inode" => x \in Written
    BY DEF Grown
  <2>2. \A x \in Written' : chip'[x].kind = "inode" => chip'[x].life <= file'.life
    BY <1>1, <1>2, <2>1 DEF Lives, Alike
  <2>3. \A x \in InodeNodes' : chip'[x].life = file'.life
    BY <1>1, <1>2 DEF Lives, Alike, InodeNodes, Valid, On
  <2>4. nor' \/ On({"obsolete"})' = {}
    BY <1>1, <1>2 DEF Lives, Grown
  <2>5. Named' # {} => file'.ver > 0
    BY <1>1, <1>3 DEF Lives
  <2> QED BY <1>1, <2>2, <2>3, <2>4, <2>5 DEF Lives
<1>6. FileKept'
  BY <1>1, <1>2, FileStays
<1>7. DeadKept'
  BY <1>1, <1>2, DeadStays DEF DeadKept
<1> QED BY <1>3, <1>4, <1>5, <1>6, <1>7 DEF IInv

(* A node of the file is written.                                           *)
LEMMA RangeKeeps ==
    ASSUME IInv, NEW d, Grown(d), d.kind = "inode", d.state = "valid", d.life = file.life,
           names' = names, dead' = dead, file.ver > 0,
           file' \in File, file'.life = file.life, file'.ver > 0, file'.ver <= Here, FileKept'
    PROVE  IInv'
<1>1. FlashType /\ Lives /\ NamesKept /\ DeadKept
  BY DEF IInv
<1>2. /\ Alike
      /\ \A x : x \in Valid' <=> x \in Valid \/ x = Here
      /\ \A x : x \in On({"obsolete"})' <=> x \in On({"obsolete"})
      /\ \A x : x \in InodeNodes' <=> x \in InodeNodes \/ x = Here
      /\ \A n, x : x \in OfName(n)' <=> x \in OfName(n)
      /\ \A l, x : l # file.life => (x \in Nodes(l)' <=> x \in Nodes(l))
  BY <1>1, GrownSets
<1>3. NamesKept' /\ Named' = Named
  BY <1>1, <1>2, NamesStay, NamedStays
<1>4. FlashType'
  BY <1>1, GrownTyped DEF FlashType
<1>5. Lives'
  <2>1. \A x \in Written' : x \in Written \/ (x = Here /\ chip'[x].life = file.life)
    BY DEF Grown
  <2>2. \A x \in Written' : chip'[x].kind = "inode" => chip'[x].life <= file'.life
    <3>1. file.life <= file.life
      BY <1>1, Typed
    <3> QED BY <1>1, <1>2, <2>1, <3>1 DEF Lives, Alike
  <2>3. \A x \in InodeNodes' : chip'[x].life = file'.life
    BY <1>1, <1>2, <2>1 DEF Lives, Alike, InodeNodes, Valid, On, Grown
  <2>4. nor' \/ On({"obsolete"})' = {}
    BY <1>1, <1>2 DEF Lives, Grown
  <2>5. file'.ver # 0 /\ Len(dead') = file'.life - 1
    BY <1>1, <1>4, Typed DEF Lives
  <2> QED BY <1>1, <2>2, <2>3, <2>4, <2>5 DEF Lives
<1>6. DeadKept'
  <2>1. \A l \in 1..Len(dead) : l # file.life
    BY <1>1, Typed DEF Lives
  <2> QED BY <1>1, <1>2, <2>1, DeadStays DEF DeadKept
<1> QED BY <1>3, <1>4, <1>5, <1>6 DEF IInv

(* A node is marked or erased.                                              *)
LEMMA DropKeeps ==
    ASSUME IInv, NEW x, NEW s, Dropped(x, s), file' = file, dead' = dead, s = "obsolete" => nor,
           names' = names \/ names' = [n \in Names |-> IF names[n] = x THEN Nowhere ELSE names[n]]
    PROVE  IInv'
<1>1. FlashType /\ Lives /\ NamesKept /\ FileKept /\ DeadKept
  BY DEF IInv
<1>2. /\ Alike
      /\ \A y : y \in Valid' <=> y \in Valid /\ y # x
      /\ s # "obsolete" => \A y : y \in On({"obsolete"})' => y \in On({"obsolete"})
      /\ \A y : y \in InodeNodes' <=> y \in InodeNodes /\ y # x
      /\ \A l, y : y \in Nodes(l)' <=> y \in Nodes(l)
  BY <1>1, DroppedSets
<1>3. NamesKept' /\ Named' = Named /\ names' \in [Names -> Nat]
  BY <1>1, NamesDrop
<1>4. FlashType'
  BY <1>1, <1>3, DroppedTyped
<1>5. Lives'
  <2>1. Written' = Written /\ nor' = nor
    BY DEF Dropped
  <2>2. \A y \in Written' : chip'[y].kind = "inode" => chip'[y].life <= file'.life
    BY <1>1, <1>2, <2>1 DEF Lives, Alike
  <2>3. \A y \in InodeNodes' : chip'[y].life = file'.life
    BY <1>1, <1>2 DEF Lives, Alike, InodeNodes, Valid, On
  <2>4. nor' \/ On({"obsolete"})' = {}
    BY <1>1, <1>2, <2>1 DEF Lives
  <2> QED BY <1>1, <1>3, <2>2, <2>3, <2>4 DEF Lives
<1>6. FileKept'
  <2>1. \A p \in 0..FilePages : file.at[p] # Nowhere /\ file.at[p] \in Valid => file.at[p] \in Valid'
    BY <1>1, <1>2, NeededIsThere DEF Dropped
  <2> QED BY <1>1, <1>2, <2>1, FileStays
<1>7. DeadKept'
  BY <1>1, <1>2, DeadStays DEF DeadKept
<1> QED BY <1>3, <1>4, <1>5, <1>6, <1>7 DEF IInv

(* A node is torn.                                                          *)
LEMMA TornKeeps ==
    ASSUME IInv, NEW d, Grown(d), d.state = "torn", d.kind = "inode" => d.life = file.life,
           UNCHANGED <<file, names, dead>>
    PROVE  IInv'
<1>1. FlashType /\ Lives /\ NamesKept /\ FileKept /\ DeadKept
  BY DEF IInv
<1>2. /\ Alike
      /\ \A x : x \in Valid' <=> x \in Valid
      /\ \A x : x \in On({"obsolete"})' <=> x \in On({"obsolete"})
      /\ \A x : x \in InodeNodes' <=> x \in InodeNodes
      /\ \A n, x : x \in OfName(n)' <=> x \in OfName(n)
      /\ \A l, x : x \in Nodes(l)' <=> x \in Nodes(l)
  BY <1>1, GrownSets
<1>3. NamesKept' /\ Named' = Named
  BY <1>1, <1>2, NamesStay, NamedStays
<1>4. FlashType'
  <2>1. file' \in File /\ file'.ver <= Here
    <3>1. file.ver <= Len(chip) /\ Here = Len(chip) + 1 /\ Len(chip) \in Nat /\ file.ver \in Nat
      BY <1>1, Typed DEF FlashType
    <3>2. file.ver <= Here
      BY <3>1
    <3> QED BY <1>1, <3>2 DEF FlashType
  <2> QED BY <1>1, <2>1, GrownTyped DEF FlashType
<1>5. Lives'
  <2>1. \A x \in Written' : x \in Written \/ (chip'[x].kind = "inode" => chip'[x].life = file.life)
    BY DEF Grown
  <2>2. \A x \in Written' : chip'[x].kind = "inode" => chip'[x].life <= file'.life
    <3>1. file.life <= file.life
      BY <1>1, Typed
    <3> QED BY <1>1, <1>2, <2>1, <3>1 DEF Lives, Alike
  <2>3. \A x \in InodeNodes' : chip'[x].life = file'.life
    BY <1>1, <1>2 DEF Lives, Alike, InodeNodes, Valid, On
  <2>4. nor' \/ On({"obsolete"})' = {}
    BY <1>1, <1>2 DEF Lives, Grown
  <2> QED BY <1>1, <1>3, <2>2, <2>3, <2>4 DEF Lives
<1>6. FileKept'
  BY <1>1, <1>2, FileStays
<1>7. DeadKept'
  BY <1>1, <1>2, DeadStays DEF DeadKept
<1> QED BY <1>3, <1>4, <1>5, <1>6, <1>7 DEF IInv

-----------------------------------------------------------------------------
(* The nodes the driver knows of.                                           *)
HeldAt == {file.at[p] : p \in 0..FilePages} \ {Nowhere}

(* What the device holds under the file is of the type of contents, and     *)
(* the places of its nodes are numbers.                                     *)
LEMMA HeldIs ==
    ASSUME FlashType, Lives, NamesKept, FileKept
    PROVE  Held \in Contents /\ HeldAt \in SUBSET Nat
<1>1. ASSUME NEW p \in Pages
      PROVE  (IF file.at[p] = Nowhere THEN Zeros ELSE chip[file.at[p]].val) \in Vals
  <2>1. p \in 0..FilePages
    BY FlashBounds DEF Pages
  <2>2. file.at[p] # Nowhere => file.at[p] \in Written
    BY <2>1, NeededIsThere DEF Nodes
  <2> QED BY <2>2, Typed
<1>2. file.size \in 0..FilePages
  BY Typed
<1>3. \A p \in 0..FilePages : file.at[p] \in Nat
  BY Typed
<1> QED BY <1>1, <1>2, <1>3 DEF Held, Contents, Vals, HeldAt

(* While there is a file, the nodes the driver knows of are enough to tell  *)
(* what it holds.                                                           *)
LEMMA TellsNow ==
    ASSUME FlashType, Lives, NamesKept, FileKept, file.ver > 0
    PROVE  Tells(file.life, HeldAt, Held)
<1>1. /\ \A p \in 0..FilePages :
             /\ p > file.size => file.at[p] = Nowhere
             /\ p \in 1..file.size => file.at[p] # Nowhere
             /\ file.at[p] # Nowhere =>
                   file.at[p] \in Nodes(file.life) /\ chip[file.at[p]].page = p
      /\ \E p \in 0..FilePages : file.at[p] # Nowhere /\ chip[file.at[p]].ver = file.ver
      /\ \A y \in Nodes(file.life) :
             /\ chip[y].ver <= file.ver
             /\ chip[y].ver = file.ver => chip[y].size = file.size
             /\ chip[y].page \in 1..file.size =>
                   y = file.at[chip[y].page] \/ Supersedes(file.at[chip[y].page], y)
  BY DEF FileKept
<1>2. HeldAt \subseteq Nodes(file.life)
  BY <1>1 DEF HeldAt
<1>3. Held.size = file.size
      /\ \A p \in Pages : Held.pages[p] = IF file.at[p] = Nowhere THEN Zeros ELSE chip[file.at[p]].val
  BY DEF Held
<1>4. \E x \in HeldAt : \A y \in Nodes(file.life) :
          chip[y].ver < chip[x].ver \/ (chip[y].ver = chip[x].ver /\ chip[y].size = Held.size)
  <2>1. PICK p \in 0..FilePages : file.at[p] # Nowhere /\ chip[file.at[p]].ver = file.ver
    BY <1>1
  <2>2. file.at[p] \in HeldAt
    BY <2>1 DEF HeldAt
  <2>3. \A y \in Nodes(file.life) : chip[y].ver \in Nat /\ file.ver \in Nat
    BY Typed DEF Nodes
  <2> QED BY <1>1, <1>3, <2>1, <2>2, <2>3
<1>5. ASSUME NEW p \in Pages
      PROVE  IF p > Held.size THEN Held.pages[p] = Zeros
             ELSE \E x \in HeldAt : /\ chip[x].page = p /\ chip[x].val = Held.pages[p]
                                    /\ \A y \in Nodes(file.life) : chip[y].page = p => y = x \/ Supersedes(x, y)
  <2>1. p \in 0..FilePages /\ file.size \in Nat /\ p \in Nat /\ p >= 1
    BY Typed, FlashBounds DEF Pages
  <2>2. CASE p > Held.size
    BY <1>1, <1>3, <2>1, <2>2
  <2>3. CASE ~(p > Held.size)
    <3>1. p \in 1..file.size
      BY <1>3, <2>1, <2>3
    <3>2. file.at[p] # Nowhere /\ chip[file.at[p]].page = p /\ file.at[p] \in HeldAt
      BY <1>1, <2>1, <3>1 DEF HeldAt
    <3>3. chip[file.at[p]].val = Held.pages[p]
      BY <1>3, <3>2
    <3>4. \A y \in Nodes(file.life) : chip[y].page = p => y = file.at[p] \/ Supersedes(file.at[p], y)
      BY <1>1, <3>1
    <3> QED BY <2>3, <3>2, <3>3, <3>4
  <2> QED BY <2>2, <2>3
<1> QED BY <1>2, <1>4, <1>5 DEF Tells

(* The steps of the device, one by one.                                     *)
LEMMA CreateKeeps ==
    ASSUME IInv, Create
    PROVE  IInv'
<1>1. FlashType /\ Lives /\ NamesKept /\ FileKept /\ DeadKept
  BY DEF IInv
<1> DEFINE d == [Inode(1, 0, 0, Zeros) EXCEPT !.life = file.life + 1]
<1> PICK life : life = file.life + 1
  OBVIOUS
<1>2. file.ver = 0 /\ file.life \in Nat /\ life \in 0..MaxLives /\ InodeNodes = {}
  <2>1. file.ver = 0 /\ file.life < MaxLives /\ InodeNodes = {}
    BY DEF Create, InodeNodes
  <2> QED BY <1>1, <2>1, Typed, FlashBounds
<1>3. Inode(1, 0, 0, Zeros) \in Node
  BY <1>1, NewNodes, Typed, FlashBounds
<1>4. d \in Node /\ d.kind = "inode" /\ d.state = "valid" /\ d.life = life /\ d.ver = 1 /\ d.size = 0 /\ d.page = 0
  BY <1>2, <1>3 DEF Node, Inode
<1>5. Put(d) /\ UNCHANGED <<nor, names, dead>> /\ 1 <= Here
  BY <1>1, Typed DEF Create
<1> HIDE DEF d
<1>6. Grown(d)
  BY <1>1, <1>4, <1>5, PutGrows
<1>7. /\ file'.life = life /\ file'.ver = 1 /\ file'.size = 0
      /\ file'.at = [p \in 0..FilePages |-> IF p = 0 THEN Here ELSE Nowhere]
  BY FlashBounds DEF Create, NoFile
<1>8. file' \in File
  <2>1. file' = [life |-> life, ver |-> 1, size |-> 0, at |-> [p \in 0..FilePages |-> IF p = 0 THEN Here ELSE Nowhere]]
    BY FlashBounds DEF Create, NoFile
  <2>2. 0 \in 0..FilePages /\ Here \in Nat
    BY <1>1, Typed, FlashBounds
  <2> QED BY <1>2, <2>1, <2>2 DEF File, Nowhere
<1>9. FlashType'
  BY <1>1, <1>5, <1>6, <1>7, <1>8, GrownTyped DEF FlashType
<1>10. /\ Alike
       /\ \A x : x \in Valid' <=> x \in Valid \/ x = Here
       /\ \A x : x \in On({"obsolete"})' <=> x \in On({"obsolete"})
       /\ \A x : x \in InodeNodes' <=> x \in InodeNodes \/ x = Here
       /\ \A n, x : x \in OfName(n)' <=> x \in OfName(n)
       /\ \A l, x : x \in Nodes(l)' <=> x \in Nodes(l) \/ (x = Here /\ l = life)
  BY <1>1, <1>4, <1>6, GrownSets
<1>11. NamesKept' /\ Named' = Named
  BY <1>1, <1>5, <1>10, NamesStay, NamedStays
<1>12. chip'[Here] = d /\ Written' = Written \cup {Here}
  BY <1>6 DEF Grown
<1>13. Nodes(life) = {}
  <2>1. ASSUME NEW x \in Nodes(life) PROVE FALSE
    <3>1. x \in Written /\ chip[x].life = life /\ chip[x].life <= file.life
      BY <1>1, <2>1 DEF Nodes, Lives
    <3> QED BY <1>2, <3>1
  <2> QED BY <2>1
<1>14. Lives'
  <2>1. \A x \in Written : chip[x].kind = "inode" => chip[x].life <= life
    <3>1. \A x \in Written : chip[x].life \in Nat
      BY <1>1, Typed
    <3> QED BY <1>1, <1>2, <3>1 DEF Lives
  <2>2. \A x \in Written' : chip'[x].kind = "inode" => chip'[x].life <= life
    BY <1>2, <1>4, <1>10, <1>12, <2>1 DEF Alike
  <2>3. \A x \in InodeNodes' : chip'[x].life = life
    BY <1>2, <1>4, <1>10, <1>12
  <2>4. nor' \/ On({"obsolete"})' = {}
    BY <1>1, <1>10, <1>5 DEF Lives
  <2>5. Len(dead') = life - 1
    BY <1>1, <1>2, <1>5 DEF Lives
  <2> QED BY <1>7, <2>2, <2>3, <2>4, <2>5 DEF Lives
<1>15. FileKept'
  <2>1. \A y : y \in Nodes(life)' <=> y = Here
    BY <1>10, <1>13
  <2>2. Here \in Valid' /\ Here \in Nat /\ Here # Nowhere
    BY <1>1, <1>10, Typed DEF Nowhere
  <2>3. chip'[Here].page = 0 /\ chip'[Here].ver = 1 /\ chip'[Here].size = 0
    BY <1>4, <1>12
  <2>4. \A p \in 0..FilePages : file'.at[p] = IF p = 0 THEN Here ELSE Nowhere
    BY <1>7
  <2>5. \A p \in 0..FilePages :
             /\ p > file'.size => file'.at[p] = Nowhere
             /\ p \in 1..file'.size => file'.at[p] # Nowhere
             /\ file'.at[p] # Nowhere =>
                   file'.at[p] \in Nodes(file.life)' \cap Valid' /\ chip'[file'.at[p]].page = p
    <3> SUFFICES ASSUME NEW p \in 0..FilePages
                 PROVE /\ p > 0 => file'.at[p] = Nowhere
                       /\ p \in 1..0 => file'.at[p] # Nowhere
                       /\ file'.at[p] # Nowhere =>
                            file'.at[p] \in Nodes(file.life)' \cap Valid' /\ chip'[file'.at[p]].page = p
      BY <1>7
    <3>1. Here \in Nodes(file.life)'
      BY <1>7, <2>1 DEF Nodes
    <3> QED BY <2>2, <2>3, <2>4, <3>1
  <2>6. \E p \in 0..FilePages : file'.at[p] # Nowhere /\ chip'[file'.at[p]].ver = file'.ver
    <3>1. 0 \in 0..FilePages
      BY FlashBounds
    <3> QED BY <1>7, <2>2, <2>3, <2>4, <3>1
  <2>7. \A y \in Nodes(file.life)' : y = Here
    BY <1>7, <2>1 DEF Nodes
  <2> QED BY <1>7, <2>3, <2>5, <2>6, <2>7 DEF FileKept
<1>16. DeadKept'
  <2>1. \A l \in 1..Len(dead) : l # life
    BY <1>1, <1>2 DEF Lives
  <2> QED BY <1>1, <1>5, <1>10, <2>1, DeadStays DEF DeadKept
<1> QED BY <1>9, <1>11, <1>14, <1>15, <1>16 DEF IInv

(* Giving a name.                                                           *)
LEMMA GiveKeeps ==
    ASSUME IInv, NEW n \in Names, Name(n)
    PROVE  IInv'
<1>1. FlashType
  BY DEF IInv
<1> DEFINE d == Dirent(NextName, n, Ino)
<1>2. d \in Node /\ d.kind = "dirent" /\ d.state = "valid" /\ d.name = n /\ d.ver = NextName
  BY <1>1, NewNodes, NextNameIs DEF Dirent
<1>3. Put(d) /\ UNCHANGED <<nor, file, dead>> /\ file.ver > 0 /\ names' = [names EXCEPT ![n] = Here]
  BY DEF Name
<1> HIDE DEF d
<1>4. Grown(d)
  BY <1>1, <1>2, <1>3, PutGrows, NextNameIs
<1> QED BY <1>2, <1>3, <1>4, NameKeeps

(* Copying a name.                                                          *)
LEMMA CopyNameKeeps ==
    ASSUME IInv, NEW n \in Names, CopyName(n)
    PROVE  IInv'
<1>1. FlashType /\ Lives /\ NamesKept /\ FileKept
  BY DEF IInv
<1> DEFINE x == names[n]
           d == [chip[x] EXCEPT !.ver = NextName]
<1>2. x \in Valid /\ x \in Written /\ x # Nowhere
  <2>1. x \in Valid
    BY <1>1, NeededIsThere DEF CopyName
  <2>2. Written \subseteq Nat \ {0}
    BY <1>1, Typed DEF Written
  <2> QED BY <2>1, <2>2 DEF Valid, On, Nowhere
<1>3. chip[x] \in Node /\ chip[x].kind = "dirent" /\ chip[x].state = "valid" /\ chip[x].name = n
  BY <1>1, <1>2, Typed DEF NamesKept, Valid, On
<1>4. d \in Node /\ d.kind = "dirent" /\ d.state = "valid" /\ d.name = n /\ d.ver = NextName /\ d.ino = chip[x].ino
  <2> HIDE DEF x
  <2> QED BY <1>1, <1>3, NextNameIs DEF Node
<1>5. Put(d) /\ UNCHANGED <<nor, file, dead>> /\ names' = [names EXCEPT ![n] = Here]
  BY DEF CopyName
<1>6. d.ino = Ino => file.ver > 0
  BY <1>1, <1>2, <1>4 DEF Lives, Named
<1> HIDE DEF d
<1>7. Grown(d)
  BY <1>1, <1>4, <1>5, PutGrows, NextNameIs
<1> QED BY <1>4, <1>5, <1>6, <1>7, NameKeeps

(* Taking a name away, which with the last one is the end of a file.        *)
LEMMA UnlinkKeeps ==
    ASSUME IInv, NEW n \in Names, Unlink(n)
    PROVE  IInv'
<1>1. FlashType /\ Lives /\ NamesKept /\ FileKept /\ DeadKept
  BY DEF IInv
<1> DEFINE d == Dirent(NextName, n, 0)
<1>2. d \in Node /\ d.kind = "dirent" /\ d.state = "valid" /\ d.name = n /\ d.ver = NextName /\ d.ino # Ino
  <2>1. 0 \in {0, Ino} /\ NextName \in Nat
    BY <1>1, NextNameIs
  <2>2. d \in Node
    BY <1>1, <2>1, NewNodes
  <2> QED BY <2>2 DEF Dirent, Ino
<1>3. Put(d) /\ nor' = nor /\ names' = [names EXCEPT ![n] = Here] /\ n \in Named
  BY DEF Unlink
<1> HIDE DEF d
<1>4. Grown(d)
  BY <1>1, <1>2, <1>3, PutGrows, NextNameIs
<1>5. CASE Named # {n}
  <2>1. UNCHANGED <<file, dead>>
    BY <1>5 DEF Unlink
  <2> QED BY <1>2, <1>3, <1>4, <2>1, NameKeeps
<1>6. CASE Named = {n}
  <2>1. /\ file' = NoFile(file.life)
        /\ dead' = Append(dead, [held |-> Held, at |-> HeldAt])
    BY <1>6 DEF Unlink, HeldAt
  <2>2. file.ver > 0 /\ file.life \in Nat /\ Len(dead) = file.life - 1
    BY <1>1, <1>6, Typed DEF Lives
  <2>3. /\ file'.life = file.life /\ file'.ver = 0
        /\ \A p \in 0..FilePages : file'.at[p] = Nowhere
    BY <2>1 DEF NoFile
  <2>4. file' \in File
    <3>1. file.life \in 0..MaxLives /\ 0 \in 0..FilePages
      BY <1>1, Typed, FlashBounds
    <3> QED BY <2>1, <3>1 DEF File, NoFile, Nowhere
  <2> DEFINE e == [held |-> Held, at |-> HeldAt]
  <2>5. e \in [held : Contents, at : SUBSET Nat]
    BY <1>1, HeldIs
  <2>6. dead \in Seq([held : Contents, at : SUBSET Nat])
    BY <1>1 DEF FlashType
  <2>7. /\ dead' \in Seq([held : Contents, at : SUBSET Nat])
        /\ Len(dead') = file.life
        /\ \A l \in 1..Len(dead) : dead'[l] = dead[l]
        /\ dead'[file.life] = e
    <3> HIDE DEF e
    <3>1. dead' = Append(dead, e)
      BY <2>1 DEF e
    <3> QED BY <2>2, <2>5, <2>6, <3>1
  <2>8. /\ Alike
        /\ \A x : x \in Valid' <=> x \in Valid \/ x = Here
        /\ \A x : x \in On({"obsolete"})' <=> x \in On({"obsolete"})
        /\ \A x : x \in InodeNodes' <=> x \in InodeNodes
        /\ \A l, x : x \in Nodes(l)' <=> x \in Nodes(l)
    BY <1>1, <1>2, <1>4, GrownSets
  <2>9. NamesKept' /\ names' \in [Names -> Nat] /\ Named' = {}
    BY <1>1, <1>2, <1>3, <1>4, <1>6, NameGiven
  <2>10. FlashType'
    <3>1. 0 <= Here
      BY <1>1, Typed
    <3> QED BY <1>1, <1>4, <2>3, <2>4, <2>7, <2>9, <3>1, GrownTyped
  <2>11. Lives'
    <3>1. \A x \in Written' : chip'[x].kind = "inode" => x \in Written
      BY <1>2, <1>4 DEF Grown
    <3>2. \A x \in Written' : chip'[x].kind = "inode" => chip'[x].life <= file'.life
      BY <1>1, <2>3, <2>8, <3>1 DEF Lives, Alike
    <3>3. \A x \in InodeNodes' : chip'[x].life = file'.life
      BY <1>1, <2>3, <2>8 DEF Lives, Alike, InodeNodes, Valid, On
    <3>4. nor' \/ On({"obsolete"})' = {}
      BY <1>1, <1>3, <2>8 DEF Lives
    <3> QED BY <2>3, <2>7, <2>9, <3>2, <3>3, <3>4 DEF Lives
  <2>12. FileKept'
    BY <2>3 DEF FileKept
  <2>13. DeadKept'
    <3>1. \A l \in 1..Len(dead) : Tells(l, dead[l].at, dead[l].held)'
      BY <1>1, <2>7, <2>8, DeadStays
    <3>2. Tells(file.life, dead[file.life].at, dead[file.life].held)'
      <4> PICK life : life = file.life
        OBVIOUS
      <4> PICK at : at = HeldAt
        OBVIOUS
      <4> PICK held : held = Held
        OBVIOUS
      <4>1. Tells(life, at, held)
        BY <1>1, <2>2, TellsNow DEF Tells
      <4>2. Tells(life, at, held)'
        BY <2>8, <4>1, TellsStays
      <4>3. life = file'.life /\ dead'[life].at = at /\ dead'[life].held = held
        BY <2>3, <2>7
      <4> QED BY <4>2, <4>3 DEF Tells
    <3>3. ASSUME NEW l \in 1..Len(dead') PROVE Tells(l, dead[l].at, dead[l].held)'
      <4>1. l \in 1..Len(dead) \/ l = file.life
        BY <2>2, <2>7
      <4>2. CASE l = file.life
        BY <2>3, <3>2, <4>2 DEF Tells
      <4> QED BY <3>1, <4>1, <4>2
    <3> QED BY <3>3 DEF DeadKept
  <2> QED BY <2>9, <2>10, <2>11, <2>12, <2>13 DEF IInv
<1> QED BY <1>5, <1>6

(* Marking a node that is not needed obsolete keeps the invariant.          *)
LEMMA MarkKeeps ==
    ASSUME IInv, NEW x \in Written, Mark(x)
    PROVE  IInv'
<1>1. FlashType /\ x \in On({"valid", "obsolete"}) \ Needed
  BY DEF IInv, Mark, Valid, On
<1>2. Dropped(x, "obsolete")
  BY <1>1, StateDrops DEF Mark
<1> QED BY <1>2, DropKeeps DEF Mark

(* Erasing a node that is not needed keeps the invariant.                   *)
LEMMA EraseKeeps ==
    ASSUME IInv, NEW x \in Written, Erase(x)
    PROVE  IInv'
<1>1. FlashType /\ x \in On({"valid", "obsolete"}) \ Needed
  BY DEF IInv, Erase
<1>2. Dropped(x, "erased")
  BY <1>1, StateDrops DEF Erase
<1> QED BY <1>2, DropKeeps DEF Erase

(* A node that is cut short when the power goes keeps the invariant.        *)
LEMMA TearKeeps ==
    ASSUME IInv, Torn
    PROVE  IInv'
<1>1. FlashType /\ Lives /\ NamesKept
  BY DEF IInv
<1>2. UNCHANGED <<nor, file, names, dead>>
  BY DEF Torn
<1>3. NextVersion \in Nat /\ NextVersion <= Here
  BY <1>1, Typed DEF NextVersion, FlashType
<1>4. CASE Put([Inode(NextVersion, 0, 0, Zeros) EXCEPT !.state = "torn"])
  <2> DEFINE e == Inode(NextVersion, 0, 0, Zeros)
             d == [e EXCEPT !.state = "torn"]
  <2>1. e \in Node /\ e.ver = NextVersion /\ e.life = file.life
    <3>1. 0 \in 0..FilePages /\ Zeros \in Vals
      BY <1>1, Typed, FlashBounds
    <3>2. e \in Node
      BY <1>1, <1>3, <3>1, NewNodes
    <3> QED BY <3>2 DEF Inode
  <2>2. d \in Node /\ d.state = "torn" /\ d.ver = NextVersion /\ d.life = file.life
    <3> HIDE DEF e
    <3> QED BY <2>1 DEF Node, States
  <2>3. Put(d)
    BY <1>4
  <2> HIDE DEF d
  <2>4. Grown(d)
    BY <1>1, <1>2, <1>3, <2>2, <2>3, PutGrows
  <2> QED BY <1>2, <2>2, <2>4, TornKeeps
<1>5. ASSUME NEW n \in Named, Put([Dirent(NextName, n, 0) EXCEPT !.state = "torn"])
      PROVE  IInv'
  <2> DEFINE e == Dirent(NextName, n, 0)
             d == [e EXCEPT !.state = "torn"]
  <2>1. e \in Node /\ e.ver = NextName /\ e.kind = "dirent"
    BY <1>1, NewNodes, NextNameIs DEF Dirent, Named
  <2>2. d \in Node /\ d.state = "torn" /\ d.ver = NextName /\ d.kind = "dirent"
    <3> HIDE DEF e
    <3> QED BY <2>1 DEF Node, States
  <2>3. Put(d)
    BY <1>5
  <2> HIDE DEF d
  <2>4. Grown(d)
    BY <1>1, <1>2, <2>2, <2>3, PutGrows, NextNameIs
  <2> QED BY <1>2, <2>2, <2>4, TornKeeps
<1> QED BY <1>4, <1>5 DEF Torn

(* The newest node of all is written: it tells the size, and the ranges it  *)
(* does not cover are told by the nodes that told them.                     *)
LEMMA NewestWritten ==
    ASSUME FlashType, Lives, NamesKept, FileKept, file.ver > 0, NEW d, Grown(d),
           d.kind = "inode", d.state = "valid", d.life = file.life, d.ver = file.ver + 1,
           file'.life = file.life, file'.ver = d.ver, file'.size = d.size, file'.at[d.page] = Here,
           d.page <= d.size,
           \A p \in 0..FilePages :
              p # d.page => /\ file'.at[p] = file.at[p] \/ file'.at[p] = Nowhere
                            /\ p > d.size => file'.at[p] = Nowhere
                            /\ p \in 1..d.size => p <= file.size /\ file'.at[p] = file.at[p]
    PROVE  FileKept'
<1> PICK at : at = file.at
  OBVIOUS
<1> PICK new : new = file'.at
  OBVIOUS
<1> PICK sz : sz = file.size
  OBVIOUS
<1> PICK vr : vr = file.ver
  OBVIOUS
<1> PICK lf : lf = file.life /\ lf = file'.life
  OBVIOUS
<1>1. /\ \A p \in 0..FilePages :
             /\ p > sz => at[p] = Nowhere
             /\ p \in 1..sz => at[p] # Nowhere
             /\ at[p] # Nowhere => at[p] \in Nodes(lf) /\ at[p] \in Valid /\ chip[at[p]].page = p
      /\ \A y \in Nodes(lf) :
             /\ chip[y].ver <= vr
             /\ \A p \in 1..sz : chip[y].page = p => y = at[p] \/ Supersedes(at[p], y)
  BY DEF FileKept
<1>2. d \in Node /\ d.page \in 0..FilePages /\ d.size \in 0..FilePages /\ FilePages \in Nat
  BY FlashBounds DEF Grown, Node
<1>3. /\ Alike
      /\ \A x : x \in Valid' <=> x \in Valid \/ x = Here
      /\ \A x : x \in Nodes(lf)' <=> x \in Nodes(lf) \/ x = Here
  BY GrownSets DEF Nodes
<1>4. vr \in Nat /\ sz \in 0..FilePages /\ Here \in Nat /\ Here # Nowhere /\ Written \subseteq Nat
  BY Typed DEF Nowhere
<1>5. \A y \in Nodes(lf) : y \in Written /\ chip[y].ver \in Nat /\ chip[y].page \in 0..FilePages
                           /\ chip'[y].ver = chip[y].ver /\ chip'[y].page = chip[y].page
                           /\ chip'[y].size = chip[y].size
  BY <1>3, Typed DEF Nodes, Alike
<1>6. chip'[Here] = d
  BY DEF Grown
<1>7. /\ new[d.page] = Here
      /\ \A p \in 0..FilePages :
            p # d.page => /\ new[p] = at[p] \/ new[p] = Nowhere
                          /\ p > d.size => new[p] = Nowhere
                          /\ p \in 1..d.size => p <= sz /\ new[p] = at[p]
  OBVIOUS
<1>8. ASSUME NEW p \in 0..FilePages
      PROVE  /\ p > d.size => new[p] = Nowhere
             /\ p \in 1..d.size => new[p] # Nowhere
             /\ new[p] # Nowhere => new[p] \in Nodes(lf)' /\ new[p] \in Valid' /\ chip'[new[p]].page = p
  <2>1. CASE p = d.page
    BY <1>2, <1>3, <1>4, <1>6, <1>7, <2>1
  <2>2. CASE p # d.page
    <3>1. p \in 1..d.size => p \in 1..sz
      BY <1>2, <1>4, <1>7, <2>2
    <3> QED BY <1>1, <1>3, <1>5, <1>7, <2>2, <3>1
  <2> QED BY <2>1, <2>2
<1>9. new[d.page] # Nowhere /\ chip'[new[d.page]].ver = vr + 1
  BY <1>4, <1>6, <1>7
<1>10. ASSUME NEW y \in Nodes(lf)'
       PROVE  /\ chip'[y].ver <= vr + 1
              /\ chip'[y].ver = vr + 1 => chip'[y].size = d.size
              /\ \A p \in 1..d.size : chip'[y].page = p => y = new[p] \/ Supersedes(new[p], y)'
  <2>1. CASE y = Here
    BY <1>4, <1>6, <1>7, <2>1
  <2>2. CASE y \in Nodes(lf)
    <3>1. chip'[y].ver < vr + 1
      BY <1>1, <1>4, <1>5, <2>2
    <3>2. ASSUME NEW p \in 1..d.size, chip'[y].page = p, p # d.page
          PROVE  y = new[p] \/ Supersedes(new[p], y)'
      <4>1. p \in 0..FilePages /\ p \in 1..sz /\ new[p] = at[p]
        BY <1>2, <1>4, <1>7, <3>2
      <4>2. y = at[p] \/ Supersedes(at[p], y)
        BY <1>1, <1>5, <2>2, <3>2, <4>1
      <4>3. at[p] \in Nodes(lf)
        BY <1>1, <4>1
      <4> QED BY <1>5, <2>2, <4>1, <4>2, <4>3 DEF Supersedes
    <3>3. Supersedes(new[d.page], y)'
      BY <1>4, <1>5, <1>6, <1>7, <2>2, <3>1 DEF Supersedes
    <3> QED BY <1>4, <1>5, <2>2, <3>1, <3>2, <3>3
  <2> QED BY <1>3, <2>1, <2>2
<1>11. ASSUME NEW y \in Nodes(lf)', chip'[y].page \in 1..file'.size
       PROVE  y = file'.at[chip'[y].page] \/ Supersedes(file.at[chip[y].page], y)'
  <2>1. PICK p : p = chip'[y].page
    OBVIOUS
  <2>2. y = new[p] \/ Supersedes(new[p], y)'
    BY <1>10, <1>11, <2>1
  <2>3. new[p] = file'.at[chip'[y].page]
    BY <2>1
  <2> QED BY <2>2, <2>3 DEF Supersedes
<1> QED BY <1>2, <1>8, <1>9, <1>10, <1>11 DEF FileKept

(* The greater of two.                                                      *)
LEMMA MaxOfTwo ==
    ASSUME NEW a \in Nat, NEW b \in Nat
    PROVE  Max({a, b}) = IF b > a THEN b ELSE a
<1> DEFINE S == {a, b}
           m == IF b > a THEN b ELSE a
<1>1. S \subseteq Nat /\ S # {} /\ m \in Nat /\ m \in S /\ \A x \in S : x <= m
  OBVIOUS
<1> HIDE DEF S, m
<1>2. Max(S) \in S /\ \A x \in S : x <= Max(S)
  BY <1>1, GreatestOf
<1>3. Max(S) \in Nat /\ m <= Max(S) /\ Max(S) <= m
  <2>1. a <= m /\ b <= m
    BY DEF m
  <2>2. Max(S) = a \/ Max(S) = b
    BY <1>2 DEF S
  <2> QED BY <1>1, <1>2, <2>1, <2>2
<1>4. Max(S) = m
  BY <1>1, <1>3
<1> QED BY <1>4 DEF S, m

(* The numbers of the file.                                                 *)
LEMMA Numbers ==
    ASSUME FlashType
    PROVE  /\ file.size \in Nat /\ file.ver \in Nat /\ Here \in Nat /\ file.ver + 1 <= Here
           /\ file.size <= FilePages /\ FilePages \in Nat /\ 0 \in 0..FilePages
<1>1. file.size \in 0..FilePages /\ FilePages \in Nat
  BY Typed, FlashBounds
<1>2. file.ver \in Nat /\ Len(chip) \in Nat /\ Here = Len(chip) + 1 /\ file.ver <= Len(chip)
  BY Typed DEF FlashType
<1>3. 0 \in 0..FilePages
  BY <1>1
<1> QED BY <1>1, <1>2, <1>3

(* A range is written, or zeros up to one.                                  *)
LEMMA WriteKeeps ==
    ASSUME IInv, NEW p \in Pages, NEW v \in Vals, WritePage(p, v)
    PROVE  IInv'
<1>1. FlashType /\ Lives /\ NamesKept /\ FileKept
  BY DEF IInv
<1>2. file.ver > 0 /\ p <= file.size + 1
  BY <1>1 DEF WritePage, Lives
<1>3. /\ p \in 0..FilePages /\ p \in Nat /\ p > 0
      /\ file.size \in 0..FilePages /\ file.size \in Nat /\ file.ver \in Nat /\ Here \in Nat
      /\ file.ver + 1 <= Here /\ file.life \in 0..MaxLives /\ file.at \in [0..FilePages -> Nat]
  <2>1. file.life \in 0..MaxLives /\ file.at \in [0..FilePages -> Nat] /\ file.size \in 0..FilePages
    BY <1>1, Typed
  <2>2. p \in 0..FilePages /\ p \in Nat /\ p > 0
    BY FlashBounds DEF Pages
  <2> QED BY <1>1, <2>1, <2>2, Numbers
<1> DEFINE size == IF p > file.size THEN p ELSE file.size
           d == Inode(NextVersion, size, p, v)
           at == [file.at EXCEPT ![0] = Nowhere, ![p] = Here]
<1>4. Max({file.size, p}) = size
  BY <1>3, MaxOfTwo
<1>5. size \in 0..FilePages
  BY <1>3
<1>6. Put(d) /\ UNCHANGED <<nor, names, dead>>
  BY <1>4 DEF WritePage
<1>7. NextVersion = file.ver + 1 /\ NextVersion \in Nat
  BY <1>3 DEF NextVersion
<1>8. /\ d.kind = "inode" /\ d.state = "valid" /\ d.life = file.life /\ d.ver = file.ver + 1
      /\ d.size = size /\ d.page = p
  BY <1>7 DEF Inode
<1>9. d \in Node
  <2> HIDE DEF size
  <2> QED BY <1>1, <1>3, <1>5, <1>7, NewNodes
<1>10. file' = [file EXCEPT !.ver = NextVersion, !.size = size, !.at = at]
  BY <1>4 DEF WritePage
<1>11. /\ at \in [0..FilePages -> Nat] /\ at[p] = Here
       /\ \A q \in 0..FilePages : q # p => at[q] = IF q = 0 THEN Nowhere ELSE file.at[q]
  BY <1>3 DEF Nowhere
<1> HIDE DEF at
<1>12. /\ file'.life = file.life /\ file'.ver = file.ver + 1 /\ file'.size = size /\ file'.at = at
       /\ file' \in File
  BY <1>1, <1>5, <1>7, <1>10, <1>11 DEF FlashType, File
<1> HIDE DEF d
<1>13. Grown(d)
  BY <1>1, <1>3, <1>6, <1>8, <1>9, PutGrows
<1>14. ASSUME NEW q \in 0..FilePages, q # p
       PROVE  /\ at[q] = file.at[q] \/ at[q] = Nowhere
              /\ q > size => at[q] = Nowhere
              /\ q \in 1..size => q <= file.size /\ at[q] = file.at[q]
  <2>1. at[q] = IF q = 0 THEN Nowhere ELSE file.at[q]
    BY <1>11, <1>14
  <2>2. q > size => q > file.size
    BY <1>3
  <2>3. q > file.size => file.at[q] = Nowhere
    BY <1>1, <1>2 DEF FileKept
  <2>4. q \in 1..size => q <= file.size /\ q # 0
    BY <1>2, <1>3, <1>14
  <2> QED BY <2>1, <2>2, <2>3, <2>4
<1>15. p <= size
  BY <1>3
<1>16. FileKept'
  <2> HIDE DEF size
  <2> QED BY <1>1, <1>2, <1>8, <1>11, <1>12, <1>13, <1>14, <1>15, NewestWritten
<1>17. file'.ver > 0 /\ file'.ver <= Here
  BY <1>3, <1>12
<1> QED BY <1>2, <1>6, <1>8, <1>12, <1>13, <1>16, <1>17, RangeKeeps

(* The file is cut.                                                         *)
LEMMA TruncateKeeps ==
    ASSUME IInv, NEW n \in 0..(FilePages - 1), Truncate(n)
    PROVE  IInv'
<1>1. FlashType /\ Lives /\ NamesKept /\ FileKept
  BY DEF IInv
<1>2. file.ver > 0 /\ n < file.size
  BY <1>1 DEF Truncate, Lives
<1>3. /\ n \in 0..FilePages /\ n \in Nat
      /\ file.size \in 0..FilePages /\ file.size \in Nat /\ file.ver \in Nat /\ Here \in Nat
      /\ file.ver + 1 <= Here /\ file.life \in 0..MaxLives /\ file.at \in [0..FilePages -> Nat]
  <2>1. file.life \in 0..MaxLives /\ file.at \in [0..FilePages -> Nat] /\ file.size \in 0..FilePages
    BY <1>1, Typed
  <2>2. n \in 0..FilePages /\ n \in Nat
    BY FlashBounds
  <2> QED BY <1>1, <2>1, <2>2, Numbers
<1> DEFINE d == Inode(NextVersion, n, 0, Zeros)
           at == [p \in 0..FilePages |-> IF p = 0 THEN Here ELSE IF p > n THEN Nowhere ELSE file.at[p]]
<1>4. Put(d) /\ UNCHANGED <<nor, names, dead>>
  BY DEF Truncate
<1>5. NextVersion = file.ver + 1 /\ NextVersion \in Nat
  BY <1>3 DEF NextVersion
<1>6. /\ d.kind = "inode" /\ d.state = "valid" /\ d.life = file.life /\ d.ver = file.ver + 1
      /\ d.size = n /\ d.page = 0
  BY <1>5 DEF Inode
<1>7. d \in Node
  <2>1. 0 \in 0..FilePages /\ Zeros \in Vals
    BY <1>1, Typed, FlashBounds
  <2> QED BY <1>1, <1>3, <1>5, <2>1, NewNodes
<1>8. file' = [file EXCEPT !.ver = NextVersion, !.size = n, !.at = at]
  BY DEF Truncate
<1>9. /\ at \in [0..FilePages -> Nat] /\ at[0] = Here
      /\ \A q \in 0..FilePages : q # 0 => at[q] = IF q > n THEN Nowhere ELSE file.at[q]
  <2>1. 0 \in 0..FilePages
    BY <1>1, Numbers
  <2>2. at[0] = Here /\ \A q \in 0..FilePages : q # 0 => at[q] = IF q > n THEN Nowhere ELSE file.at[q]
    BY <2>1
  <2>3. ASSUME NEW q \in 0..FilePages
        PROVE  (IF q = 0 THEN Here ELSE IF q > n THEN Nowhere ELSE file.at[q]) \in Nat
    BY <1>3 DEF Nowhere
  <2>4. at \in [0..FilePages -> Nat]
    BY <2>3
  <2> QED BY <2>2, <2>4
<1> HIDE DEF at
<1>10. /\ file'.life = file.life /\ file'.ver = file.ver + 1 /\ file'.size = n /\ file'.at = at
       /\ file' \in File
  BY <1>1, <1>3, <1>5, <1>8, <1>9 DEF FlashType, File
<1> HIDE DEF d
<1>11. Grown(d)
  BY <1>1, <1>3, <1>4, <1>6, <1>7, PutGrows
<1>12. ASSUME NEW q \in 0..FilePages, q # 0
       PROVE  /\ at[q] = file.at[q] \/ at[q] = Nowhere
              /\ q > n => at[q] = Nowhere
              /\ q \in 1..n => q <= file.size /\ at[q] = file.at[q]
  BY <1>2, <1>3, <1>9, <1>12
<1>13. FileKept'
  <2>1. 0 <= n
    BY <1>3
  <2> QED BY <1>1, <1>2, <1>6, <1>9, <1>10, <1>11, <1>12, <2>1, NewestWritten
<1>14. file'.ver > 0 /\ file'.ver <= Here
  BY <1>3, <1>10
<1> QED BY <1>2, <1>4, <1>6, <1>10, <1>11, <1>13, <1>14, RangeKeeps

(* A node that is needed is copied as it is, and is as new as it was.       *)
LEMMA CopiedAsItIs ==
    ASSUME FlashType, Lives, NamesKept, FileKept, NEW p \in 0..FilePages, file.at[p] # Nowhere,
           Grown(chip[file.at[p]]), file' = [file EXCEPT !.at[p] = Here]
    PROVE  FileKept'
<1> PICK at : at = file.at
  OBVIOUS
<1> PICK new : new = file'.at
  OBVIOUS
<1> PICK sz : sz = file.size
  OBVIOUS
<1> PICK vr : vr = file.ver
  OBVIOUS
<1> PICK lf : lf = file.life
  OBVIOUS
<1> PICK x : x = at[p]
  OBVIOUS
<1>1. file'.life = lf /\ file'.ver = vr /\ file'.size = sz /\ file'.at = new /\ new = [at EXCEPT ![p] = Here]
  BY DEF FlashType, File
<1>2. at \in [0..FilePages -> Nat] /\ vr \in Nat /\ vr > 0
  BY Typed, NeededIsThere
<1>3. new[p] = Here /\ \A q \in 0..FilePages : q # p => new[q] = at[q]
  BY <1>1, <1>2
<1>4. /\ \A q \in 0..FilePages :
             /\ q > sz => at[q] = Nowhere
             /\ q \in 1..sz => at[q] # Nowhere
             /\ at[q] # Nowhere => at[q] \in Nodes(lf) /\ at[q] \in Valid /\ chip[at[q]].page = q
      /\ \E q \in 0..FilePages : at[q] # Nowhere /\ chip[at[q]].ver = vr
      /\ \A y \in Nodes(lf) :
             /\ chip[y].ver <= vr
             /\ chip[y].ver = vr => chip[y].size = sz
             /\ \A q \in 1..sz : chip[y].page = q => y = at[q] \/ Supersedes(at[q], y)
  BY <1>2 DEF FileKept
<1>5. x \in Nodes(lf) /\ x \in Valid /\ chip[x].page = p
  BY <1>4
<1>6. chip[x].state = "valid" /\ chip[x].kind = "inode" /\ chip[x].life = lf
  BY <1>5 DEF Nodes, Valid, On
<1>7. /\ Alike
      /\ \A y : y \in Valid' <=> y \in Valid \/ y = Here
      /\ \A y : y \in Nodes(lf)' <=> y \in Nodes(lf) \/ y = Here
  BY <1>6, GrownSets DEF Nodes
<1>8. Here \in Nat /\ Here # Nowhere /\ sz \in Nat /\ FilePages \in Nat /\ sz <= FilePages
  BY Numbers, Typed DEF Nowhere
<1>9. \A y \in Nodes(lf) : y \in Nat /\ y < Here /\ chip[y].ver \in Nat /\ chip[y].page \in 0..FilePages
                           /\ chip'[y].ver = chip[y].ver /\ chip'[y].page = chip[y].page
                           /\ chip'[y].size = chip[y].size
  BY <1>7, Typed DEF Nodes, Alike, Written
<1>10. chip'[Here] = chip[x]
  BY DEF Grown
<1>11. ASSUME NEW q \in 0..FilePages
       PROVE  /\ q > sz => new[q] = Nowhere
              /\ q \in 1..sz => new[q] # Nowhere
              /\ new[q] # Nowhere => new[q] \in Nodes(lf)' /\ new[q] \in Valid' /\ chip'[new[q]].page = q
  <2>1. CASE q = p
    BY <1>3, <1>4, <1>5, <1>7, <1>8, <1>10, <2>1
  <2>2. CASE q # p
    BY <1>3, <1>4, <1>7, <1>9, <2>2
  <2> QED BY <2>1, <2>2
<1>12. \E q \in 0..FilePages : new[q] # Nowhere /\ chip'[new[q]].ver = vr
  <2>1. PICK q \in 0..FilePages : at[q] # Nowhere /\ chip[at[q]].ver = vr
    BY <1>4
  <2>2. CASE q = p
    BY <1>3, <1>8, <1>10, <2>1, <2>2
  <2>3. CASE q # p
    BY <1>3, <1>4, <1>9, <2>1, <2>3
  <2> QED BY <2>2, <2>3
<1>13. ASSUME NEW y \in Nodes(lf)'
       PROVE  /\ chip'[y].ver <= vr
              /\ chip'[y].ver = vr => chip'[y].size = sz
              /\ \A q \in 1..sz : chip'[y].page = q => y = new[q] \/ Supersedes(new[q], y)'
  <2>1. CASE y = Here
    <3>1. chip'[y].ver <= vr /\ (chip'[y].ver = vr => chip'[y].size = sz)
      BY <1>4, <1>5, <1>10, <2>1
    <3>2. chip'[y].page = p
      BY <1>5, <1>10, <2>1
    <3> QED BY <1>3, <2>1, <3>1, <3>2
  <2>2. CASE y \in Nodes(lf)
    <3>1. chip'[y].ver <= vr /\ (chip'[y].ver = vr => chip'[y].size = sz)
      BY <1>4, <1>9, <2>2
    <3>2. ASSUME NEW q \in 1..sz, chip'[y].page = q
          PROVE  y = new[q] \/ Supersedes(new[q], y)'
      <4>1. q \in 0..FilePages
        BY <1>8
      <4>2. y = at[q] \/ Supersedes(at[q], y)
        BY <1>4, <1>9, <2>2, <3>2
      <4>3. at[q] \in Nodes(lf)
        BY <1>4, <4>1
      <4>4. CASE q # p
        BY <1>3, <1>9, <2>2, <4>1, <4>2, <4>3, <4>4 DEF Supersedes
      <4>5. CASE q = p
        <5>1. chip[x].ver > chip[y].ver \/ chip[x].ver = chip[y].ver
          BY <4>2, <4>5 DEF Supersedes
        <5>2. new[q] = Here /\ chip'[Here].ver = chip[x].ver /\ chip'[y].ver = chip[y].ver /\ Here > y
          BY <1>3, <1>8, <1>9, <1>10, <2>2, <4>5
        <5> QED BY <5>1, <5>2 DEF Supersedes
      <4> QED BY <4>4, <4>5
    <3> QED BY <3>1, <3>2
  <2> QED BY <1>7, <2>1, <2>2
<1>14. ASSUME NEW y \in Nodes(lf)', chip'[y].page \in 1..sz
       PROVE  y = file'.at[chip'[y].page] \/ Supersedes(file.at[chip[y].page], y)'
  <2>1. PICK q : q = chip'[y].page
    OBVIOUS
  <2>2. y = new[q] \/ Supersedes(new[q], y)'
    BY <1>13, <1>14, <2>1
  <2>3. new[q] = file'.at[chip'[y].page]
    BY <1>1, <2>1
  <2> QED BY <2>2, <2>3 DEF Supersedes
<1> QED BY <1>1, <1>11, <1>12, <1>13, <1>14 DEF FileKept

(* A node that is needed is moved.                                          *)
LEMMA CopyKeeps ==
    ASSUME IInv, NEW p \in 0..FilePages, Copy(p)
    PROVE  IInv'
<1>1. FlashType /\ Lives /\ NamesKept /\ FileKept
  BY DEF IInv
<1> DEFINE x == file.at[p]
<1>2. x # Nowhere /\ UNCHANGED <<nor, names, dead>>
  BY DEF Copy
<1>3. file.ver > 0 /\ x \in Valid /\ x \in Nodes(file.life) /\ x \in Written
  BY <1>1, <1>2, NeededIsThere DEF Nodes
<1>4. /\ chip[x] \in Node /\ chip[x].state = "valid" /\ chip[x].kind = "inode" /\ chip[x].life = file.life
      /\ chip[x].ver <= x /\ x < Here /\ chip[x].ver \in Nat /\ chip[x].val \in Vals /\ x \in Nat
  <2>1. chip[x].state = "valid" /\ chip[x].kind = "inode" /\ chip[x].life = file.life
    BY <1>3 DEF Valid, On, Nodes
  <2>2. chip[x] \in Node /\ chip[x].ver \in Nat /\ chip[x].val \in Vals /\ x \in Nat
    BY <1>1, <1>3, Typed
  <2>3. chip[x].ver <= x
    BY <1>1, <1>3 DEF FlashType
  <2>4. x < Here
    BY <1>1, <1>3, <2>2, Typed DEF Written
  <2> QED BY <2>1, <2>2, <2>3, <2>4
<1>5. file.at \in [0..FilePages -> Nat] /\ Here \in Nat /\ file.ver \in Nat /\ file.ver + 1 <= Here
  BY <1>1, Typed, Numbers
<1> DEFINE at == [file.at EXCEPT ![p] = Here]
<1>6. at \in [0..FilePages -> Nat] /\ at[p] = Here /\ \A q \in 0..FilePages : q # p => at[q] = file.at[q]
  BY <1>5
<1>7. CASE Put(chip[x]) /\ file' = [file EXCEPT !.at[p] = Here]
  <2>1. file' = [file EXCEPT !.at = at]
    BY <1>7
  <2>2. file' \in File /\ file'.life = file.life /\ file'.ver = file.ver
    <3> HIDE DEF at
    <3> QED BY <1>1, <1>6, <2>1 DEF FlashType, File
  <2> DEFINE d == chip[x]
  <2>3. d \in Node /\ d.ver <= Here /\ Put(d)
    BY <1>4, <1>5, <1>7
  <2> HIDE DEF d
  <2>4. Grown(d)
    BY <1>1, <1>2, <2>3, PutGrows
  <2>5. FileKept'
    BY <1>1, <1>2, <1>7, <2>4, CopiedAsItIs DEF d
  <2>6. d.kind = "inode" /\ d.state = "valid" /\ d.life = file.life
    BY <1>4 DEF d
  <2>7. file'.ver > 0 /\ file'.ver <= Here
    BY <1>3, <1>5, <2>2
  <2> QED BY <1>2, <1>3, <2>2, <2>4, <2>5, <2>6, <2>7, RangeKeeps
<1>8. CASE /\ Put(Inode(NextVersion, file.size, p, chip[x].val))
           /\ file' = [file EXCEPT !.at[p] = Here, !.ver = NextVersion]
  <2> DEFINE d == Inode(NextVersion, file.size, p, chip[x].val)
  <2>1. NextVersion = file.ver + 1 /\ NextVersion \in Nat
    BY <1>5 DEF NextVersion
  <2>2. d \in Node
    <3>1. file.size \in 0..FilePages
      BY <1>1, Typed
    <3> QED BY <1>1, <1>4, <2>1, <3>1, NewNodes
  <2>3. /\ d.kind = "inode" /\ d.state = "valid" /\ d.life = file.life /\ d.ver = file.ver + 1
        /\ d.size = file.size /\ d.page = p
    BY <2>1 DEF Inode
  <2>4. file' = [file EXCEPT !.at = at, !.ver = NextVersion]
    BY <1>8
  <2>5. /\ file' \in File /\ file'.life = file.life /\ file'.ver = file.ver + 1 /\ file'.size = file.size
        /\ file'.at = at
    <3> HIDE DEF at
    <3> QED BY <1>1, <1>6, <2>1, <2>4 DEF FlashType, File
  <2>6. Put(d)
    BY <1>8
  <2> HIDE DEF d
  <2>7. Grown(d)
    BY <1>1, <1>2, <1>5, <2>2, <2>3, <2>6, PutGrows
  <2>8. p <= file.size
    <3>1. ~(p > file.size)
      BY <1>1, <1>2, <1>3 DEF FileKept
    <3> QED BY <1>1, <3>1, Numbers
  <2>9. ASSUME NEW q \in 0..FilePages, q # p
        PROVE  /\ file'.at[q] = file.at[q] \/ file'.at[q] = Nowhere
               /\ q > d.size => file'.at[q] = Nowhere
               /\ q \in 1..d.size => q <= file.size /\ file'.at[q] = file.at[q]
    <3>1. file'.at[q] = file.at[q]
      BY <1>6, <2>5, <2>9
    <3>2. q > file.size => file.at[q] = Nowhere
      BY <1>1, <1>3 DEF FileKept
    <3> QED BY <2>3, <3>1, <3>2
  <2>10. file'.at[d.page] = Here
    BY <1>6, <2>3, <2>5
  <2> HIDE DEF at
  <2>11. FileKept'
    BY <1>1, <1>3, <2>3, <2>5, <2>7, <2>8, <2>9, <2>10, NewestWritten
  <2>12. file'.ver > 0 /\ file'.ver <= Here
    BY <1>5, <2>5
  <2> QED BY <1>2, <1>3, <2>3, <2>5, <2>7, <2>11, <2>12, RangeKeeps
<1> QED BY <1>7, <1>8 DEF Copy

-----------------------------------------------------------------------------
(* The invariant holds from an empty flash on.                              *)
LEMMA InitIsKept == FlashInit => IInv
<1> SUFFICES ASSUME FlashInit PROVE IInv
  OBVIOUS
<1>1. /\ nor \in BOOLEAN /\ chip = <<>> /\ file = NoFile(0) /\ dead = <<>>
      /\ names = [n \in Names |-> Nowhere] /\ Written = {}
  BY DEF FlashInit, Written
<1>2. file \in File /\ file.ver = 0 /\ file.life = 0
  BY <1>1, FlashBounds DEF NoFile, File, Nowhere
<1>3. FlashType
  <2>1. chip \in Seq(Node) /\ Len(chip) <= MaxNodes /\ file.ver <= Len(chip) /\ names \in [Names -> Nat]
    BY <1>1, <1>2, FlashBounds DEF Nowhere
  <2>2. dead \in Seq([held : Contents, at : SUBSET Nat])
    BY <1>1
  <2> QED BY <1>1, <1>2, <2>1, <2>2 DEF FlashType
<1>4. Lives
  <2>1. Named = {} /\ On({"obsolete"}) = {} /\ InodeNodes = {}
    BY <1>1 DEF Named, On, InodeNodes, Valid
  <2>2. \A p \in 0..FilePages : file.at[p] = Nowhere
    BY <1>1 DEF NoFile
  <2>3. Len(dead) = file.life
    BY <1>1, <1>2
  <2> QED BY <1>1, <1>2, <2>1, <2>2, <2>3 DEF Lives
<1>5. NamesKept
  BY <1>1 DEF NamesKept, OfName, DirentNodes, Valid, On
<1>6. FileKept /\ DeadKept
  BY <1>1, <1>2 DEF FileKept, DeadKept
<1> QED BY <1>3, <1>4, <1>5, <1>6 DEF IInv

(* And after every step.                                                    *)
LEMMA StepKeeps == IInv /\ [FlashNext]_flash => IInv'
<1> SUFFICES ASSUME IInv, [FlashNext]_flash PROVE IInv'
  OBVIOUS
<1>1. CASE UNCHANGED flash
  BY <1>1 DEF flash, IInv, FlashType, Lives, NamesKept, FileKept, DeadKept, Tells, Nodes, Supersedes,
              Written, Named, On, Valid, InodeNodes, OfName, DirentNodes
<1>2. CASE Create
  BY <1>2, CreateKeeps
<1>3. ASSUME NEW n \in Names, Name(n) PROVE IInv'
  BY <1>3, GiveKeeps
<1>4. ASSUME NEW p \in Pages, WritePage(p, <<file.life, Here>>) PROVE IInv'
  <2>1. file.life \in 0..MaxLives /\ Here \in Nat /\ Here = Len(chip) + 1 /\ Len(chip) \in Nat
    BY Typed DEF IInv
  <2>2. Len(chip) < MaxNodes
    BY <1>4 DEF WritePage, Put
  <2>3. <<file.life, Here>> \in Vals
    BY <2>1, <2>2, FlashBounds DEF Vals
  <2> QED BY <1>4, <2>3, WriteKeeps
<1>5. CASE WritePage(file.size + 1, Zeros) /\ file.size + 2 <= FilePages
  <2>1. file.size + 1 \in Pages
    BY <1>5, Numbers DEF IInv, Pages
  <2>2. Zeros \in Vals
    BY Typed DEF IInv
  <2> QED BY <1>5, <2>1, <2>2, WriteKeeps
<1>6. ASSUME NEW n \in 0..(FilePages - 1), Truncate(n) PROVE IInv'
  BY <1>6, TruncateKeeps
<1>7. ASSUME NEW n \in Names, Unlink(n) PROVE IInv'
  BY <1>7, UnlinkKeeps
<1>8. ASSUME NEW p \in 0..FilePages, Copy(p) PROVE IInv'
  BY <1>8, CopyKeeps
<1>9. ASSUME NEW n \in Names, CopyName(n) PROVE IInv'
  BY <1>9, CopyNameKeeps
<1>10. ASSUME NEW x \in Written, Mark(x) PROVE IInv'
  BY <1>10, MarkKeeps
<1>11. ASSUME NEW x \in Written, Erase(x) PROVE IInv'
  BY <1>11, EraseKeeps
<1>12. CASE Torn
  BY <1>12, TearKeeps
<1> QED BY <1>1, <1>2, <1>3, <1>4, <1>5, <1>6, <1>7, <1>8, <1>9, <1>10, <1>11, <1>12 DEF FlashNext

-----------------------------------------------------------------------------
(* What the walker makes of nodes.                                          *)

(* Of two nodes only one can supersede the other.                           *)
LEMMA OneSupersedes ==
    ASSUME FlashType, NEW x \in Written, NEW y \in Written, Supersedes(x, y)
    PROVE  ~Supersedes(y, x)
<1>1. x \in Nat /\ y \in Nat /\ chip[x].ver \in Nat /\ chip[y].ver \in Nat
  BY Typed
<1> QED BY <1>1 DEF Supersedes

(* Nodes of a file that have in them the ones that tell what it held are    *)
(* read as what it held.                                                    *)
LEMMA ContentTold ==
    ASSUME FlashType, NEW l, NEW at, NEW held \in Contents, Tells(l, at, held),
           NEW S, at \subseteq S, S \subseteq Nodes(l)
    PROVE  S # {} /\ ~Gap(S) /\ Content(S) = held
<1>1. PICK x \in at : \A y \in Nodes(l) :
         chip[y].ver < chip[x].ver \/ (chip[y].ver = chip[x].ver /\ chip[y].size = held.size)
  BY DEF Tells
<1>2. S # {} /\ S \subseteq Written /\ x \in S
  BY <1>1 DEF Nodes
<1>3. Newest(S) \in S /\ \A y \in S \ {Newest(S)} : Supersedes(Newest(S), y)
  BY <1>2, NewestIs
<1>4. Size(S) = held.size
  <2>1. Newest(S) \in Nodes(l) /\ Newest(S) \in Written /\ x \in Written
    BY <1>2, <1>3
  <2>2. chip[Newest(S)].ver \in Nat /\ chip[x].ver \in Nat
    BY <2>1, Typed
  <2>3. ~(chip[Newest(S)].ver < chip[x].ver)
    BY <1>2, <1>3, <2>2 DEF Supersedes
  <2>4. chip[Newest(S)].size = held.size
    BY <1>1, <2>1, <2>3
  <2> QED BY <2>4 DEF Size
<1>5. ASSUME NEW p \in Pages, ~(p > held.size)
      PROVE  Covering(S, p) # {} /\ chip[Newest(Covering(S, p))].val = held.pages[p]
  <2>1. PICK z \in at : /\ chip[z].page = p /\ chip[z].val = held.pages[p]
                        /\ \A y \in Nodes(l) : chip[y].page = p => y = z \/ Supersedes(z, y)
    BY <1>5 DEF Tells
  <2> DEFINE C == Covering(S, p)
  <2>2. z \in C /\ C \subseteq Written /\ \A y \in C : y \in Nodes(l) /\ chip[y].page = p
    BY <1>2, <2>1 DEF Covering
  <2> HIDE DEF C
  <2>3. C # {}
    BY <2>2
  <2>4. Newest(C) \in C /\ \A y \in C \ {Newest(C)} : Supersedes(Newest(C), y)
    BY <2>2, <2>3, NewestIs
  <2>5. Newest(C) = z
    <3>1. SUFFICES ASSUME Newest(C) # z PROVE FALSE
      OBVIOUS
    <3>2. Supersedes(Newest(C), z) /\ Supersedes(z, Newest(C))
      BY <2>1, <2>2, <2>4, <3>1
    <3>3. Newest(C) \in Written /\ z \in Written
      BY <2>2, <2>4
    <3> QED BY <3>2, <3>3, OneSupersedes
  <2> QED BY <2>1, <2>3, <2>5 DEF C
<1>6. ~Gap(S)
  <2>1. ASSUME NEW p \in 1..Size(S) PROVE Covering(S, p) # {}
    <3>1. held.size \in 0..FilePages
      BY DEF Contents
    <3>2. p \in Pages /\ ~(p > held.size)
      BY <1>4, <3>1, FlashBounds DEF Pages
    <3> QED BY <1>5, <3>2
  <2> QED BY <2>1 DEF Gap
<1>7. Content(S) = held
  <2> DEFINE pages == [p \in Pages |->
                 IF p > Size(S) \/ Covering(S, p) = {} THEN Zeros ELSE chip[Newest(Covering(S, p))].val]
  <2>1. held \in [size : 0..FilePages, pages : [Pages -> Vals]]
    BY DEF Contents, Vals
  <2>2. ASSUME NEW p \in Pages PROVE pages[p] = held.pages[p]
    <3>1. CASE p > held.size
      <4>1. held.pages[p] = Zeros
        BY <3>1 DEF Tells
      <4> QED BY <1>4, <3>1, <4>1
    <3>2. CASE ~(p > held.size)
      BY <1>4, <1>5, <3>2
    <3> QED BY <3>1, <3>2
  <2>3. held = [size |-> held.size, pages |-> held.pages] /\ held.pages \in [Pages -> Vals]
    BY <2>1
  <2>4. pages = held.pages
    BY <2>2, <2>3
  <2>5. Content(S) = [size |-> held.size, pages |-> pages]
    BY <1>4 DEF Content
  <2> HIDE DEF pages
  <2> QED BY <2>3, <2>4, <2>5
<1> QED BY <1>2, <1>6, <1>7

(* What nodes are read as is of a type.                                     *)
LEMMA ContentTyped ==
    ASSUME FlashType, NEW S, S \subseteq Written, S # {}
    PROVE  Content(S) \in Contents
<1>1. Newest(S) \in Written
  BY NewestIs
<1>2. Size(S) \in 0..FilePages
  BY <1>1, Typed DEF Size
<1>3. ASSUME NEW p \in Pages
      PROVE  (IF p > Size(S) \/ Covering(S, p) = {} THEN Zeros ELSE chip[Newest(Covering(S, p))].val) \in Vals
  <2> DEFINE C == Covering(S, p)
  <2>1. C \subseteq Written
    BY DEF Covering
  <2> HIDE DEF C
  <2>2. C # {} => Newest(C) \in Written
    BY <2>1, NewestIs
  <2>3. C # {} => chip[Newest(C)].val \in Vals
    BY <2>2, Typed
  <2> QED BY <2>3, Typed DEF C
<1> QED BY <1>2, <1>3 DEF Content, Contents, Vals

(* A name names what it named.                                              *)
LEMMA TargetIs ==
    ASSUME FlashType, NamesKept, NEW n \in Names
    PROVE  Target(n) = IF n \in Named THEN Ino ELSE 0
<1>1. CASE names[n] = Nowhere
  BY <1>1 DEF NamesKept, Target, Named
<1>2. CASE names[n] # Nowhere /\ names[n] \notin Valid
  <2>1. chip[names[n]].ino = 0 /\ OfName(n) = {}
    BY <1>2 DEF NamesKept
  <2> QED BY <2>1 DEF Target, Named, Ino
<1>3. CASE names[n] # Nowhere /\ names[n] \in Valid
  <2> DEFINE m == names[n]
  <2>1. m \in Written /\ m \in OfName(n) /\ \A y \in OfName(n) : y = m \/ chip[y].ver < chip[m].ver
    BY <1>3 DEF NamesKept, OfName, DirentNodes
  <2>2. \A y \in OfName(n) : y \in Written /\ chip[y].ver \in Nat
    BY Typed DEF OfName, DirentNodes, Valid, On
  <2>3. \A y \in OfName(n) : chip[m].ver >= chip[y].ver
    BY <2>1, <2>2
  <2>4. \A x \in OfName(n) : (\A y \in OfName(n) : chip[x].ver >= chip[y].ver) => x = m
    BY <2>1, <2>2
  <2>5. (CHOOSE x \in OfName(n) : \A y \in OfName(n) : chip[x].ver >= chip[y].ver) = m
    BY <2>1, <2>3, <2>4
  <2>6. Target(n) = chip[m].ino
    BY <2>1, <2>5 DEF Target
  <2>7. chip[m].ino \in {0, Ino}
    BY <2>1, Typed DEF Node
  <2> QED BY <1>3, <2>6, <2>7 DEF Named
<1> QED BY <1>1, <1>2, <1>3

(* So the directory is what it was, and the number is reached when it has a *)
(* name.                                                                    *)
LEMMA ListedIs ==
    ASSUME FlashType, NamesKept
    PROVE  Listed = Named /\ (Reached <=> Named # {})
<1>1. \A n \in Names : Target(n) = IF n \in Named THEN Ino ELSE 0
  BY TargetIs
<1>2. Ino # 0 /\ Named \subseteq Names
  BY DEF Ino, Named
<1>3. Listed = Named
  BY <1>1, <1>2 DEF Listed
<1>4. Reached <=> Named # {}
  BY <1>1, <1>2 DEF Reached
<1> QED BY <1>3, <1>4

(* A state of the invariant has the types that TypeOK says.                 *)
LEMMA KeptTyped == IInv => TypeOK
<1> SUFFICES ASSUME IInv PROVE TypeOK
  OBVIOUS
<1>1. FlashType /\ Lives /\ NamesKept /\ FileKept
  BY DEF IInv
<1>2. \A x \in Written : chip[x].state \in {"valid", "obsolete", "torn", "erased"}
  BY <1>1, Typed DEF States
<1>3. InodeNodes \subseteq Written
  BY DEF InodeNodes, Valid, On
<1> QED BY <1>1, <1>2, <1>3, Typed, NeededIsThere, ContentTyped DEF TypeOK

(* In a state of the invariant each name reads as the device held it.       *)
LEMMA KeptReads == IInv => ReadsAsHeld
<1> SUFFICES ASSUME IInv PROVE ReadsAsHeld
  OBVIOUS
<1>1. FlashType /\ Lives /\ NamesKept /\ FileKept
  BY DEF IInv
<1>2. Listed = Named
  BY <1>1, ListedIs
<1>3. ASSUME Named # {} PROVE Content(InodeNodes) = Held
  <2>1. file.ver > 0
    BY <1>1, <1>3 DEF Lives
  <2>2. Tells(file.life, HeldAt, Held) /\ Held \in Contents
    BY <1>1, <2>1, TellsNow, HeldIs
  <2>3. HeldAt \subseteq InodeNodes
    BY <1>1, NeededIsThere DEF HeldAt, InodeNodes, Nodes
  <2>4. InodeNodes \subseteq Nodes(file.life)
    BY <1>1 DEF InodeNodes, Nodes, Valid, On, Lives
  <2> QED BY <1>1, <2>2, <2>3, <2>4, ContentTold
<1> QED BY <1>2, <1>3 DEF ReadsAsHeld

(* In a state of the invariant a deleted file all of whose nodes are left,  *)
(* and nothing else of its number, is given back as it was.                 *)
LEMMA KeptGivesBack == IInv => WholeIsGivenBack
<1> SUFFICES ASSUME IInv, NEW l \in 1..Len(dead),
                    dead[l].at \subseteq OnFlash, ~Twice(OnFlash), \A x \in OnFlash : chip[x].life = l
             PROVE  GivenBack /\ Content(Left) = dead[l].held
  BY DEF WholeIsGivenBack
<1>1. FlashType /\ Lives /\ NamesKept /\ FileKept /\ DeadKept
  BY DEF IInv
<1>2. Tells(l, dead[l].at, dead[l].held) /\ dead[l].held \in Contents
  <2>1. dead \in Seq([held : Contents, at : SUBSET Nat])
    BY <1>1 DEF FlashType
  <2>2. dead[l] \in [held : Contents, at : SUBSET Nat]
    <3> DEFINE T == [held : Contents, at : SUBSET Nat]
    <3> HIDE DEF T
    <3>1. dead \in Seq(T)
      BY <2>1 DEF T
    <3>2. dead[l] \in T
      BY <3>1, ElementOfSeq
    <3> QED BY <3>2 DEF T
  <2>3. dead[l].held \in Contents
    BY <2>2
  <2>4. Tells(l, dead[l].at, dead[l].held)
    BY <1>1 DEF DeadKept
  <2> QED BY <2>3, <2>4
<1>3. OnFlash \subseteq Nodes(l)
  BY DEF OnFlash, On, Nodes
<1>4. OnFlash # {} /\ ~Gap(OnFlash) /\ Content(OnFlash) = dead[l].held
  BY <1>1, <1>2, <1>3, ContentTold
<1>5. Named = {}
  <2>1. SUFFICES ASSUME Named # {} PROVE FALSE
    OBVIOUS
  <2>2. file.ver > 0 /\ Len(dead) = file.life - 1
    BY <1>1, <2>1 DEF Lives
  <2>3. PICK p \in 0..FilePages : file.at[p] # Nowhere
    BY <1>1, <2>2 DEF FileKept
  <2>4. file.at[p] \in OnFlash /\ chip[file.at[p]].life = file.life
    BY <1>1, <2>3, NeededIsThere DEF OnFlash, On, Valid, Nodes
  <2>5. l = file.life
    BY <2>4
  <2> QED BY <1>1, <2>2, <2>5, Typed
<1>6. Left = OnFlash
  <2>1. ~Reached
    BY <1>1, <1>5, ListedIs
  <2>2. OnFlash = InodeNodes \cup ObsoleteInodes
    BY DEF OnFlash, On, InodeNodes, ObsoleteInodes, Valid
  <2> QED BY <2>1, <2>2 DEF Left
<1> QED BY <1>4, <1>6 DEF GivenBack

(* Every file there has been wrote a node of version 1, there or not.       *)
Begun ==
    /\ \A x \in Written : chip[x].kind = "inode" /\ chip[x].state # "torn" => chip[x].life # 0
    /\ \A l \in 1..file.life : \E z \in Nodes(l) : chip[z].ver = 1

(* While there is a file it is one of those counted.                        *)
LEMMA LifeCounted ==
    ASSUME FlashType, Lives, file.ver > 0
    PROVE  file.life # 0
<1>1. Len(dead) = file.life - 1 /\ Len(dead) \in Nat /\ file.life \in Nat
  BY Typed DEF Lives, FlashType
<1> QED BY <1>1

(* A node more leaves them begun, if it is of the file there is.            *)
LEMMA AppendBegins ==
    ASSUME FlashType, Begun, NEW d, chip' = Append(chip, d), file'.life = file.life,
           d.kind = "inode" /\ d.state # "torn" => d.life # 0
    PROVE  Begun'
<1>1. /\ Len(chip) \in Nat /\ Len(chip') = Len(chip) + 1
      /\ \A x \in 1..Len(chip) : chip'[x] = chip[x]
      /\ chip'[Len(chip) + 1] = d
  BY DEF FlashType
<1>2. \A x \in Written' : x \in Written \/ chip'[x] = d
  BY <1>1 DEF Written
<1>3. \A x \in Written : x \in Written' /\ chip'[x] = chip[x]
  BY <1>1 DEF Written
<1>4. \A l : \A z \in Nodes(l) : z \in Nodes(l)' /\ chip'[z].ver = chip[z].ver
  BY <1>3 DEF Nodes
<1> QED BY <1>2, <1>3, <1>4 DEF Begun

(* So does one less.                                                        *)
LEMMA StateBegins ==
    ASSUME FlashType, Begun, NEW x \in On({"valid", "obsolete"}) \ Needed, NEW s \in {"obsolete", "erased"},
           chip' = [chip EXCEPT ![x].state = s], nor' = nor, file' = file
    PROVE  Begun'
<1>1. Dropped(x, s)
  BY StateDrops
<1>2. \A l, y : y \in Nodes(l)' <=> y \in Nodes(l)
  BY <1>1, DroppedSets
<1>3. Written' = Written /\ \A y \in Written : chip'[y].ver = chip[y].ver /\ chip'[y].life = chip[y].life
                                               /\ chip'[y].kind = chip[y].kind
  BY <1>1 DEF Dropped
<1>4. \A y \in Written : chip'[y].state = "torn" <=> chip[y].state = "torn"
  BY <1>1 DEF Dropped, On
<1>5. \A l : Nodes(l) \subseteq Written
  BY DEF Nodes
<1> QED BY <1>2, <1>3, <1>4, <1>5 DEF Begun

(* Files are begun in every step.                                           *)
LEMMA StepBegins == IInv /\ Begun /\ [FlashNext]_flash => Begun'
<1> SUFFICES ASSUME IInv, Begun, [FlashNext]_flash PROVE Begun'
  OBVIOUS
<1> USE DEF IInv
<1>1. CASE UNCHANGED flash
  BY <1>1 DEF flash, Begun, Nodes, Written
<1>2. CASE Create
  <2> DEFINE d == [Inode(1, 0, 0, Zeros) EXCEPT !.life = file.life + 1]
  <2>1. chip' = Append(chip, d) /\ file'.life = file.life + 1 /\ file.life \in Nat
    BY <1>2, Typed DEF Create, Put, NoFile
  <2>2. d.kind = "inode" /\ d.state = "valid" /\ d.life = file.life + 1 /\ d.ver = 1
    BY DEF Inode
  <2> HIDE DEF d
  <2>3. /\ Len(chip) \in Nat /\ Len(chip') = Len(chip) + 1
        /\ \A x \in 1..Len(chip) : chip'[x] = chip[x]
        /\ chip'[Len(chip) + 1] = d
    BY <2>1 DEF FlashType
  <2>4. \A x \in Written' : x \in Written \/ chip'[x] = d
    BY <2>3 DEF Written
  <2>5. \A x \in Written : x \in Written' /\ chip'[x] = chip[x]
    BY <2>3 DEF Written
  <2>6. \A l : \A z \in Nodes(l) : z \in Nodes(l)' /\ chip'[z].ver = chip[z].ver
    BY <2>5 DEF Nodes
  <2>7. \E z \in Nodes(file.life)' : chip'[z].ver = 1
    <3>1. Len(chip) + 1 \in Written'
      BY <2>3 DEF Written
    <3>2. chip'[Len(chip) + 1].life = file'.life
      BY <2>1, <2>2, <2>3
    <3> QED BY <2>2, <2>3, <3>1, <3>2 DEF Nodes
  <2>8. \A l \in 1..(file.life + 1) : l \in 1..file.life \/ l = file.life + 1
    BY <2>1
  <2>9. file.life + 1 # 0
    BY <2>1
  <2>10. \A x \in Written' : chip'[x].kind = "inode" /\ chip'[x].state # "torn" => chip'[x].life # 0
    BY <2>2, <2>4, <2>5, <2>9 DEF Begun
  <2>11. ASSUME NEW l \in 1..file'.life PROVE \E z \in Nodes(l)' : chip'[z].ver = 1
    <3>1. CASE l \in 1..file.life
      <4>1. PICK z \in Nodes(l) : chip[z].ver = 1
        BY <3>1 DEF Begun
      <4> QED BY <2>6, <4>1
    <3>2. CASE l = file'.life
      BY <2>7, <3>2 DEF Nodes
    <3> QED BY <2>1, <2>8, <2>11, <3>1, <3>2
  <2> QED BY <2>10, <2>11 DEF Begun
<1>3. ASSUME NEW n \in Names, Name(n) PROVE Begun'
  <2> DEFINE d == Dirent(NextName, n, Ino)
  <2>1. chip' = Append(chip, d) /\ file' = file /\ d.kind = "dirent"
    BY <1>3 DEF Name, Put, Dirent
  <2> HIDE DEF d
  <2> QED BY <2>1, AppendBegins
<1>4. ASSUME NEW p, NEW v, WritePage(p, v) PROVE Begun'
  <2> DEFINE d == Inode(NextVersion, Max({file.size, p}), p, v)
  <2>1. chip' = Append(chip, d) /\ file'.life = file.life /\ d.life = file.life /\ Named # {}
    <3>1. chip' = Append(chip, d) /\ Named # {}
      BY <1>4 DEF WritePage, Put
    <3>4. d.life = file.life
      BY DEF Inode
    <3>2. file \in File /\ file' = [file EXCEPT !.ver = NextVersion, !.size = Max({@, p}),
                                                !.at = [@ EXCEPT ![0] = Nowhere, ![p] = Here]]
      BY <1>4 DEF WritePage, FlashType
    <3>3. file'.life = file.life
      BY <3>2 DEF File
    <3> QED BY <3>1, <3>3, <3>4
  <2>2. file.life # 0
    BY <2>1, LifeCounted DEF Lives
  <2> HIDE DEF d
  <2> QED BY <2>1, <2>2, AppendBegins
<1>5. ASSUME NEW n \in 0..(FilePages - 1), Truncate(n) PROVE Begun'
  <2> DEFINE d == Inode(NextVersion, n, 0, Zeros)
  <2>1. chip' = Append(chip, d) /\ file'.life = file.life /\ d.life = file.life /\ Named # {}
    BY <1>5 DEF Truncate, Put, Inode, FlashType, File
  <2>2. file.life # 0
    BY <2>1, LifeCounted DEF Lives
  <2> HIDE DEF d
  <2> QED BY <2>1, <2>2, AppendBegins
<1>6. ASSUME NEW n \in Names, Unlink(n) PROVE Begun'
  <2> DEFINE d == Dirent(NextName, n, 0)
  <2>1. chip' = Append(chip, d) /\ file'.life = file.life /\ d.kind = "dirent"
    BY <1>6 DEF Unlink, Put, Dirent, NoFile
  <2> HIDE DEF d
  <2> QED BY <2>1, AppendBegins
<1>7. ASSUME NEW p \in 0..FilePages, Copy(p) PROVE Begun'
  <2>1. PICK x : x = file.at[p]
    OBVIOUS
  <2>2. x # Nowhere
    BY <1>7, <2>1 DEF Copy
  <2>3. file.ver > 0
    BY <2>1, <2>2, Typed DEF Lives
  <2>4. chip[x].life = file.life /\ file.life # 0
    BY <2>1, <2>2, <2>3, LifeCounted DEF FileKept, Nodes
  <2>5. CASE Put(chip[x]) /\ file' = [file EXCEPT !.at[p] = Here]
    <3>1. chip' = Append(chip, chip[x]) /\ file'.life = file.life
      BY <2>5 DEF Put, FlashType, File
    <3> QED BY <2>4, <3>1, AppendBegins
  <2>6. CASE /\ Put(Inode(NextVersion, file.size, p, chip[x].val))
             /\ file' = [file EXCEPT !.at[p] = Here, !.ver = NextVersion]
    <3> DEFINE d == Inode(NextVersion, file.size, p, chip[x].val)
    <3>1. chip' = Append(chip, d) /\ file'.life = file.life /\ d.life = file.life
      BY <2>6 DEF Put, FlashType, File, Inode
    <3> HIDE DEF d
    <3> QED BY <2>4, <3>1, AppendBegins
  <2> QED BY <1>7, <2>1, <2>5, <2>6 DEF Copy
<1>8. ASSUME NEW n \in Names, CopyName(n) PROVE Begun'
  <2> DEFINE d == [chip[names[n]] EXCEPT !.ver = NextName]
  <2>1. names[n] # Nowhere
    BY <1>8 DEF CopyName, Needed
  <2>2. names[n] \in Written /\ chip[names[n]].kind = "dirent"
    BY <2>1 DEF NamesKept
  <2>3. chip[names[n]] \in Node
    BY <2>2, Typed
  <2>4. chip' = Append(chip, d) /\ file' = file
    BY <1>8 DEF CopyName, Put
  <2>5. d.kind = "dirent"
    BY <2>2, <2>3 DEF Node
  <2> HIDE DEF d
  <2> QED BY <2>4, <2>5, AppendBegins
<1>9. ASSUME NEW x \in Written, Mark(x) PROVE Begun'
  <2>1. x \in On({"valid", "obsolete"}) \ Needed
    BY <1>9 DEF Mark, Valid, On
  <2> QED BY <1>9, <2>1, StateBegins DEF Mark
<1>10. ASSUME NEW x \in Written, Erase(x) PROVE Begun'
  BY <1>10, StateBegins DEF Erase
<1>11. CASE Torn
  <2>1. PICK d : chip' = Append(chip, d) /\ d.state = "torn" /\ file' = file
    <3>1. CASE Put([Inode(NextVersion, 0, 0, Zeros) EXCEPT !.state = "torn"])
      BY <1>11, <3>1 DEF Torn, Put, Inode
    <3>2. ASSUME NEW n \in Named, Put([Dirent(NextName, n, 0) EXCEPT !.state = "torn"])
          PROVE  \E d : chip' = Append(chip, d) /\ d.state = "torn" /\ file' = file
      BY <1>11, <3>2 DEF Torn, Put, Dirent
    <3> QED BY <1>11, <3>1, <3>2 DEF Torn
  <2> QED BY <2>1, AppendBegins
<1> QED BY <1>1, <1>2, <1>3, <1>4, <1>5, <1>6, <1>7, <1>8, <1>9, <1>10, <1>11 DEF FlashNext

(* In a state of the invariant what is given back, with none of it erased,  *)
(* is one file as it was: two would have their first versions twice.        *)
LEMMA KeptApart == IInv /\ Begun => OneFileEach
<1> DEFINE lives == {chip[x].life : x \in Left}
           erased == {x \in On({"erased"}) : chip[x].kind = "inode" /\ chip[x].life \in lives}
<1> SUFFICES ASSUME IInv, Begun, GivenBack, erased = {}
             PROVE  \E l \in 1..file.life :
                       lives = {l} /\ Content(Left) = IF l <= Len(dead) THEN dead[l].held ELSE Held
  BY DEF OneFileEach
<1>1. FlashType /\ Lives /\ NamesKept /\ FileKept /\ DeadKept
  BY DEF IInv
<1>2. Left # {} /\ ~Twice(Left) /\ Left = InodeNodes \cup ObsoleteInodes
  BY DEF GivenBack, Left
<1>3. Left = {x \in Written : chip[x].kind = "inode" /\ chip[x].state \in {"valid", "obsolete"}}
  BY <1>2 DEF InodeNodes, ObsoleteInodes, Valid, On
<1>4. \A m \in lives : Nodes(m) \subseteq Left
  <2>1. ASSUME NEW m \in lives, NEW x \in Nodes(m) PROVE x \in Left
    <3>1. x \in Written /\ chip[x].kind = "inode" /\ chip[x].life = m /\ chip[x].state \notin {"torn"}
      BY DEF Nodes
    <3>2. chip[x].state # "erased"
      BY <2>1, <3>1 DEF On
    <3>3. chip[x].state \in States
      BY <1>1, <3>1, Typed
    <3> QED BY <1>3, <3>1, <3>2, <3>3 DEF States
  <2> QED BY <2>1
<1>5. lives \subseteq 1..file.life /\ file.life \in Nat
  <2>1. ASSUME NEW x \in Left PROVE chip[x].life \in 1..file.life
    <3>1. chip[x].life <= file.life /\ chip[x].life # 0 /\ chip[x].life \in Nat
      BY <1>1, <1>3, Typed DEF Lives, Begun
    <3> QED BY <1>1, <3>1, Typed
  <2> QED BY <1>1, <2>1, Typed
<1>6. ASSUME NEW l \in lives, NEW m \in lives PROVE l = m
  <2>1. PICK x \in Nodes(l) : chip[x].ver = 1
    BY <1>5 DEF Begun
  <2>2. PICK y \in Nodes(m) : chip[y].ver = 1
    BY <1>5 DEF Begun
  <2>3. x = y
    BY <1>2, <1>4, <2>1, <2>2 DEF Twice
  <2> QED BY <2>1, <2>2, <2>3 DEF Nodes
<1>7. PICK l \in lives : TRUE
  BY <1>2
<1>8. lives = {l} /\ l \in 1..file.life
  BY <1>5, <1>6
<1>9. Left \subseteq Nodes(l)
  <2>1. ASSUME NEW x \in Left PROVE x \in Nodes(l)
    BY <1>3, <1>8 DEF Nodes
  <2> QED BY <2>1
<1> HIDE DEF lives, erased
<1>10. CASE l <= Len(dead)
  <2>1. l \in 1..Len(dead)
    BY <1>1, <1>8, <1>10 DEF FlashType
  <2>2. Tells(l, dead[l].at, dead[l].held)
    BY <1>1, <2>1 DEF DeadKept
  <2>3. dead[l].held \in Contents
    <3> DEFINE T == [held : Contents, at : SUBSET Nat]
    <3> HIDE DEF T
    <3>1. dead[l] \in T
      BY <1>1, <2>1, ElementOfSeq DEF FlashType, T
    <3> QED BY <3>1 DEF T
  <2>4. dead[l].at \subseteq Left
    BY <1>4, <1>8, <2>2 DEF Tells
  <2>5. Content(Left) = dead[l].held
    BY <1>1, <1>9, <2>2, <2>3, <2>4, ContentTold
  <2> QED BY <1>8, <1>10, <2>5
<1>11. CASE ~(l <= Len(dead))
  <2>1. file.ver > 0 /\ l = file.life
    <3>1. Len(dead) \in Nat
      BY <1>1 DEF FlashType
    <3>2. Len(dead) = IF file.ver > 0 THEN file.life - 1 ELSE file.life
      BY <1>1 DEF Lives
    <3> QED BY <1>5, <1>8, <1>11, <3>1, <3>2
  <2>2. Tells(l, HeldAt, Held) /\ Held \in Contents
    BY <1>1, <2>1, TellsNow, HeldIs
  <2>3. HeldAt \subseteq Left
    BY <1>4, <1>8, <2>2 DEF Tells
  <2>4. Content(Left) = Held
    BY <1>1, <1>9, <2>2, <2>3, ContentTold
  <2> QED BY <1>8, <1>11, <2>4
<1> QED BY <1>10, <1>11

-----------------------------------------------------------------------------
(* The invariant holds always.                                              *)
LEMMA AlwaysKept == Spec => []IInv
<1>1. FlashInit => IInv
  BY InitIsKept
<1>2. IInv /\ [FlashNext]_flash => IInv'
  BY StepKeeps
<1> QED BY <1>1, <1>2, PTL DEF Spec

(* And so has every file begun with its first version.                      *)
LEMMA AlwaysBegun == Spec => []Begun
<1>1. FlashInit => Begun
  <2> SUFFICES ASSUME FlashInit PROVE Begun
    OBVIOUS
  <2>1. Written = {} /\ file.life = 0
    BY DEF FlashInit, Written, NoFile
  <2> QED BY <2>1 DEF Begun
<1>2. IInv /\ Begun /\ [FlashNext]_flash => Begun'
  BY StepBegins
<1> QED BY <1>1, <1>2, AlwaysKept, PTL DEF Spec

(* Jffs2Walker: what the driver needs is there for a mount to see, every    *)
(* node is in one of the states, and what a file is read as is a content.   *)
THEOREM Jffs2TypeCorrect == Spec => []TypeOK
  BY AlwaysKept, KeptTyped, PTL

(* listdir() and read_file(): whatever step the device stopped at, the      *)
(* names and the file are as it had them, for any names and sizes and any   *)
(* number of nodes, copied, marked, torn or erased.                         *)
THEOREM Jffs2ReadsAsHeld == Spec => []ReadsAsHeld
  BY AlwaysKept, KeptReads, PTL

(* recover_deleted(): a deleted file is given back as it was when what it   *)
(* was made of is there, no version is twice, and nothing of another file   *)
(* of its number is.                                                        *)
THEOREM Jffs2WholeIsGivenBack == Spec => []WholeIsGivenBack
  BY AlwaysKept, KeptGivesBack, PTL

(* recover_deleted(): what is given back, while none of its nodes has been  *)
(* erased, is one file and what it held, however many files have had its    *)
(* number and left nodes there, on NOR as on NAND.                          *)
THEOREM Jffs2OneFileEach == Spec => []OneFileEach
  BY AlwaysKept, AlwaysBegun, KeptApart, PTL
=============================================================================
