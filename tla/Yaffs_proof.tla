----------------------------- MODULE Yaffs_proof -----------------------------
(***************************************************************************)
(* Proofs about Yaffs for a flash of any number and size of blocks, and any *)
(* size and number of files: whatever step the device stopped at, the file  *)
(* is read as it had it, a deleted file that is given back is one file, and *)
(* one whose chunks are all there is given back as it was.                  *)
(***************************************************************************)
EXTENDS Yaffs, Numbers_proof, SequenceTheorems, FiniteSetTheorems

-----------------------------------------------------------------------------
(* The inductive invariant: what is on the flash, and what the driver knows *)
(* of it.                                                                   *)

(* A chunk, what is known of the file, and what a file held.                *)
Chunks == [page : 0..FilePages, val : (1..MaxLives) \X (0..MaxWrites), size : 0..FilePages,
           shrink : BOOLEAN, gone : BOOLEAN, ok : BOOLEAN]
File == [state : {"none", "dir", "cut", "unlinked"}, life : 0..MaxLives, size : 0..FilePages,
         hole : BOOLEAN, at : [0..FilePages -> Nat \X Nat]]
Contents == [size : 0..FilePages, pages : [Pages -> (0..MaxLives) \X (0..MaxWrites)]]
Dead == [held : Contents, at : SUBSET (Nat \X Nat), told : BOOLEAN]

(* Blocks in use are apart in their sequence numbers, and the one being     *)
(* filled has the last.                                                     *)
ChipType ==
    /\ chip \in [1..Blocks -> [seq : 0..MaxSeq, pages : Seq(Chunks)]]
    /\ \A b \in 1..Blocks :
          /\ chip[b].seq = 0 => Len(chip[b].pages) = 0
          /\ chip[b].seq # 0 => Len(chip[b].pages) \in 1..BlockPages
    /\ \A b, c \in Used : chip[b].seq = chip[c].seq => b = c
    /\ now \in 0..Blocks /\ deleted.seq \in 0..MaxSeq
    /\ now = 0 => Used = {} /\ deleted.seq = 0
    /\ now # 0 =>
          /\ now \in Used /\ deleted.seq <= chip[now].seq
          /\ \A b \in Used : chip[b].seq <= chip[now].seq

FileType ==
    /\ file \in File /\ writes \in 0..MaxWrites
    /\ deleted \in [seq : 0..MaxSeq, lives : Seq(Dead)]

(* The life a chunk is of, its name for ever, and names that are used up.   *)
Of(x) == At(x).val[1]
Mark(x) == <<chip[x[1]].seq, x[2]>>
Marks == {Mark(x) : x \in Places}
Past(m) ==
    /\ now # 0
    /\ m[1] < chip[now].seq \/ (m[1] = chip[now].seq /\ m[2] <= Len(chip[now].pages))

(* The chunks the driver goes by are there, and its header is the newest.   *)
FileKept ==
    /\ file.state = "none" => \A p \in 0..FilePages : file.at[p] = Nowhere
    /\ file.state # "none" =>
          /\ file.at[0] # Nowhere /\ file.life > 0
          /\ \A h \in Headers(Entries) \ {file.at[0]} : Older(h, file.at[0])
    /\ \A p \in 0..FilePages :
          /\ p > file.size => p = 0 \/ file.at[p] = Nowhere
          /\ file.at[p] # Nowhere =>
                file.at[p] \in Entries /\ At(file.at[p]).page = p /\ Of(file.at[p]) = file.life
    /\ file.state \in {"dir", "cut"} => ~At(file.at[0]).gone
    /\ file.state = "unlinked" => At(file.at[0]).gone
    /\ file.state \in {"none", "cut"} => file.size = 0
    /\ file.state = "cut" =>
          /\ At(file.at[0]).size = 0 /\ ~At(file.at[0]).shrink
          /\ \A x \in Entries \ {file.at[0]} : Older(x, file.at[0])
    /\ file.hole => file.state = "dir"
    /\ Len(deleted.lives) = IF file.state = "dir" THEN file.life - 1 ELSE file.life

(* Lives follow one another on the flash, and the header that ended one is  *)
(* there as long as a chunk of it is.                                       *)
LivesInOrder ==
    /\ \A x \in Entries : Of(x) <= file.life
    /\ \A x, y \in Entries : Older(x, y) => Of(x) <= Of(y)

EndsKept ==
    \A x \in Entries : Of(x) < file.life \/ file.state = "none" =>
        \E d \in Headers(Entries) :
            /\ At(d).gone /\ At(d).shrink /\ At(d).size = 0 /\ Of(d) = Of(x)
            /\ x = d \/ Older(x, d)

(* The driver's chunks are the newest of their pages, and nothing newer     *)
(* cuts them off; its size is in its header or in its last page.            *)
FileTold ==
    file.state \in {"dir", "cut"} =>
        /\ At(file.at[0]).size <= file.size
        /\ \/ At(file.at[0]).size = file.size
           \/ file.at[file.size] # Nowhere /\ Older(file.at[0], file.at[file.size])
        /\ \A y \in Entries \ Headers(Entries) : Older(file.at[0], y) => At(y).page <= file.size
        /\ \A p \in Pages : file.at[p] # Nowhere =>
              /\ \A y \in Copies(Entries, p) \ {file.at[p]} : Older(y, file.at[p])
              /\ Older(file.at[p], file.at[0]) => p <= At(file.at[0]).size
              /\ \A g \in Headers(Entries) :
                    Older(file.at[p], g) /\ (At(g).gone \/ At(g).shrink) => ~At(g).gone /\ p <= At(g).size

(* What was ever in a hole is cut off by a header that shrinks the file,    *)
(* and that is there as long as anything it cuts off is.                    *)
HolesCut ==
    file.state = "dir" =>
        \A p \in Pages : file.at[p] = Nowhere /\ (p <= file.size \/ file.hole) =>
            \A x \in Copies(Entries, p) :
                \E h \in Headers(Entries) :
                    At(h).shrink /\ ~At(h).gone /\ At(h).size < p /\ Older(x, h)

(* Of the chunks S those of K tell what a file held, with header h: other   *)
(* chunks of S may go, and they still do.                                   *)
Tells(S, K, h, held) ==
    /\ K \subseteq S /\ h \in K
    /\ h \in Headers(S) /\ \A g \in Headers(S) \ {h} : Older(g, h)
    /\ ~At(h).gone /\ At(h).size <= held.size
    /\ At(h).size = held.size \/ \E x \in K : At(x).page = held.size /\ Older(h, x)
    /\ \A y \in S \ Headers(S) : Older(h, y) => At(y).page <= held.size
    /\ \A p \in Pages :
          held.pages[p] # Zeros =>
             /\ p <= held.size
             /\ \E x \in K :
                   /\ At(x).page = p /\ At(x).val = held.pages[p]
                   /\ \A y \in Copies(S, p) \ {x} : Older(y, x)
                   /\ Older(x, h) => p <= At(h).size
                   /\ \A g \in Headers(S) :
                         Older(x, g) /\ (At(g).gone \/ At(g).shrink) => ~At(g).gone /\ p <= At(g).size

(* Header D ended a life, and E is what its end is taken to be.             *)
Ended(D, E) ==
    /\ D \in Headers(Entries) /\ At(D).gone /\ At(D).shrink /\ E \in Headers(Entries)
    /\ \/ E = D
       \/ /\ ~At(E).gone /\ ~At(E).shrink /\ At(E).size = 0 /\ Older(E, D)
          /\ \A x \in Entries : ~(Older(E, x) /\ Older(x, D))

(* The chunks of a deleted file tell what it held, of those before its end. *)
ToldUpTo(E, K, held) ==
    \E h \in K : Tells(Before(Entries, E), K, h, held) /\ At(h).size > 0

Them(at) == {x \in Places : Mark(x) \in at}

NoHole(held) == \A p \in 1..held.size : held.pages[p] # Zeros

DeadIs(d, ending) ==
    /\ \A m \in d.at : Past(m)
    /\ d.told /\ d.at \subseteq Marks /\ NoHole(d.held) =>
          IF ending THEN ToldUpTo(file.at[0], Them(d.at), d.held)
          ELSE \E D, E \in Places : Ended(D, E) /\ ToldUpTo(E, Them(d.at), d.held)

Ending(l) == l = file.life /\ file.state = "cut"

DeadTold == \A l \in 1..Len(deleted.lives) : DeadIs(deleted.lives[l], Ending(l))

IInv == /\ ChipType /\ FileType /\ FileKept /\ LivesInOrder /\ EndsKept
        /\ FileTold /\ HolesCut /\ DeadTold

-----------------------------------------------------------------------------
(* The chip: what its places are, and their order.                          *)

(* A block, and a place of one.                                             *)
LEMMA BlockIs ==
    ASSUME ChipType, NEW b \in 1..Blocks
    PROVE  /\ chip[b].seq \in 0..MaxSeq /\ chip[b].pages \in Seq(Chunks) /\ Len(chip[b].pages) \in Nat
           /\ \A i \in 1..Len(chip[b].pages) : chip[b].pages[i] \in Chunks
<1>1. chip[b] \in [seq : 0..MaxSeq, pages : Seq(Chunks)]
  BY DEF ChipType
<1>2. chip[b].seq \in 0..MaxSeq /\ chip[b].pages \in Seq(Chunks)
  BY <1>1
<1> HIDE DEF Chunks
<1> QED BY <1>2, ElementOfSeq, LenProperties

(* A place is a page of a block in use.                                     *)
LEMMA PlaceIs ==
    ASSUME NEW x
    PROVE  x \in Places <=> \E b \in Used : \E i \in 1..Len(chip[b].pages) : x = <<b, i>>
  BY DEF Places

(* A place is a pair of numbers, and holds a chunk.                         *)
LEMMA PlaceTyped ==
    ASSUME ChipType, NEW x \in Places
    PROVE  /\ x[1] \in Used /\ x[1] \in 1..Blocks /\ x[2] \in 1..Len(chip[x[1]].pages)
           /\ x[1] \in Nat /\ x[2] \in Nat /\ x[2] <= BlockPages
           /\ x = <<x[1], x[2]>> /\ x \in Nat \X Nat /\ x # Nowhere
           /\ chip[x[1]].seq \in 1..MaxSeq
           /\ At(x) \in Chunks
<1>0. PICK b \in Used : \E i \in 1..Len(chip[b].pages) : x = <<b, i>>
  BY PlaceIs
<1>1. PICK i \in 1..Len(chip[b].pages) : x = <<b, i>>
  BY <1>0
<1>2. b \in 1..Blocks /\ chip[b].seq # 0
  BY DEF Used
<1>3. chip[b].seq \in 0..MaxSeq /\ chip[b].pages[i] \in Chunks /\ Len(chip[b].pages) \in 1..BlockPages
  BY <1>2, BlockIs DEF ChipType
<1>4. MaxSeq \in Nat /\ Blocks \in Nat /\ BlockPages \in Nat
  BY FlashBounds
<1>5. chip[b].seq \in 1..MaxSeq
  BY <1>2, <1>3, <1>4
<1>6. At(x) = chip[b].pages[i]
  BY <1>1 DEF At
<1>7. x[1] = b /\ x[2] = i /\ b \in Nat /\ i \in Nat /\ b # 0 /\ i <= BlockPages
  BY <1>1, <1>2, <1>3, <1>4
<1> HIDE DEF Chunks
<1> QED BY <1>1, <1>2, <1>3, <1>5, <1>6, <1>7 DEF Nowhere

(* What a chunk says.                                                       *)
LEMMA ChunkSays ==
    ASSUME NEW c \in Chunks
    PROVE  /\ c.page \in 0..FilePages /\ c.page \in Nat
           /\ c.val \in (1..MaxLives) \X (0..MaxWrites) /\ c.val[1] \in 1..MaxLives /\ c.val[1] \in Nat
           /\ c.val \in (0..MaxLives) \X (0..MaxWrites) /\ c.val # Zeros
           /\ c.size \in 0..FilePages /\ c.size \in Nat
           /\ c.shrink \in BOOLEAN /\ c.gone \in BOOLEAN /\ c.ok \in BOOLEAN
<1>1. /\ c.page \in 0..FilePages /\ c.val \in (1..MaxLives) \X (0..MaxWrites)
      /\ c.size \in 0..FilePages /\ c.shrink \in BOOLEAN /\ c.gone \in BOOLEAN /\ c.ok \in BOOLEAN
  BY DEF Chunks
<1>2. c.val[1] \in 1..MaxLives /\ c.val[2] \in 0..MaxWrites /\ c.val = <<c.val[1], c.val[2]>>
  BY <1>1
<1>3. c.val[1] # 0 /\ c.val[1] \in 0..MaxLives
  BY <1>2, FlashBounds
<1>4. c.val # Zeros
  BY <1>2, <1>3 DEF Zeros
<1>5. c.val \in (0..MaxLives) \X (0..MaxWrites)
  BY <1>2, <1>3
<1> QED BY <1>1, <1>2, <1>4, <1>5, FlashBounds

(* The order of the chunks is a total one.                                  *)
Ordered ==
    \A x, y \in Places :
        /\ ~Older(x, x)
        /\ x # y => Older(x, y) \/ Older(y, x)
        /\ Older(x, y) => ~Older(y, x)
        /\ \A z \in Places : Older(x, y) /\ Older(y, z) => Older(x, z)

(* _scan2()'s order, of sequence numbers and then places, is a total one.   *)
LEMMA OrderIs == ChipType => Ordered
<1> SUFFICES ASSUME ChipType, NEW x \in Places, NEW y \in Places
             PROVE  /\ ~Older(x, x)
                    /\ x # y => Older(x, y) \/ Older(y, x)
                    /\ Older(x, y) => ~Older(y, x)
                    /\ \A z \in Places : Older(x, y) /\ Older(y, z) => Older(x, z)
  BY DEF Ordered
<1>1. \A z \in Places : chip[z[1]].seq \in Nat /\ z[2] \in Nat /\ z[1] \in Used /\ z = <<z[1], z[2]>>
  BY PlaceTyped, FlashBounds
<1>2. x # y => Older(x, y) \/ Older(y, x)
  <2>1. CASE chip[x[1]].seq = chip[y[1]].seq
    <3>1. x[1] = y[1]
      BY <1>1, <2>1 DEF ChipType
    <3>2. x # y => x[2] # y[2]
      BY <1>1, <3>1
    <3> QED BY <1>1, <2>1, <3>2 DEF Older
  <2>2. CASE chip[x[1]].seq # chip[y[1]].seq
    BY <1>1, <2>2 DEF Older
  <2> QED BY <2>1, <2>2
<1>3. ~Older(x, x) /\ (Older(x, y) => ~Older(y, x))
  BY <1>1 DEF Older
<1>4. \A z \in Places : Older(x, y) /\ Older(y, z) => Older(x, z)
  BY <1>1 DEF Older
<1> QED BY <1>2, <1>3, <1>4

(* Of any chunks there is a newest.                                         *)
LEMMA NewestIs ==
    ASSUME ChipType, NEW S, S \subseteq Places, S # {}
    PROVE  Newest(S) \in S /\ \A y \in S \ {Newest(S)} : Older(y, Newest(S))
<1> DEFINE Q == {chip[x[1]].seq : x \in S}
<1>1. \A z \in S : /\ chip[z[1]].seq \in Nat /\ chip[z[1]].seq <= MaxSeq
                   /\ z[2] \in Nat /\ z[2] <= BlockPages
  BY PlaceTyped, FlashBounds
<1>2. PICK m \in Q : \A q \in Q : q <= m
  <2>1. Q \subseteq Nat /\ Q # {} /\ MaxSeq \in Nat /\ \A q \in Q : q <= MaxSeq
    BY <1>1, FlashBounds
  <2> HIDE DEF Q
  <2> QED BY <2>1, GreatestOf
<1> DEFINE T == {x[2] : x \in {y \in S : chip[y[1]].seq = m}}
<1>3. PICK i \in T : \A j \in T : j <= i
  <2>1. T \subseteq Nat /\ T # {} /\ BlockPages \in Nat /\ \A j \in T : j <= BlockPages
    BY <1>1, <1>2, FlashBounds
  <2> HIDE DEF T
  <2> QED BY <2>1, GreatestOf
<1>4. PICK x \in S : chip[x[1]].seq = m /\ x[2] = i
  BY <1>2, <1>3
<1>5. ASSUME NEW y \in S \ {x} PROVE Older(y, x)
  <2>1. chip[y[1]].seq <= m
    BY <1>2
  <2>2. chip[y[1]].seq = m => y[2] <= i
    BY <1>3
  <2>3. ~Older(x, y)
    BY <1>1, <1>4, <2>1, <2>2 DEF Older
  <2> QED BY <2>3, OrderIs DEF Ordered
<1>6. \E z \in S : \A y \in S \ {z} : Older(y, z)
  BY <1>5
<1> QED BY <1>6 DEF Newest

(* And only one.                                                            *)
LEMMA NewestOnly ==
    ASSUME ChipType, NEW S, S \subseteq Places, NEW x \in S, \A y \in S \ {x} : Older(y, x)
    PROVE  Newest(S) = x
<1>1. Newest(S) \in S /\ \A y \in S \ {Newest(S)} : Older(y, Newest(S))
  BY NewestIs
<1>2. Newest(S) # x => Older(x, Newest(S)) /\ Older(Newest(S), x)
  BY <1>1
<1> QED BY <1>1, <1>2, OrderIs DEF Ordered

(* A name is of one place.                                                  *)
LEMMA MarkIs ==
    ASSUME ChipType, NEW x \in Places, NEW y \in Places, Mark(x) = Mark(y)
    PROVE  x = y
<1>1. chip[x[1]].seq = chip[y[1]].seq /\ x[2] = y[2]
  BY DEF Mark
<1>2. x[1] = y[1]
  BY <1>1, PlaceTyped DEF ChipType
<1> QED BY <1>1, <1>2, PlaceTyped

(* Names that are there are used up.                                        *)
LEMMA MarksPast ==
    ASSUME ChipType, NEW x \in Places
    PROVE  Past(Mark(x))
<1>1. x[1] \in Used /\ x[2] \in 1..Len(chip[x[1]].pages) /\ chip[x[1]].seq \in Nat /\ now # 0
  BY PlaceTyped, FlashBounds DEF ChipType
<1>2. now \in Used /\ chip[x[1]].seq <= chip[now].seq /\ chip[now].seq \in Nat
  BY <1>1, BlockIs, FlashBounds DEF ChipType, Used
<1>3. chip[x[1]].seq = chip[now].seq => x[1] = now
  BY <1>1, <1>2 DEF ChipType
<1> DEFINE m == Mark(x)
<1>4. m[1] = chip[x[1]].seq /\ m[2] = x[2]
  BY DEF Mark
<1> HIDE DEF m
<1>5. m[1] < chip[now].seq \/ (m[1] = chip[now].seq /\ m[2] <= Len(chip[now].pages))
  BY <1>1, <1>2, <1>3, <1>4
<1>6. Past(m)
  BY <1>1, <1>5 DEF Past
<1> QED BY <1>6 DEF m

-----------------------------------------------------------------------------
(* What a step makes of the flash: a chunk more, or a block less.           *)
Grown(x, c) ==
    /\ c \in Chunks /\ x \in Nat \X Nat /\ x # Nowhere /\ x \notin Places
    /\ Places' = Places \cup {x}
    /\ At(x)' = c /\ ~Older(x, x)'
    /\ \A y \in Places : At(y)' = At(y) /\ Mark(y)' = Mark(y) /\ Older(y, x)' /\ ~Older(x, y)'
    /\ \A y, z \in Places : Older(y, z)' <=> Older(y, z)
    /\ \A m \in Nat \X Nat : Past(m) => Past(m)' /\ m # Mark(x)'

Shrunk(b) ==
    /\ Places' = {x \in Places : x[1] # b}
    /\ \A y \in Places' : At(y)' = At(y) /\ Mark(y)' = Mark(y)
    /\ \A y, z \in Places' : Older(y, z)' <=> Older(y, z)
    /\ \A m \in Nat \X Nat : Past(m) => Past(m)'

(* The last sequence number is that of the block being filled.              *)
LEMMA LastSeqIs ==
    ASSUME ChipType
    PROVE  LastSeq \in 0..MaxSeq /\ LastSeq = IF now = 0 THEN 0 ELSE chip[now].seq
<1> DEFINE S == {chip[b].seq : b \in 1..Blocks} \cup {deleted.seq}
<1>1. \A b \in 1..Blocks : chip[b].seq \in 0..MaxSeq
  BY BlockIs
<1>2. S \subseteq Nat /\ S # {} /\ MaxSeq \in Nat /\ \A s \in S : s <= MaxSeq
  <2>1. deleted.seq \in 0..MaxSeq /\ MaxSeq \in Nat
    BY FlashBounds DEF ChipType
  <2> QED BY <1>1, <2>1
<1>3. LastSeq = Max(S)
  BY DEF LastSeq
<1>4. LastSeq \in S /\ \A s \in S : s <= LastSeq
  <2> HIDE DEF S
  <2> QED BY <1>2, <1>3, GreatestOf
<1>5. CASE now = 0
  <2>1. \A b \in 1..Blocks : chip[b].seq = 0
    BY <1>5 DEF ChipType, Used
  <2>2. S = {0}
    BY <2>1, <1>5, FlashBounds DEF ChipType
  <2> QED BY <1>2, <1>4, <1>5, <2>2, FlashBounds
<1>6. CASE now # 0
  <2>1. now \in 1..Blocks /\ chip[now].seq \in S
    BY <1>6 DEF ChipType, Used
  <2>2. \A b \in 1..Blocks : chip[b].seq <= chip[now].seq
    BY <1>1, <1>6, <2>1, FlashBounds DEF ChipType, Used
  <2>3. \A s \in S : s <= chip[now].seq
    BY <2>2, <1>6 DEF ChipType
  <2>4. LastSeq = chip[now].seq
    <3> HIDE DEF S
    <3>1. LastSeq <= chip[now].seq /\ chip[now].seq <= LastSeq /\ LastSeq \in Nat /\ chip[now].seq \in Nat
      BY <1>2, <1>4, <2>1, <2>3
    <3> QED BY <3>1
  <2> QED BY <1>1, <1>6, <2>1, <2>4
<1> QED BY <1>5, <1>6

(* A chunk is put where nothing was, after all others, under a new name.    *)
LEMMA PutIs ==
    ASSUME ChipType, NEW b \in Open, NEW c \in Chunks, Put(b, c)
    PROVE  /\ b \in 1..Blocks /\ now' = b
           /\ Len(chip[b].pages) < BlockPages
           /\ chip' \in [1..Blocks -> [seq : 0..MaxSeq, pages : Seq(Chunks)]]
           /\ \A d \in 1..Blocks : d # b => chip'[d] = chip[d]
           /\ chip'[b].pages = Append(chip[b].pages, c)
           /\ chip'[b].seq \in 1..MaxSeq
           /\ Used' = Used \cup {b}
           /\ \/ b = now /\ b \in Used /\ chip'[b].seq = chip[b].seq
              \/ b \notin Used /\ Len(chip[b].pages) = 0 /\ chip'[b].seq = LastSeq + 1
<1>1. LastSeq \in 0..MaxSeq /\ MaxSeq \in Nat
  BY LastSeqIs, FlashBounds
<1>2. /\ b \in 1..Blocks /\ Len(chip[b].pages) < BlockPages
      /\ \/ b = now /\ b \in Used
         \/ b \notin Used /\ Len(chip[b].pages) = 0 /\ LastSeq < MaxSeq
  <2>1. CASE now # 0 /\ ~Full(now)
    <3>1. b = now /\ now \in Used
      BY <2>1 DEF Open, ChipType
    <3>2. Len(chip[now].pages) \in 1..BlockPages /\ BlockPages \in Nat
      BY <3>1, FlashBounds DEF ChipType, Used
    <3> QED BY <2>1, <3>1, <3>2 DEF Full, Used
  <2>2. CASE ~(now # 0 /\ ~Full(now))
    <3>1. b \in (1..Blocks) \ Used /\ LastSeq < MaxSeq
      BY <2>2 DEF Open
    <3>2. Len(chip[b].pages) = 0
      BY <3>1 DEF ChipType, Used
    <3> QED BY <3>1, <3>2, FlashBounds
  <2> QED BY <2>1, <2>2
<1> PICK r : r = [seq |-> IF chip[b].seq = 0 THEN LastSeq + 1 ELSE chip[b].seq,
                  pages |-> Append(chip[b].pages, c)]
  OBVIOUS
<1>3. chip' = [chip EXCEPT ![b] = r] /\ now' = b
  BY DEF Put
<1>4. chip[b].seq \in 0..MaxSeq /\ chip[b].pages \in Seq(Chunks)
  BY <1>2, BlockIs
<1>5. r.seq \in 1..MaxSeq /\ r.pages = Append(chip[b].pages, c) /\ r.pages \in Seq(Chunks)
  <2>1. Append(chip[b].pages, c) \in Seq(Chunks)
    <3> HIDE DEF Chunks
    <3> QED BY <1>4, AppendProperties
  <2>2. chip[b].seq = 0 => b \notin Used
    BY DEF Used
  <2> QED BY <1>1, <1>2, <1>4, <2>1, <2>2
<1>6. r \in [seq : 0..MaxSeq, pages : Seq(Chunks)]
  <2> HIDE DEF Chunks
  <2>1. r.seq \in 0..MaxSeq
    BY <1>1, <1>5
  <2>2. r = [seq |-> r.seq, pages |-> r.pages]
    OBVIOUS
  <2> QED BY <1>5, <2>1, <2>2
<1>7. chip' \in [1..Blocks -> [seq : 0..MaxSeq, pages : Seq(Chunks)]] /\ chip'[b] = r
      /\ \A d \in 1..Blocks : d # b => chip'[d] = chip[d]
  <2> DEFINE R == [seq : 0..MaxSeq, pages : Seq(Chunks)]
  <2>1. chip \in [1..Blocks -> R] /\ r \in R
    BY <1>6 DEF ChipType
  <2> HIDE DEF R
  <2>2. chip' \in [1..Blocks -> R] /\ chip'[b] = r
        /\ \A d \in 1..Blocks : d # b => chip'[d] = chip[d]
    BY <1>2, <1>3, <2>1
  <2> QED BY <2>2 DEF R
<1>8. chip'[b].pages = Append(chip[b].pages, c) /\ chip'[b].seq = r.seq
  BY <1>5, <1>7
<1>9. Used' = Used \cup {b}
  <2>1. chip'[b].seq # 0
    BY <1>1, <1>5, <1>8
  <2>2. \A d \in 1..Blocks : chip'[d].seq # 0 <=> (d = b \/ chip[d].seq # 0)
    BY <1>7, <2>1
  <2> QED BY <1>2, <2>2 DEF Used
<1>10. b \in Used => r.seq = chip[b].seq
  BY DEF Used
<1>11. b \notin Used => r.seq = LastSeq + 1
  BY <1>2 DEF Used
<1> QED BY <1>2, <1>3, <1>5, <1>7, <1>8, <1>9, <1>10, <1>11

(* The chip still is a chip.                                                *)
LEMMA PutTyped ==
    ASSUME ChipType, NEW b \in Open, NEW c \in Chunks, Put(b, c), deleted'.seq = deleted.seq
    PROVE  ChipType'
<1>1. /\ b \in 1..Blocks /\ now' = b
      /\ chip' \in [1..Blocks -> [seq : 0..MaxSeq, pages : Seq(Chunks)]]
      /\ \A d \in 1..Blocks : d # b => chip'[d] = chip[d]
      /\ chip'[b].seq \in 1..MaxSeq
      /\ Used' = Used \cup {b} /\ Used \subseteq 1..Blocks
  BY PutIs DEF Used
<1>2. Len(chip'[b].pages) \in 1..BlockPages
  <2>1. chip'[b].pages = Append(chip[b].pages, c) /\ Len(chip[b].pages) < BlockPages /\ chip[b].pages \in Seq(Chunks)
    BY <1>1, PutIs, BlockIs
  <2>2. Len(chip'[b].pages) = Len(chip[b].pages) + 1 /\ Len(chip[b].pages) \in Nat
    <3> HIDE DEF Chunks
    <3> QED BY <2>1, AppendProperties, LenProperties
  <2> QED BY <2>1, <2>2, FlashBounds
<1>3. MaxSeq \in Nat /\ LastSeq \in 0..MaxSeq
  BY FlashBounds, LastSeqIs
<1>4. /\ deleted.seq <= chip'[b].seq
      /\ \A d \in Used : chip[d].seq <= chip'[b].seq
      /\ \A d \in Used : chip[d].seq = chip'[b].seq => d = b
  <2>1. \A d \in Used : chip[d].seq \in 1..MaxSeq
    BY <1>3, BlockIs DEF Used
  <2>2. deleted.seq \in 0..MaxSeq
    BY DEF ChipType
  <2>3. CASE b = now /\ b \in Used /\ chip'[b].seq = chip[b].seq
    <3>1. now # 0
      BY <2>3, <1>1
    <3> QED BY <3>1, <2>3 DEF ChipType
  <2>4. CASE b \notin Used /\ chip'[b].seq = LastSeq + 1
    <3>1. deleted.seq <= LastSeq /\ \A d \in Used : chip[d].seq <= LastSeq
      BY LastSeqIs DEF ChipType
    <3> QED BY <1>3, <2>1, <2>2, <2>4, <3>1
  <2> QED BY <2>3, <2>4, PutIs
<1>5. ASSUME NEW d \in 1..Blocks
      PROVE  /\ chip'[d].seq = 0 => Len(chip'[d].pages) = 0
             /\ chip'[d].seq # 0 => Len(chip'[d].pages) \in 1..BlockPages
  BY <1>1, <1>2, <1>3 DEF ChipType
<1>6. ASSUME NEW d \in Used', NEW e \in Used', chip'[d].seq = chip'[e].seq PROVE d = e
  <2>1. CASE d # b /\ e # b
    BY <1>1, <1>6, <2>1 DEF ChipType
  <2>2. CASE d = b \/ e = b
    BY <1>1, <1>4, <1>6, <2>2
  <2> QED BY <2>1, <2>2
<1>7. ASSUME NEW d \in Used' PROVE chip'[d].seq <= chip'[b].seq
  <2>1. CASE d = b
    BY <1>1, <1>3, <2>1
  <2>2. CASE d # b
    BY <1>1, <1>4, <2>2
  <2> QED BY <2>1, <2>2
<1>8. b # 0 /\ b \in 0..Blocks /\ deleted'.seq \in 0..MaxSeq
  BY <1>1, FlashBounds DEF ChipType
<1> QED BY <1>1, <1>4, <1>5, <1>6, <1>7, <1>8 DEF ChipType

(* A chunk is put: the places are those there were and one after them all.  *)
LEMMA PutGrows ==
    ASSUME ChipType, NEW b \in Open, NEW c \in Chunks, Put(b, c), deleted'.seq = deleted.seq
    PROVE  \E x \in Nat \X Nat : x = PutAt(b) /\ Grown(x, c)
<1>1. /\ b \in 1..Blocks /\ now' = b
      /\ \A d \in 1..Blocks : d # b => chip'[d] = chip[d]
      /\ chip'[b].pages = Append(chip[b].pages, c)
      /\ chip'[b].seq \in 1..MaxSeq
      /\ Used' = Used \cup {b} /\ Used \subseteq 1..Blocks
      /\ \/ b = now /\ b \in Used /\ chip'[b].seq = chip[b].seq
         \/ b \notin Used /\ Len(chip[b].pages) = 0 /\ chip'[b].seq = LastSeq + 1
  BY PutIs DEF Used
<1>2. ChipType'
  BY PutTyped
<1> PICK n : n = Len(chip[b].pages)
  OBVIOUS
<1>3. /\ n \in Nat /\ Len(chip'[b].pages) = n + 1
      /\ chip'[b].pages[n + 1] = c
      /\ \A i \in 1..n : chip'[b].pages[i] = chip[b].pages[i]
  <2>1. chip[b].pages \in Seq(Chunks)
    BY <1>1, BlockIs
  <2> HIDE DEF Chunks
  <2> QED BY <1>1, <2>1, AppendProperties, LenProperties
<1> PICK x : x = <<b, n + 1>>
  OBVIOUS
<1>4. x = PutAt(b) /\ x \in Nat \X Nat /\ x[1] = b /\ x[2] = n + 1 /\ x # Nowhere
  BY <1>1, <1>3, FlashBounds DEF PutAt, Nowhere
<1>5. x \notin Places
  <2>1. ASSUME x \in Places PROVE FALSE
    <3>1. x[2] \in 1..Len(chip[x[1]].pages)
      BY <2>1, PlaceTyped
    <3> QED BY <1>3, <1>4, <3>1
  <2> QED BY <2>1
<1>6. Places' = Places \cup {x}
  <2>1. ASSUME NEW y PROVE y \in Places' <=> y \in Places \/ y = x
    <3>1. y \in Places' <=> \E d \in Used' : \E i \in 1..Len(chip'[d].pages) : y = <<d, i>>
      BY DEF Places
    <3>2. y \in Places <=> \E d \in Used : \E i \in 1..Len(chip[d].pages) : y = <<d, i>>
      BY PlaceIs
    <3>3. ASSUME y \in Places PROVE y \in Places'
      <4>1. PICK d \in Used : \E i \in 1..Len(chip[d].pages) : y = <<d, i>>
        BY <3>2, <3>3
      <4>2. PICK i \in 1..Len(chip[d].pages) : y = <<d, i>>
        BY <4>1
      <4>3. i \in 1..Len(chip'[d].pages) /\ d \in Used'
        <5>1. CASE d = b
          BY <1>1, <1>3, <5>1
        <5>2. CASE d # b
          BY <1>1, <5>2
        <5> QED BY <5>1, <5>2
      <4> QED BY <3>1, <4>2, <4>3
    <3>4. ASSUME y = x PROVE y \in Places'
      <4>1. b \in Used' /\ n + 1 \in 1..Len(chip'[b].pages)
        BY <1>1, <1>3
      <4> QED BY <3>1, <3>4, <4>1
    <3>5. ASSUME y \in Places', y # x PROVE y \in Places
      <4>1. PICK d \in Used' : \E i \in 1..Len(chip'[d].pages) : y = <<d, i>>
        BY <3>1, <3>5
      <4>2. PICK i \in 1..Len(chip'[d].pages) : y = <<d, i>>
        BY <4>1
      <4>3. CASE d # b
        BY <1>1, <3>2, <4>2, <4>3
      <4>4. CASE d = b
        <5>1. i \in 1..n
          BY <1>3, <3>5, <4>2, <4>4
        <5>2. b \in Used
          BY <1>1, <1>3, <5>1
        <5> QED BY <3>2, <4>2, <4>4, <5>1, <5>2
      <4> QED BY <4>3, <4>4
    <3> QED BY <3>3, <3>4, <3>5
  <2> QED BY <2>1
<1>7. At(x)' = c
  BY <1>3, <1>4 DEF At
<1>8. ASSUME NEW y \in Places
      PROVE  At(y)' = At(y) /\ chip'[y[1]].seq = chip[y[1]].seq /\ Mark(y)' = Mark(y)
  <2>1. y[1] \in Used /\ y[1] \in 1..Blocks /\ y[2] \in 1..Len(chip[y[1]].pages)
    BY PlaceTyped
  <2>2. CASE y[1] = b
    <3>1. chip'[b].pages[y[2]] = chip[b].pages[y[2]] /\ chip'[b].seq = chip[b].seq
      BY <1>1, <1>3, <2>1, <2>2
    <3> QED BY <2>2, <3>1 DEF At, Mark
  <2>3. CASE y[1] # b
    <3>1. chip'[y[1]] = chip[y[1]]
      BY <1>1, <2>1, <2>3
    <3> QED BY <3>1 DEF At, Mark
  <2> QED BY <2>2, <2>3
<1>9. ASSUME NEW y \in Places, NEW z \in Places PROVE Older(y, z)' <=> Older(y, z)
  BY <1>8 DEF Older
<1>10. LastSeq \in Nat /\ (now # 0 => LastSeq = chip[now].seq) /\ MaxSeq \in Nat
  BY LastSeqIs, FlashBounds
<1>11. ASSUME NEW y \in Places PROVE Older(y, x)' /\ ~Older(x, y)'
  <2>1. y[1] \in Used /\ y[2] \in 1..Len(chip[y[1]].pages) /\ chip[y[1]].seq \in 1..MaxSeq /\ now # 0
    BY PlaceTyped DEF ChipType
  <2>2. chip[y[1]].seq <= chip[now].seq
    BY <2>1 DEF ChipType
  <2>3. chip'[y[1]].seq = chip[y[1]].seq
    BY <1>8
  <2>4. chip[y[1]].seq < chip'[b].seq \/ (chip[y[1]].seq = chip'[b].seq /\ y[2] < n + 1)
    <3>1. CASE b = now /\ b \in Used /\ chip'[b].seq = chip[b].seq
      <4>1. chip[y[1]].seq = chip[b].seq => y[1] = b
        BY <2>1, <3>1 DEF ChipType
      <4> QED BY <1>1, <1>3, <1>10, <2>1, <2>2, <3>1, <4>1
    <3>2. CASE b \notin Used /\ chip'[b].seq = LastSeq + 1
      BY <1>10, <2>1, <2>2, <3>2
    <3> QED BY <1>1, <3>1, <3>2
  <2>5. y[2] \in Nat /\ chip[y[1]].seq \in Nat /\ chip'[b].seq \in Nat
    BY <1>1, <1>10, <2>1
  <2> QED BY <1>3, <1>4, <2>3, <2>4, <2>5 DEF Older
<1>12. ASSUME NEW m \in Nat \X Nat, Past(m) PROVE Past(m)' /\ m # Mark(x)'
  <2>1. /\ now # 0 /\ m[1] \in Nat /\ m[2] \in Nat
        /\ m[1] < chip[now].seq \/ (m[1] = chip[now].seq /\ m[2] <= Len(chip[now].pages))
    BY <1>12 DEF Past
  <2>2. now' # 0 /\ now' = b
    BY <1>1
  <2>3. /\ m[1] < chip'[b].seq \/ (m[1] = chip'[b].seq /\ m[2] <= n)
    <3>1. CASE b = now /\ b \in Used /\ chip'[b].seq = chip[b].seq
      BY <2>1, <3>1
    <3>2. CASE b \notin Used /\ chip'[b].seq = LastSeq + 1
      BY <1>10, <2>1, <3>2
    <3> QED BY <1>1, <3>1, <3>2
  <2>4. chip'[b].seq \in Nat
    BY <1>1, <1>10
  <2>5. Past(m)'
    BY <1>3, <2>1, <2>2, <2>3, <2>4 DEF Past
  <2>6. Mark(x)' = <<chip'[b].seq, n + 1>>
    BY <1>4 DEF Mark
  <2>7. m # <<chip'[b].seq, n + 1>>
    BY <1>3, <2>1, <2>3, <2>4
  <2> QED BY <2>5, <2>6, <2>7
<1>13. Grown(x, c)
  <2>1. \A y \in Places : At(y)' = At(y) /\ Mark(y)' = Mark(y) /\ Older(y, x)' /\ ~Older(x, y)'
    BY <1>8, <1>11
  <2>2. \A y, z \in Places : Older(y, z)' <=> Older(y, z)
    BY <1>9
  <2>3. \A m \in Nat \X Nat : Past(m) => Past(m)' /\ m # Mark(x)'
    BY <1>12
  <2>4. At(x)' = c /\ Places' = Places \cup {x} /\ x \notin Places
    BY <1>5, <1>6, <1>7
  <2>5. ~Older(x, x)'
    BY <1>1, <1>3, <1>4, <1>10 DEF Older
  <2> QED BY <1>4, <2>1, <2>2, <2>3, <2>4, <2>5 DEF Grown
<1> QED BY <1>4, <1>13

(* A block is erased.                                                       *)
LEMMA EraseIs ==
    ASSUME ChipType, FileType, NEW b \in 1..Blocks, Erase(b)
    PROVE  /\ now' = now /\ b # now /\ b \in Used /\ now # 0
           /\ Used' = Used \ {b} /\ now \in Used
           /\ \A d \in 1..Blocks : d # b => chip'[d] = chip[d]
           /\ chip'[b].seq = 0 /\ chip'[b].pages = <<>>
           /\ chip' \in [1..Blocks -> [seq : 0..MaxSeq, pages : Seq(Chunks)]]
           /\ deleted'.seq \in 0..MaxSeq /\ deleted'.seq = chip[now].seq
<1>1. /\ b \in Used /\ Collectable(b) /\ now' = now
      /\ chip' = [chip EXCEPT ![b] = [seq |-> 0, pages |-> <<>>]]
      /\ deleted' = [deleted EXCEPT !.seq = LastSeq]
  BY DEF Erase
<1>2. b # now /\ now # 0 /\ now \in Used
  BY <1>1 DEF Collectable, ChipType
<1>3. /\ \A d \in 1..Blocks : d # b => chip'[d] = chip[d]
      /\ chip'[b].seq = 0 /\ chip'[b].pages = <<>>
      /\ chip' \in [1..Blocks -> [seq : 0..MaxSeq, pages : Seq(Chunks)]]
  <2> PICK r : r = [seq |-> 0, pages |-> <<>>]
    OBVIOUS
  <2>1. r.seq = 0 /\ r.pages = <<>> /\ r \in [seq : 0..MaxSeq, pages : Seq(Chunks)]
    <3>1. <<>> \in Seq(Chunks)
      <4> HIDE DEF Chunks
      <4> QED BY EmptySeq
    <3> HIDE DEF Chunks
    <3> QED BY <3>1, FlashBounds
  <2> DEFINE R == [seq : 0..MaxSeq, pages : Seq(Chunks)]
  <2>2. chip \in [1..Blocks -> R] /\ r \in R /\ chip' = [chip EXCEPT ![b] = r]
    BY <1>1, <2>1 DEF ChipType
  <2> HIDE DEF R
  <2>3. chip' \in [1..Blocks -> R] /\ chip'[b] = r /\ \A d \in 1..Blocks : d # b => chip'[d] = chip[d]
    BY <2>2
  <2> QED BY <2>1, <2>3 DEF R
<1>4. Used' = Used \ {b}
  BY <1>3 DEF Used
<1>5. deleted'.seq \in 0..MaxSeq /\ deleted'.seq = chip[now].seq
  <2>1. LastSeq \in 0..MaxSeq /\ LastSeq = chip[now].seq
    BY <1>2, LastSeqIs
  <2>2. deleted'.seq = LastSeq
    BY <1>1 DEF FileType
  <2> QED BY <2>1, <2>2
<1> QED BY <1>1, <1>2, <1>3, <1>4, <1>5

(* The chip still is a chip, and all but what was in the block is as it was.*)
LEMMA EraseTyped ==
    ASSUME ChipType, FileType, NEW b \in 1..Blocks, Erase(b)
    PROVE  ChipType'
<1>1. /\ now' = now /\ b # now /\ now # 0 /\ now \in Used
      /\ Used' = Used \ {b} /\ Used \subseteq 1..Blocks
      /\ \A d \in 1..Blocks : d # b => chip'[d] = chip[d]
      /\ chip'[b].seq = 0 /\ chip'[b].pages = <<>>
      /\ chip' \in [1..Blocks -> [seq : 0..MaxSeq, pages : Seq(Chunks)]]
      /\ deleted'.seq \in 0..MaxSeq /\ deleted'.seq = chip[now].seq
  BY EraseIs DEF Used
<1>2. Len(chip'[b].pages) = 0
  BY <1>1
<1>3. ASSUME NEW d \in 1..Blocks
      PROVE  /\ chip'[d].seq = 0 => Len(chip'[d].pages) = 0
             /\ chip'[d].seq # 0 => Len(chip'[d].pages) \in 1..BlockPages
  BY <1>1, <1>2 DEF ChipType
<1>4. \A d, e \in Used' : chip'[d].seq = chip'[e].seq => d = e
  BY <1>1 DEF ChipType
<1>5. chip'[now].seq = chip[now].seq /\ chip[now].seq \in 0..MaxSeq
  BY <1>1, BlockIs
<1>6. \A d \in Used' : chip'[d].seq <= chip'[now].seq
  BY <1>1, <1>5 DEF ChipType
<1>7. now' \in Used' /\ deleted'.seq <= chip'[now].seq
  BY <1>1, <1>5, FlashBounds
<1>8. now' \in 0..Blocks
  BY <1>1 DEF ChipType
<1> QED BY <1>1, <1>3, <1>4, <1>6, <1>7, <1>8 DEF ChipType

(* An erased block takes its own chunks away and touches no other.          *)
LEMMA EraseShrinks ==
    ASSUME ChipType, FileType, NEW b \in 1..Blocks, Erase(b)
    PROVE  Shrunk(b)
<1>1. /\ now' = now /\ b # now /\ now # 0 /\ now \in Used
      /\ Used' = Used \ {b} /\ Used \subseteq 1..Blocks
      /\ \A d \in 1..Blocks : d # b => chip'[d] = chip[d]
  BY EraseIs DEF Used
<1>2. ASSUME NEW y PROVE y \in Places' <=> y \in Places /\ y[1] # b
  <2>1. y \in Places' <=> \E d \in Used' : \E i \in 1..Len(chip'[d].pages) : y = <<d, i>>
    BY DEF Places
  <2>2. y \in Places <=> \E d \in Used : \E i \in 1..Len(chip[d].pages) : y = <<d, i>>
    BY PlaceIs
  <2>3. ASSUME y \in Places' PROVE y \in Places /\ y[1] # b
    <3>1. PICK d \in Used' : \E i \in 1..Len(chip'[d].pages) : y = <<d, i>>
      BY <2>1, <2>3
    <3>2. d \in Used /\ d # b /\ chip'[d] = chip[d] /\ y[1] = d
      BY <1>1, <3>1
    <3> QED BY <2>2, <3>1, <3>2
  <2>4. ASSUME y \in Places, y[1] # b PROVE y \in Places'
    <3>1. PICK d \in Used : \E i \in 1..Len(chip[d].pages) : y = <<d, i>>
      BY <2>2, <2>4
    <3>2. d \in Used' /\ chip'[d] = chip[d]
      BY <1>1, <2>4, <3>1
    <3> QED BY <2>1, <3>1, <3>2
  <2> QED BY <2>3, <2>4
<1>3. ASSUME NEW y \in Places' PROVE chip'[y[1]] = chip[y[1]]
  BY <1>1, <1>2, PlaceTyped
<1>4. \A y \in Places' : At(y)' = At(y) /\ Mark(y)' = Mark(y)
  BY <1>3 DEF At, Mark
<1>5. \A y, z \in Places' : Older(y, z)' <=> Older(y, z)
  BY <1>3 DEF Older
<1>6. chip'[now] = chip[now]
  BY <1>1
<1>7. \A m \in Nat \X Nat : Past(m) => Past(m)'
  BY <1>1, <1>6 DEF Past
<1> QED BY <1>2, <1>4, <1>5, <1>7 DEF Shrunk

(* A header that shrinks its file goes only with all that is not in use and *)
(* older than it (the rule of Collectable).                                 *)
LEMMA ShrinkerStays ==
    ASSUME ChipType, FileType, NEW b \in 1..Blocks, Erase(b),
           NEW h \in Places, At(h).shrink, NEW x \in Places', x \notin Live, Older(x, h)
    PROVE  h \in Places'
<1>1. Places' = {y \in Places : y[1] # b}
  BY EraseShrinks DEF Shrunk
<1>2. SUFFICES ASSUME h[1] = b PROVE FALSE
  BY <1>1
<1>3. x \in Places /\ x[1] # b
  BY <1>1
<1>4. /\ x[1] \in Used /\ x[2] \in 1..Len(chip[x[1]].pages) /\ x = <<x[1], x[2]>>
      /\ h[2] \in 1..Len(chip[b].pages)
      /\ chip[x[1]].seq \in Nat /\ chip[b].seq \in Nat
  <2>1. /\ x[1] \in Used /\ x[2] \in 1..Len(chip[x[1]].pages) /\ x = <<x[1], x[2]>>
        /\ chip[x[1]].seq \in 1..MaxSeq
    BY <1>3, PlaceTyped
  <2>2. h[2] \in 1..Len(chip[h[1]].pages) /\ chip[h[1]].seq \in 1..MaxSeq
    BY PlaceTyped
  <2>3. MaxSeq \in Nat
    BY FlashBounds
  <2> QED BY <1>2, <2>1, <2>2, <2>3
<1>5. Collectable(b) /\ b \in Used
  BY DEF Erase
<1>6. chip[b].pages[h[2]].shrink /\ h[2] \in 1..BlockPages
  <2>1. Len(chip[b].pages) = BlockPages
    BY <1>5 DEF Collectable, Full
  <2> QED BY <1>2, <1>4, <2>1 DEF At
<1>7. chip[x[1]].seq # chip[b].seq
  BY <1>3, <1>4, <1>5 DEF ChipType
<1>8. chip[x[1]].seq < chip[b].seq
  BY <1>2, <1>4, <1>7 DEF Older
<1>9. <<x[1], x[2]>> \in Live
  BY <1>3, <1>4, <1>5, <1>6, <1>8 DEF Collectable
<1> QED BY <1>4, <1>9

(* And what is in use does not go.                                          *)
LEMMA LiveStays ==
    ASSUME ChipType, FileType, NEW b \in 1..Blocks, Erase(b), NEW x \in Places \cap Live
    PROVE  x \in Places'
<1>1. x[1] = b => FALSE
  <2>1. SUFFICES ASSUME x[1] = b PROVE FALSE
    OBVIOUS
  <2>2. x = <<b, x[2]>> /\ x[2] \in 1..Len(chip[b].pages)
    BY <2>1, PlaceTyped
  <2>3. Len(chip[b].pages) = BlockPages /\ \A i \in 1..BlockPages : <<b, i>> \notin Live
    BY DEF Erase, Collectable, Full
  <2> QED BY <2>2, <2>3
<1> QED BY <1>1, EraseShrinks DEF Shrunk

-----------------------------------------------------------------------------
(* The chunks of the file and its headers, after a step.                    *)

(* The places of Entries and their headers are places.                      *)
LEMMA EntryIs ==
    /\ Entries \subseteq Places
    /\ \A S : Headers(S) \subseteq S
    /\ \A S, p : Copies(S, p) \subseteq S
    /\ \A S, y : Before(S, y) \subseteq S
  BY DEF Entries, Headers, Copies, Before

(* One chunk more: an entry if its tags hold.                               *)
LEMMA GrownEntries ==
    ASSUME NEW x, NEW c, Grown(x, c)
    PROVE  \A y : /\ y \in Entries' <=> y \in Entries \/ (y = x /\ c.ok)
                  /\ y \in Headers(Entries)' <=> y \in Headers(Entries) \/ (y = x /\ c.ok /\ c.page = 0)
                  /\ \A p : y \in Copies(Entries, p)' <=>
                        y \in Copies(Entries, p) \/ (y = x /\ c.ok /\ c.page = p)
<1>1. /\ Places' = Places \cup {x} /\ At(x)' = c /\ x \notin Places
      /\ \A y \in Places : At(y)' = At(y)
  BY DEF Grown
<1>2. \A y : y \in Entries' <=> y \in Entries \/ (y = x /\ c.ok)
  BY <1>1 DEF Entries
<1>3. \A y \in Entries : y \in Places
  BY EntryIs
<1>4. \A y : y \in Headers(Entries)' <=> y \in Headers(Entries) \/ (y = x /\ c.ok /\ c.page = 0)
  BY <1>1, <1>2, <1>3 DEF Headers
<1>5. \A y, p : y \in Copies(Entries, p)' <=>
                        y \in Copies(Entries, p) \/ (y = x /\ c.ok /\ c.page = p)
  BY <1>1, <1>2, <1>3 DEF Copies
<1> QED BY <1>2, <1>4, <1>5

(* One block less.                                                          *)
LEMMA ShrunkEntries ==
    ASSUME NEW b, Shrunk(b)
    PROVE  /\ Places' \subseteq Places
           /\ \A y : /\ y \in Entries' <=> y \in Entries /\ y \in Places'
                     /\ y \in Headers(Entries)' <=> y \in Headers(Entries) /\ y \in Places'
                     /\ \A p : y \in Copies(Entries, p)' <=> y \in Copies(Entries, p) /\ y \in Places'
<1>1. /\ Places' \subseteq Places /\ \A y \in Places' : At(y)' = At(y)
  BY DEF Shrunk
<1>2. \A y : y \in Entries' <=> y \in Entries /\ y \in Places'
  BY <1>1 DEF Entries
<1>3. \A y : y \in Headers(Entries)' <=> y \in Headers(Entries) /\ y \in Places'
  BY <1>1, <1>2 DEF Headers
<1>4. \A y, p : y \in Copies(Entries, p)' <=> y \in Copies(Entries, p) /\ y \in Places'
  BY <1>1, <1>2 DEF Copies
<1> QED BY <1>1, <1>2, <1>3, <1>4

(* What the file is, of its type.                                           *)
LEMMA FileIs ==
    ASSUME FileType
    PROVE  /\ file.state \in {"none", "dir", "cut", "unlinked"}
           /\ file.life \in 0..MaxLives /\ file.life \in Nat
           /\ file.size \in 0..FilePages /\ file.size \in Nat
           /\ file.hole \in BOOLEAN
           /\ file.at \in [0..FilePages -> Nat \X Nat]
           /\ 0 \in 0..FilePages /\ FilePages \in Nat
           /\ Pages \subseteq 0..FilePages /\ 0 \notin Pages
           /\ Len(deleted.lives) \in Nat
<1>1. file \in File
  BY DEF FileType
<1>2. /\ file.state \in {"none", "dir", "cut", "unlinked"}
      /\ file.life \in 0..MaxLives
      /\ file.size \in 0..FilePages
      /\ file.hole \in BOOLEAN
      /\ file.at \in [0..FilePages -> Nat \X Nat]
  BY <1>1 DEF File
<1>3. MaxLives \in Nat /\ FilePages \in Nat
  BY FlashBounds
<1>4. deleted.lives \in Seq(Dead)
  <2> HIDE DEF Dead
  <2> QED BY DEF FileType
<1>5. Len(deleted.lives) \in Nat
  <2> HIDE DEF Dead
  <2> QED BY <1>4, LenProperties
<1> QED BY <1>2, <1>3, <1>5 DEF Pages

(* A chunk the driver goes by is an entry of its page and life.             *)
LEMMA LiveIs ==
    ASSUME FileType, FileKept, NEW x
    PROVE  /\ x \in Live <=> \E p \in 0..FilePages : x = file.at[p] /\ file.at[p] # Nowhere
           /\ x \in Live =>
                 /\ x \in Entries /\ x \in Places /\ file.state # "none" /\ Of(x) = file.life
                 /\ At(x).page \in 0..FilePages /\ x = file.at[At(x).page] /\ x # Nowhere
<1>1. x \in Live <=> \E p \in 0..FilePages : x = file.at[p] /\ file.at[p] # Nowhere
  BY DEF Live
<1>2. ASSUME NEW p \in 0..FilePages, file.at[p] # Nowhere
      PROVE  /\ file.at[p] \in Entries /\ file.at[p] \in Places /\ file.state # "none"
             /\ At(file.at[p]).page = p /\ Of(file.at[p]) = file.life
  BY <1>2, EntryIs DEF FileKept
<1> QED BY <1>1, <1>2

(* What the chunks there were say, they go on saying.                       *)
LEMMA GrownSays ==
    ASSUME ChipType, NEW x, NEW c, Grown(x, c)
    PROVE  /\ \A y \in Entries : /\ y \in Places /\ y # x
                                 /\ At(y)' = At(y) /\ Of(y)' = Of(y) /\ Of(y) \in Nat /\ Of(y) > 0
                                 /\ Older(y, x)' /\ ~Older(x, y)'
           /\ \A y, z \in Entries : Older(y, z)' <=> Older(y, z)
           /\ At(x)' = c /\ Of(x)' = c.val[1] /\ ~Older(x, x)'
           /\ \A y : /\ y \in Entries' <=> y \in Entries \/ (y = x /\ c.ok)
                     /\ y \in Headers(Entries)' <=> y \in Headers(Entries) \/ (y = x /\ c.ok /\ c.page = 0)
<1>1. \A y \in Entries : y \in Places
  BY EntryIs
<1>2. \A y \in Places : At(y)' = At(y) /\ y # x /\ Older(y, x)' /\ ~Older(x, y)'
  BY DEF Grown
<1>3. \A y, z \in Places : Older(y, z)' <=> Older(y, z)
  BY DEF Grown
<1>4. At(x)' = c
  BY DEF Grown
<1>5. \A y \in Places : Of(y)' = Of(y)
  BY <1>2 DEF Of
<1>6. \A y \in Places : Of(y) \in Nat /\ Of(y) > 0
  BY PlaceTyped, ChunkSays DEF Of
<1>7. ~Older(x, x)'
  BY DEF Grown
<1> QED BY <1>1, <1>2, <1>3, <1>4, <1>5, <1>6, <1>7, GrownEntries DEF Of

(* Lives go on in order when a chunk is of the last.                        *)
LEMMA LivesGrown ==
    ASSUME ChipType, FileType, LivesInOrder, NEW x, NEW c, Grown(x, c),
           c.ok => c.val[1] = file'.life, file'.life \in Nat, file.life <= file'.life
    PROVE  LivesInOrder'
<1>1. file.life \in Nat
  BY FileIs
<1>2. ASSUME NEW y \in Entries' PROVE Of(y)' <= file'.life
  <2>1. CASE y \in Entries
    BY <1>1, <2>1, GrownSays DEF LivesInOrder
  <2>2. CASE y \notin Entries
    BY <2>2, GrownSays
  <2> QED BY <2>1, <2>2
<1>3. ASSUME NEW y \in Entries', NEW z \in Entries', Older(y, z)' PROVE Of(y)' <= Of(z)'
  <2>1. CASE y \in Entries /\ z \in Entries
    BY <1>3, <2>1, GrownSays DEF LivesInOrder
  <2>2. CASE z \notin Entries
    <3>1. z = x /\ c.ok
      BY <2>2, GrownSays
    <3>2. Of(z)' = file'.life
      BY <3>1, GrownSays
    <3> QED BY <1>2, <3>2
  <2>3. CASE y \notin Entries /\ z \in Entries
    BY <1>3, <2>3, GrownSays
  <2> QED BY <2>1, <2>2, <2>3
<1> QED BY <1>2, <1>3 DEF LivesInOrder

(* The ends of lives are there when no other life ends.                     *)
LEMMA EndsGrown ==
    ASSUME ChipType, FileType, LivesInOrder, EndsKept, NEW x, NEW c, Grown(x, c),
           c.ok => c.val[1] = file'.life, file'.life \in Nat,
           file'.state # "none", file'.life = file.life \/ file.state = "none"
    PROVE  EndsKept'
<1> SUFFICES ASSUME NEW y \in Entries', Of(y)' < file'.life
             PROVE  \E d \in Headers(Entries)' :
                       /\ At(d)'.gone /\ At(d)'.shrink /\ At(d)'.size = 0 /\ Of(d)' = Of(y)'
                       /\ y = d \/ Older(y, d)'
  BY DEF EndsKept
<1>1. y \in Entries
  BY GrownSays
<1>2. Of(y) < file.life \/ file.state = "none"
  BY <1>1, GrownSays
<1>3. PICK d \in Headers(Entries) :
            /\ At(d).gone /\ At(d).shrink /\ At(d).size = 0 /\ Of(d) = Of(y)
            /\ y = d \/ Older(y, d)
  BY <1>1, <1>2 DEF EndsKept
<1>4. d \in Entries /\ d \in Headers(Entries)'
  BY EntryIs, GrownSays
<1> QED BY <1>1, <1>3, <1>4, GrownSays

(* What the driver goes by is there after a step that puts a chunk for one  *)
(* of its pages.                                                            *)
LEMMA LiveGrown ==
    ASSUME ChipType, FileType, FileKept, NEW x, NEW c, Grown(x, c), c.ok,
           c.val[1] = file'.life,
           NEW p \in 0..FilePages, file'.at[p] # Nowhere,
           \/ file'.at[p] = x /\ c.page = p
           \/ file'.at[p] = file.at[p] /\ file'.life = file.life
    PROVE  file'.at[p] \in Entries' /\ At(file.at[p])'.page = p /\ Of(file.at[p])' = file'.life
<1> PICK y : y = file'.at[p]
  OBVIOUS
<1>1. y \in Entries' /\ At(y)'.page = p /\ Of(y)' = file'.life
  <2>1. CASE y = x /\ c.page = p
    BY <2>1, GrownSays
  <2>2. CASE y = file.at[p] /\ file'.life = file.life
    <3>1. y \in Entries /\ At(y).page = p /\ Of(y) = file.life
      BY <2>2 DEF FileKept
    <3> QED BY <2>2, <3>1, GrownSays
  <2> QED BY <2>1, <2>2
<1> QED BY <1>1

(* A header that says the size the file has, and files it nowhere else,     *)
(* leaves the file told.                                                    *)
LEMMA ToldByHeader ==
    ASSUME ChipType, FileType, FileKept, FileTold, NEW x, NEW c, Grown(x, c), c.ok, c.page = 0,
           ~c.gone, c.size = file'.size, file'.at[0] = x, file'.state \in {"dir", "cut"},
           \A p \in Pages : \/ file'.at[p] = Nowhere
                            \/ /\ file'.at[p] = file.at[p] /\ file.state \in {"dir", "cut"}
                               /\ p <= file'.size
    PROVE  FileTold'
<1>1. At(x)' = c /\ c.size \in Nat
  BY GrownSays, ChunkSays DEF Grown
<1>2. x \in Headers(Entries)' /\ \A y \in Entries' \ Headers(Entries)' : y \in Entries /\ ~Older(x, y)'
  BY GrownSays
<1>3. ASSUME NEW p \in Pages, file'.at[p] # Nowhere
      PROVE  /\ \A y \in Copies(Entries, p)' \ {file'.at[p]} : Older(y, file.at[p])'
             /\ Older(file.at[p], file.at[0])' => p <= At(file.at[0])'.size
             /\ \A g \in Headers(Entries)' :
                    Older(file.at[p], g)' /\ (At(g)'.gone \/ At(g)'.shrink) => ~At(g)'.gone /\ p <= At(g)'.size
  <2> PICK z : z = file'.at[p]
    OBVIOUS
  <2>1. p \in 0..FilePages /\ p # 0
    BY FileIs
  <2>2. z = file.at[p] /\ z # Nowhere /\ file.state \in {"dir", "cut"} /\ p <= file'.size
    BY <1>3
  <2>3. z \in Entries
    BY <2>1, <2>2 DEF FileKept
  <2>4. /\ \A y \in Copies(Entries, p) \ {z} : Older(y, z)
        /\ \A g \in Headers(Entries) :
                    Older(z, g) /\ (At(g).gone \/ At(g).shrink) => ~At(g).gone /\ p <= At(g).size
    BY <2>2 DEF FileTold
  <2>5. ASSUME NEW y \in Copies(Entries, p)', y # z PROVE Older(y, z)'
    <3>1. y \in Copies(Entries, p) /\ y \in Entries
      BY <2>1, GrownEntries, EntryIs
    <3> QED BY <2>3, <2>4, <2>5, <3>1, GrownSays
  <2>6. ASSUME NEW g \in Headers(Entries)', Older(z, g)', At(g)'.gone \/ At(g)'.shrink
        PROVE  ~At(g)'.gone /\ p <= At(g)'.size
    <3>1. CASE g = x
      BY <1>1, <2>2, <3>1
    <3>2. CASE g # x
      <4>1. g \in Headers(Entries) /\ g \in Entries
        BY <3>2, GrownSays, EntryIs
      <4>2. At(g)' = At(g) /\ Older(z, g)
        BY <2>3, <2>6, <4>1, GrownSays
      <4> QED BY <2>4, <2>6, <4>1, <4>2
    <3> QED BY <3>1, <3>2
  <2>7. p <= At(file.at[0])'.size
    BY <1>1, <2>2
  <2> QED BY <2>5, <2>6, <2>7
<1>4. At(file.at[0])'.size = file'.size /\ file'.size <= file'.size
  BY <1>1
<1>5. \A y \in Entries' \ Headers(Entries)' : ~Older(file.at[0], y)'
  BY <1>2
<1> QED BY <1>3, <1>4, <1>5 DEF FileTold

(* And so does a page, which makes the file longer if it is past its end.   *)
LEMMA ToldByData ==
    ASSUME ChipType, FileType, FileKept, FileTold, NEW x, NEW c, Grown(x, c), c.ok,
           NEW p \in Pages, c.page = p,
           file.state \in {"dir", "cut"}, file'.state = file.state,
           file'.at = [file.at EXCEPT ![p] = x],
           \/ file'.size = file.size /\ p <= file.size
           \/ file'.size = p /\ file.size < p
    PROVE  FileTold'
<1> PICK h : h = file.at[0]
  OBVIOUS
<1>1. p \in 0..FilePages /\ p # 0 /\ p \in Nat /\ file.size \in Nat /\ file.size \in 0..FilePages
  BY FileIs
<1>2. /\ file'.at[0] = h /\ file'.at[p] = x
      /\ \A q \in 0..FilePages : q # p => file'.at[q] = file.at[q]
  BY <1>1, FileIs
<1>3. h \in Entries /\ h # Nowhere
  BY FileIs DEF FileKept
<1>4. At(h)' = At(h) /\ At(h).size \in Nat /\ Older(h, x)' /\ ~Older(x, h)'
  BY <1>3, EntryIs, GrownSays, PlaceTyped, ChunkSays
<1>5. /\ At(h).size <= file.size
      /\ At(h).size = file.size \/ (file.at[file.size] # Nowhere /\ Older(h, file.at[file.size]))
      /\ \A y \in Entries \ Headers(Entries) : Older(h, y) => At(y).page <= file.size
  BY DEF FileTold
<1>6. At(h)'.size <= file'.size /\ file.size <= file'.size /\ p <= file'.size /\ file'.size \in Nat
  BY <1>1, <1>4, <1>5
<1>7. x # Nowhere /\ \A y : y \in Headers(Entries)' <=> y \in Headers(Entries)
  BY <1>1, GrownSays DEF Grown
<1>8. At(h)'.size = file'.size \/ (file'.at[file'.size] # Nowhere /\ Older(file.at[0], file.at[file.size])')
  <2>1. CASE file'.size = p
    BY <1>2, <1>4, <1>7, <2>1
  <2>2. CASE file'.size # p
    <3>1. file'.size = file.size /\ file.size # p
      BY <2>2
    <3>2. CASE At(h).size = file.size
      BY <1>4, <3>1, <3>2
    <3>3. CASE file.at[file.size] # Nowhere /\ Older(h, file.at[file.size])
      <4> PICK z : z = file.at[file.size]
        OBVIOUS
      <4>1. z \in Entries /\ Older(h, z)
        BY <1>1, <3>3 DEF FileKept
      <4>2. Older(h, z)'
        BY <1>3, <4>1, GrownSays
      <4>3. z = file'.at[file'.size] /\ z # Nowhere
        BY <1>1, <1>2, <3>1, <3>3
      <4> QED BY <1>2, <4>2, <4>3
    <3> QED BY <1>5, <3>2, <3>3
  <2> QED BY <2>1, <2>2
<1>9. ASSUME NEW y \in Entries' \ Headers(Entries)', Older(h, y)' PROVE At(y)'.page <= file'.size
  <2>1. CASE y = x
    BY <1>6, <2>1, GrownSays
  <2>2. CASE y # x
    <3>1. y \in Entries \ Headers(Entries)
      BY <1>7, <2>2, GrownSays
    <3>2. Older(h, y) /\ At(y)' = At(y) /\ At(y).page \in Nat
      BY <1>3, <1>9, <3>1, EntryIs, GrownSays, PlaceTyped, ChunkSays
    <3> QED BY <1>1, <1>5, <1>6, <3>1, <3>2
  <2> QED BY <2>1, <2>2
<1>10. ASSUME NEW q \in Pages, file'.at[q] # Nowhere
       PROVE  /\ \A y \in Copies(Entries, q)' \ {file'.at[q]} : Older(y, file.at[q])'
              /\ Older(file.at[q], file.at[0])' => q <= At(file.at[0])'.size
              /\ \A g \in Headers(Entries)' :
                    Older(file.at[q], g)' /\ (At(g)'.gone \/ At(g)'.shrink) => ~At(g)'.gone /\ q <= At(g)'.size
  <2> PICK z : z = file'.at[q]
    OBVIOUS
  <2>1. /\ \A y \in Copies(Entries, q)' \ {z} : Older(y, z)'
        /\ Older(z, h)' => q <= At(h)'.size
        /\ \A g \in Headers(Entries)' :
              Older(z, g)' /\ (At(g)'.gone \/ At(g)'.shrink) => ~At(g)'.gone /\ q <= At(g)'.size
    <3>1. CASE q = p
      <4>1. z = x
        BY <1>2, <3>1
      <4>2. \A y \in Copies(Entries, q)' : y \in Entries \/ y = x
        BY EntryIs, GrownEntries
      <4>3. \A g \in Headers(Entries)' : g \in Entries
        BY <1>7, EntryIs
      <4> QED BY <1>4, <4>1, <4>2, <4>3, GrownSays
    <3>2. CASE q # p
      <4>1. z = file.at[q] /\ z # Nowhere /\ z \in Entries
        BY <1>2, <1>10, <3>2, FileIs DEF FileKept
      <4>2. /\ \A y \in Copies(Entries, q) \ {z} : Older(y, z)
            /\ Older(z, h) => q <= At(h).size
            /\ \A g \in Headers(Entries) :
                  Older(z, g) /\ (At(g).gone \/ At(g).shrink) => ~At(g).gone /\ q <= At(g).size
        BY <4>1 DEF FileTold
      <4>3. \A y \in Copies(Entries, q)' : y \in Copies(Entries, q) /\ y \in Entries
        BY <3>2, EntryIs, GrownEntries
      <4>4. \A g \in Headers(Entries)' : g \in Headers(Entries) /\ g \in Entries
        BY <1>7, EntryIs
      <4> QED BY <1>3, <4>1, <4>2, <4>3, <4>4, GrownSays
    <3> QED BY <3>1, <3>2
  <2> QED BY <1>2, <2>1
<1>11. /\ At(file.at[0])'.size <= file'.size
       /\ \A y \in Entries' \ Headers(Entries)' : Older(file.at[0], y)' => At(y)'.page <= file'.size
       /\ At(file.at[0])'.size = file'.size \/ (file'.at[file'.size] # Nowhere /\ Older(file.at[0], file.at[file.size])')
  BY <1>2, <1>6, <1>8, <1>9
<1> QED BY <1>10, <1>11 DEF FileTold

(* Holes go on being cut off, and a new one is by the header before it.     *)
LEMMA HolesGrown ==
    ASSUME ChipType, FileType, HolesCut, NEW x, NEW c, Grown(x, c), c.ok,
           \A p \in Pages :
              file'.at[p] = Nowhere /\ (p <= file'.size \/ file'.hole) =>
                 /\ c.page # p
                 /\ \/ file.state = "dir" /\ file.at[p] = Nowhere /\ (p <= file.size \/ file.hole)
                    \/ c.page = 0 /\ c.shrink /\ ~c.gone /\ c.size < p
    PROVE  HolesCut'
<1> SUFFICES ASSUME NEW p \in Pages, file'.at[p] = Nowhere, p <= file'.size \/ file'.hole,
                    NEW y \in Copies(Entries, p)'
             PROVE  \E h \in Headers(Entries)' :
                       At(h)'.shrink /\ ~At(h)'.gone /\ At(h)'.size < p /\ Older(y, h)'
  BY DEF HolesCut
<1>1. y \in Copies(Entries, p) /\ y \in Entries
  BY GrownEntries, EntryIs
<1>2. CASE c.page = 0 /\ c.shrink /\ ~c.gone /\ c.size < p
  <2>1. x \in Headers(Entries)' /\ At(x)' = c /\ Older(y, x)'
    BY <1>1, <1>2, GrownSays
  <2> QED BY <1>2, <2>1
<1>3. CASE file.state = "dir" /\ file.at[p] = Nowhere /\ (p <= file.size \/ file.hole)
  <2>1. PICK h \in Headers(Entries) : At(h).shrink /\ ~At(h).gone /\ At(h).size < p /\ Older(y, h)
    BY <1>1, <1>3 DEF HolesCut
  <2>2. h \in Entries /\ h \in Headers(Entries)'
    BY EntryIs, GrownSays
  <2> QED BY <1>1, <2>1, <2>2, GrownSays
<1> QED BY <1>2, <1>3

-----------------------------------------------------------------------------
(* What is left when a block is erased says what it said.                   *)
LEMMA ShrunkSays ==
    ASSUME NEW b, Shrunk(b)
    PROVE  /\ \A y \in Entries' : /\ y \in Entries /\ y \in Places'
                                  /\ At(y)' = At(y) /\ Of(y)' = Of(y)
           /\ \A y, z \in Entries' : Older(y, z)' <=> Older(y, z)
           /\ \A y \in Headers(Entries)' : y \in Headers(Entries) /\ y \in Entries'
           /\ \A y \in Headers(Entries) : y \in Places' => y \in Headers(Entries)'
<1>1. \A y \in Entries' : y \in Entries /\ y \in Places'
  BY ShrunkEntries
<1>2. \A y \in Places' : At(y)' = At(y) /\ Of(y)' = Of(y)
  BY DEF Shrunk, Of
<1>3. \A y \in Headers(Entries) : y \in Entries
  BY EntryIs
<1>4. \A y, z \in Entries' : Older(y, z)' <=> Older(y, z)
  BY <1>1 DEF Shrunk
<1> QED BY <1>1, <1>2, <1>3, <1>4, ShrunkEntries

(* A chunk in use is an entry still.                                        *)
LEMMA LiveLeft ==
    ASSUME ChipType, FileType, FileKept, NEW b \in 1..Blocks, Erase(b),
           NEW p \in 0..FilePages, file.at[p] # Nowhere
    PROVE  /\ file'.at[p] = file.at[p] /\ file.at[p] \in Entries /\ file.at[p] \in Places
           /\ file.at[p] \in Live /\ file.at[p] \in Entries'
<1> PICK z : z = file.at[p]
  OBVIOUS
<1>1. z \in Live /\ z \in Entries /\ z \in Places
  BY LiveIs
<1>2. z \in Places'
  BY <1>1, LiveStays
<1>3. z \in Entries'
  BY <1>1, <1>2, EraseShrinks, ShrunkEntries
<1>4. file' = file
  BY DEF Erase
<1> QED BY <1>1, <1>3, <1>4

(* The chunks the driver goes by are not in a block that is erased.         *)
LEMMA EraseKeepsFile ==
    ASSUME ChipType, FileType, FileKept, NEW b \in 1..Blocks, Erase(b)
    PROVE  FileKept' /\ FileType'
<1>1. Shrunk(b) /\ file' = file /\ writes' = writes
  BY EraseShrinks DEF Erase
<1>2. deleted'.lives = deleted.lives /\ deleted' \in [seq : 0..MaxSeq, lives : Seq(Dead)]
  <2> HIDE DEF Dead
  <2>1. deleted' = [deleted EXCEPT !.seq = LastSeq] /\ LastSeq \in 0..MaxSeq
    BY LastSeqIs DEF Erase
  <2> QED BY <2>1 DEF FileType
<1>3. FileType'
  BY <1>1, <1>2 DEF FileType, File, Dead, Contents
<1>4. ASSUME NEW p \in 0..FilePages, file.at[p] # Nowhere
      PROVE  file.at[p] \in Entries' /\ At(file.at[p])' = At(file.at[p]) /\ Of(file.at[p])' = Of(file.at[p])
  <2> PICK z : z = file.at[p] /\ z = file'.at[p]
    BY <1>1
  <2>1. z \in Entries'
    BY <1>4, LiveLeft
  <2>2. At(z)' = At(z) /\ Of(z)' = Of(z)
    BY <1>1, <2>1, ShrunkSays
  <2> QED BY <2>1, <2>2
<1>5. file.state # "none" => file.at[0] # Nowhere /\ 0 \in 0..FilePages
  BY FileIs DEF FileKept
<1>6. file.state # "none" =>
          /\ file.at[0] # Nowhere /\ file.life > 0
          /\ \A h \in Headers(Entries)' \ {file.at[0]} : Older(h, file.at[0])'
  <2> SUFFICES ASSUME file.state # "none", NEW h \in Headers(Entries)', h # file.at[0]
               PROVE  Older(h, file.at[0])'
    BY <1>5 DEF FileKept
  <2> PICK z : z = file.at[0] /\ z = file'.at[0]
    BY <1>1
  <2>1. z \in Entries' /\ h \in Headers(Entries) /\ h \in Entries'
    BY <1>1, <1>4, <1>5, ShrunkSays
  <2>2. Older(h, z)
    BY <2>1 DEF FileKept
  <2>3. Older(h, z)'
    BY <1>1, <2>1, <2>2, ShrunkSays
  <2> QED BY <2>3
<1>7. file.state = "cut" => \A x \in Entries' \ {file.at[0]} : Older(x, file.at[0])'
  <2> SUFFICES ASSUME file.state = "cut", NEW x \in Entries', x # file.at[0]
               PROVE  Older(x, file.at[0])'
    OBVIOUS
  <2> PICK z : z = file.at[0] /\ z = file'.at[0]
    BY <1>1
  <2>1. z \in Entries' /\ x \in Entries
    BY <1>1, <1>4, <1>5, ShrunkSays
  <2>2. Older(x, z)
    BY <2>1 DEF FileKept
  <2>3. Older(x, z)'
    BY <1>1, <2>1, <2>2, ShrunkSays
  <2> QED BY <2>3
<1>8. FileKept'
  BY <1>1, <1>2, <1>4, <1>5, <1>6, <1>7 DEF FileKept
<1> QED BY <1>3, <1>8

(* The lives that are left on the flash are in the order they were in.      *)
LEMMA EraseKeepsLives ==
    ASSUME ChipType, FileType, LivesInOrder, NEW b \in 1..Blocks, Erase(b)
    PROVE  LivesInOrder'
<1>1. Shrunk(b) /\ file' = file
  BY EraseShrinks DEF Erase
<1> QED BY <1>1, ShrunkSays DEF LivesInOrder

(* The header that ended a life goes after everything older of the life.    *)
LEMMA EraseKeepsEnds ==
    ASSUME ChipType, FileType, FileKept, LivesInOrder, EndsKept, NEW b \in 1..Blocks, Erase(b)
    PROVE  EndsKept'
<1>1. Shrunk(b) /\ file' = file
  BY EraseShrinks DEF Erase
<1> SUFFICES ASSUME NEW y \in Entries', Of(y)' < file.life \/ file.state = "none"
             PROVE  \E d \in Headers(Entries)' :
                       /\ At(d)'.gone /\ At(d)'.shrink /\ At(d)'.size = 0 /\ Of(d)' = Of(y)'
                       /\ y = d \/ Older(y, d)'
  BY <1>1 DEF EndsKept
<1>2. y \in Entries /\ Of(y)' = Of(y) /\ y \in Places'
  BY <1>1, ShrunkSays
<1>3. PICK d \in Headers(Entries) :
            /\ At(d).gone /\ At(d).shrink /\ At(d).size = 0 /\ Of(d) = Of(y)
            /\ y = d \/ Older(y, d)
  BY <1>2 DEF EndsKept
<1>4. y \notin Live
  <2>1. SUFFICES ASSUME y \in Live PROVE FALSE
    OBVIOUS
  <2>2. file.state # "none" /\ Of(y) = file.life /\ file.life \in Nat
    BY <2>1, LiveIs, FileIs
  <2> QED BY <1>2, <2>2
<1>5. d \in Places'
  <2>1. d \in Places
    BY EntryIs
  <2>2. CASE y = d
    BY <1>2, <2>2
  <2>3. CASE Older(y, d)
    BY <1>2, <1>3, <1>4, <2>1, <2>3, ShrinkerStays
  <2> QED BY <1>3, <2>2, <2>3
<1>6. d \in Headers(Entries)' /\ d \in Entries'
  BY <1>1, <1>5, ShrunkSays
<1> QED BY <1>1, <1>2, <1>3, <1>6, ShrunkSays

(* The header that cut off a hole goes after everything it cut off.         *)
LEMMA EraseKeepsHoles ==
    ASSUME ChipType, FileType, FileKept, HolesCut, NEW b \in 1..Blocks, Erase(b)
    PROVE  HolesCut'
<1>1. Shrunk(b) /\ file' = file
  BY EraseShrinks DEF Erase
<1> SUFFICES ASSUME file.state = "dir", NEW p \in Pages, file.at[p] = Nowhere, p <= file.size \/ file.hole,
                    NEW y \in Copies(Entries, p)'
             PROVE  \E h \in Headers(Entries)' :
                       At(h)'.shrink /\ ~At(h)'.gone /\ At(h)'.size < p /\ Older(y, h)'
  BY <1>1 DEF HolesCut
<1>2. y \in Copies(Entries, p) /\ y \in Entries /\ y \in Places' /\ y \in Entries' /\ At(y).page = p
  <2>1. y \in Copies(Entries, p) /\ y \in Places'
    BY <1>1, ShrunkEntries
  <2>2. y \in Entries /\ At(y).page = p
    BY <2>1 DEF Copies
  <2> QED BY <1>1, <2>1, <2>2, ShrunkEntries
<1>3. PICK h \in Headers(Entries) : At(h).shrink /\ ~At(h).gone /\ At(h).size < p /\ Older(y, h)
  BY <1>2 DEF HolesCut
<1>4. y \notin Live
  BY <1>2, LiveIs
<1>5. h \in Places'
  <2>1. h \in Places
    BY EntryIs
  <2> QED BY <1>2, <1>3, <1>4, <2>1, ShrinkerStays
<1>6. h \in Headers(Entries)' /\ h \in Entries'
  BY <1>1, <1>5, ShrunkSays
<1> QED BY <1>1, <1>2, <1>3, <1>6, ShrunkSays

(* What the driver holds goes on being told by the chunks it goes by.       *)
LEMMA EraseKeepsTold ==
    ASSUME ChipType, FileType, FileKept, FileTold, NEW b \in 1..Blocks, Erase(b)
    PROVE  FileTold'
<1>1. Shrunk(b) /\ file' = file
  BY EraseShrinks DEF Erase
<1> SUFFICES ASSUME file.state \in {"dir", "cut"} PROVE FileTold'
  BY <1>1 DEF FileTold
<1> PICK h : h = file.at[0] /\ h = file'.at[0]
  BY <1>1
<1>2. h \in Entries' /\ At(h)' = At(h)
  <2>1. 0 \in 0..FilePages /\ h # Nowhere
    BY FileIs DEF FileKept
  <2>2. h \in Entries'
    BY <2>1, LiveLeft
  <2> QED BY <1>1, <2>2, ShrunkSays
<1>3. /\ At(h).size <= file.size
      /\ At(h).size = file.size \/ (file.at[file.size] # Nowhere /\ Older(h, file.at[file.size]))
      /\ \A y \in Entries \ Headers(Entries) : Older(h, y) => At(y).page <= file.size
  BY DEF FileTold
<1>4. At(h)'.size = file.size \/ (file.at[file.size] # Nowhere /\ Older(file.at[0], file.at[file.size])')
  <2>1. CASE At(h).size = file.size
    BY <1>2, <2>1
  <2>2. CASE file.at[file.size] # Nowhere /\ Older(h, file.at[file.size])
    <3> PICK z : z = file.at[file.size] /\ z = file'.at[file'.size]
      BY <1>1
    <3>1. file.size \in 0..FilePages
      BY FileIs
    <3>2. z \in Entries'
      BY <2>2, <3>1, LiveLeft
    <3>3. Older(h, z)'
      BY <1>1, <1>2, <2>2, <3>2, ShrunkSays
    <3> QED BY <2>2, <3>3
  <2> QED BY <1>3, <2>1, <2>2
<1>5. ASSUME NEW y \in Entries' \ Headers(Entries)', Older(h, y)' PROVE At(y)'.page <= file.size
  <2>1. y \in Entries \ Headers(Entries) /\ At(y)' = At(y) /\ Older(h, y)
    BY <1>1, <1>2, <1>5, ShrunkSays
  <2> QED BY <1>3, <2>1
<1>6. ASSUME NEW q \in Pages, file.at[q] # Nowhere
      PROVE  /\ \A y \in Copies(Entries, q)' \ {file.at[q]} : Older(y, file.at[q])'
             /\ Older(file.at[q], file.at[0])' => q <= At(h)'.size
             /\ \A g \in Headers(Entries)' :
                    Older(file.at[q], g)' /\ (At(g)'.gone \/ At(g)'.shrink) => ~At(g)'.gone /\ q <= At(g)'.size
  <2> PICK z : z = file.at[q] /\ z = file'.at[q]
    BY <1>1
  <2>1. q \in 0..FilePages
    BY FileIs
  <2>2. z \in Entries'
    BY <1>6, <2>1, LiveLeft
  <2>3. /\ \A y \in Copies(Entries, q) \ {z} : Older(y, z)
        /\ Older(z, h) => q <= At(h).size
        /\ \A g \in Headers(Entries) :
              Older(z, g) /\ (At(g).gone \/ At(g).shrink) => ~At(g).gone /\ q <= At(g).size
    BY <1>6 DEF FileTold
  <2>4. \A y \in Copies(Entries, q)' : y \in Copies(Entries, q) /\ y \in Entries'
    BY <1>1, EntryIs, ShrunkEntries
  <2>5. \A y \in Copies(Entries, q)' \ {z} : Older(y, z)'
    BY <1>1, <2>2, <2>3, <2>4, ShrunkSays
  <2>6. Older(z, h)' => q <= At(h)'.size
    BY <1>1, <1>2, <2>2, <2>3, ShrunkSays
  <2>7. \A g \in Headers(Entries)' :
            Older(z, g)' /\ (At(g)'.gone \/ At(g)'.shrink) => ~At(g)'.gone /\ q <= At(g)'.size
    BY <1>1, <2>2, <2>3, ShrunkSays
  <2> QED BY <2>5, <2>6, <2>7
<1>7. At(h)'.size <= file.size
  BY <1>2, <1>3
<1> QED BY <1>1, <1>4, <1>5, <1>6, <1>7 DEF FileTold

-----------------------------------------------------------------------------
(* What tells what a file holds or held.                                    *)

(* What the driver holds is a content.                                      *)
LEMMA HeldTyped ==
    ASSUME ChipType, FileType, FileKept
    PROVE  /\ Held \in Contents /\ Held.size = file.size
           /\ \A p \in Pages : Held.pages[p] = IF file.at[p] = Nowhere THEN Zeros ELSE At(file.at[p]).val
           /\ \A p \in Pages : Held.pages[p] # Zeros <=> file.at[p] # Nowhere
<1>1. ASSUME NEW p \in Pages, file.at[p] # Nowhere
      PROVE  At(file.at[p]).val \in (0..MaxLives) \X (0..MaxWrites) /\ At(file.at[p]).val # Zeros
  <2>1. p \in 0..FilePages
    BY FileIs
  <2>2. file.at[p] \in Places
    BY <1>1, <2>1, EntryIs DEF FileKept
  <2> QED BY <2>2, PlaceTyped, ChunkSays
<1>2. Zeros \in (0..MaxLives) \X (0..MaxWrites)
  BY FlashBounds DEF Zeros
<1>3. file.size \in 0..FilePages
  BY FileIs
<1> DEFINE f == [p \in Pages |-> IF file.at[p] = Nowhere THEN Zeros ELSE At(file.at[p]).val]
<1>4. f \in [Pages -> (0..MaxLives) \X (0..MaxWrites)]
  BY <1>1, <1>2
<1>5. Held = [size |-> file.size, pages |-> f]
  BY DEF Held
<1>6. \A p \in Pages : f[p] = IF file.at[p] = Nowhere THEN Zeros ELSE At(file.at[p]).val
  OBVIOUS
<1> HIDE DEF f
<1>7. Held.size = file.size /\ Held.pages = f /\ Held \in Contents
  BY <1>3, <1>4, <1>5 DEF Contents
<1> QED BY <1>1, <1>6, <1>7

(* The chunks it goes by tell it, of all there are.                         *)
LEMMA TellsNow ==
    ASSUME ChipType, FileType, FileKept, FileTold, file.state \in {"dir", "cut"}
    PROVE  Tells(Entries, Live, file.at[0], Held)
<1> PICK h : h = file.at[0]
  OBVIOUS
<1>1. 0 \in 0..FilePages /\ h # Nowhere /\ file.size \in 0..FilePages /\ file.size \in Nat
  BY FileIs DEF FileKept
<1>2. h \in Live /\ h \in Entries /\ At(h).page = 0
  BY <1>1, LiveIs DEF FileKept
<1>3. Live \subseteq Entries
  BY LiveIs
<1>4. h \in Headers(Entries) /\ \A g \in Headers(Entries) \ {h} : Older(g, h)
  BY <1>2 DEF FileKept, Headers
<1>5. /\ ~At(h).gone /\ At(h).size <= Held.size
      /\ \A y \in Entries \ Headers(Entries) : Older(h, y) => At(y).page <= Held.size
  BY HeldTyped DEF FileKept, FileTold
<1>6. At(h).size = Held.size \/ \E x \in Live : At(x).page = Held.size /\ Older(h, x)
  <2>1. CASE file.at[file.size] # Nowhere /\ Older(h, file.at[file.size])
    <3>1. file.at[file.size] \in Live /\ At(file.at[file.size]).page = file.size
      BY <1>1, <2>1, LiveIs DEF FileKept
    <3> QED BY <2>1, <3>1, HeldTyped
  <2> QED BY <2>1, HeldTyped DEF FileTold
<1>7. ASSUME NEW p \in Pages, Held.pages[p] # Zeros
      PROVE  /\ p <= Held.size
             /\ \E x \in Live :
                   /\ At(x).page = p /\ At(x).val = Held.pages[p]
                   /\ \A y \in Copies(Entries, p) \ {x} : Older(y, x)
                   /\ Older(x, h) => p <= At(h).size
                   /\ \A g \in Headers(Entries) :
                         Older(x, g) /\ (At(g).gone \/ At(g).shrink) => ~At(g).gone /\ p <= At(g).size
  <2> PICK x : x = file.at[p]
    OBVIOUS
  <2>1. p \in 0..FilePages /\ p # 0 /\ p \in Nat /\ x # Nowhere /\ Held.pages[p] = At(x).val
    BY <1>7, HeldTyped, FileIs
  <2>2. x \in Live /\ At(x).page = p /\ ~(p > file.size)
    BY <2>1, LiveIs DEF FileKept
  <2>3. /\ \A y \in Copies(Entries, p) \ {x} : Older(y, x)
        /\ Older(x, h) => p <= At(h).size
        /\ \A g \in Headers(Entries) :
              Older(x, g) /\ (At(g).gone \/ At(g).shrink) => ~At(g).gone /\ p <= At(g).size
    BY <2>1 DEF FileTold
  <2>4. p <= Held.size
    BY <1>1, <2>1, <2>2, HeldTyped
  <2> QED BY <2>1, <2>2, <2>3, <2>4
<1> QED BY <1>2, <1>3, <1>4, <1>5, <1>6, <1>7 DEF Tells

(* What a step leaves alone of the chunks there were.                       *)
Alike ==
    /\ \A y \in Places \cap Places' : At(y)' = At(y) /\ Mark(y)' = Mark(y)
    /\ \A y, z \in Places \cap Places' : Older(y, z)' <=> Older(y, z)

(* A chunk that is put and a block that is erased leave the others alone.   *)
LEMMA AlikeIs ==
    /\ \A x, c : Grown(x, c) => Alike
    /\ \A b : Shrunk(b) => Alike
<1>1. ASSUME NEW x, NEW c, Grown(x, c) PROVE Alike
  BY <1>1 DEF Grown, Alike
<1>2. ASSUME NEW b, Shrunk(b) PROVE Alike
  BY <1>2 DEF Shrunk, Alike
<1> QED BY <1>1, <1>2

(* Chunks tell what they told when others go.                               *)
LEMMA TellsStays ==
    ASSUME Alike, NEW S, S \subseteq Places, NEW S2, S2 \subseteq S, S2 \subseteq Places',
           NEW K, K \subseteq S2, NEW h, NEW held, Tells(S, K, h, held)
    PROVE  Tells(S2, K, h, held)'
<1>1. \A y \in S2 : y \in S /\ At(y)' = At(y)
  BY DEF Alike
<1>2. \A y, z \in S2 : Older(y, z)' <=> Older(y, z)
  BY DEF Alike
<1>3. \A y : y \in Headers(S2)' <=> y \in S2 /\ y \in Headers(S)
  BY <1>1 DEF Headers
<1>4. \A p : \A y \in Copies(S2, p)' : y \in S2 /\ y \in Copies(S, p)
  BY <1>1 DEF Copies
<1>5. /\ K \subseteq S2 /\ h \in K
      /\ h \in Headers(S) /\ \A g \in Headers(S) \ {h} : Older(g, h)
      /\ ~At(h).gone /\ At(h).size <= held.size
      /\ At(h).size = held.size \/ \E x \in K : At(x).page = held.size /\ Older(h, x)
      /\ \A y \in S \ Headers(S) : Older(h, y) => At(y).page <= held.size
  BY DEF Tells
<1>6. /\ h \in Headers(S2)' /\ \A g \in Headers(S2)' \ {h} : Older(g, h)'
      /\ ~At(h)'.gone /\ At(h)'.size <= held.size
  BY <1>1, <1>2, <1>3, <1>5
<1>7. At(h)'.size = held.size \/ \E x \in K : At(x)'.page = held.size /\ Older(h, x)'
  BY <1>1, <1>2, <1>5
<1>8. \A y \in S2 \ Headers(S2)' : Older(h, y)' => At(y)'.page <= held.size
  BY <1>1, <1>2, <1>3, <1>5
<1>9. ASSUME NEW p \in Pages, held.pages[p] # Zeros
      PROVE  /\ p <= held.size
             /\ \E x \in K :
                   /\ At(x)'.page = p /\ At(x)'.val = held.pages[p]
                   /\ \A y \in Copies(S2, p)' \ {x} : Older(y, x)'
                   /\ Older(x, h)' => p <= At(h)'.size
                   /\ \A g \in Headers(S2)' :
                         Older(x, g)' /\ (At(g)'.gone \/ At(g)'.shrink) => ~At(g)'.gone /\ p <= At(g)'.size
  <2>1. p <= held.size
    BY <1>9 DEF Tells
  <2>2. PICK x \in K :
                   /\ At(x).page = p /\ At(x).val = held.pages[p]
                   /\ \A y \in Copies(S, p) \ {x} : Older(y, x)
                   /\ Older(x, h) => p <= At(h).size
                   /\ \A g \in Headers(S) :
                         Older(x, g) /\ (At(g).gone \/ At(g).shrink) => ~At(g).gone /\ p <= At(g).size
    BY <1>9 DEF Tells
  <2>3. x \in S2 /\ h \in S2
    BY <1>5
  <2>4. \A y \in Copies(S2, p)' \ {x} : Older(y, x)'
    BY <1>2, <1>4, <2>2, <2>3
  <2>5. Older(x, h)' => p <= At(h)'.size
    BY <1>1, <1>2, <2>2, <2>3
  <2>6. \A g \in Headers(S2)' :
            Older(x, g)' /\ (At(g)'.gone \/ At(g)'.shrink) => ~At(g)'.gone /\ p <= At(g)'.size
    BY <1>1, <1>2, <1>3, <2>2, <2>3
  <2>7. At(x)'.page = p /\ At(x)'.val = held.pages[p]
    BY <1>1, <2>2, <2>3
  <2> QED BY <2>1, <2>4, <2>5, <2>6, <2>7
<1> QED BY <1>5, <1>6, <1>7, <1>8, <1>9 DEF Tells, Pages

(* A dead file's chunks tell it when others go from before its end.         *)
LEMMA ToldStays ==
    ASSUME Alike, NEW E, NEW E2, NEW K, NEW held, ToldUpTo(E, K, held),
           Before(Entries, E2)' \subseteq Before(Entries, E),
           K \cap Before(Entries, E) \subseteq Before(Entries, E2)'
    PROVE  ToldUpTo(E2, K, held)'
<1>1. PICK h \in K : Tells(Before(Entries, E), K, h, held) /\ At(h).size > 0
  BY DEF ToldUpTo
<1> PICK S : S = Before(Entries, E)
  OBVIOUS
<1> PICK S2 : S2 = Before(Entries, E2)'
  OBVIOUS
<1>2. S \subseteq Places /\ S2 \subseteq S /\ S2 \subseteq Places'
  <2>1. S \subseteq Entries /\ Entries \subseteq Places
    BY EntryIs
  <2>2. S2 \subseteq Places'
    BY DEF Before, Entries
  <2> QED BY <2>1, <2>2
<1>3. Tells(S, K, h, held) /\ K \subseteq S
  BY <1>1 DEF Tells
<1>4. K \subseteq S2
  BY <1>3
<1>5. Tells(S2, K, h, held)'
  BY <1>2, <1>3, <1>4, TellsStays
<1>6. At(h)' = At(h)
  BY <1>2, <1>4 DEF Alike
<1>7. Tells(Before(Entries, E2), K, h, held)'
  BY <1>5 DEF Tells
<1> QED BY <1>1, <1>6, <1>7 DEF ToldUpTo

-----------------------------------------------------------------------------
(* What deleted files held goes on being told.                              *)

(* The chunks a name is of are the same when a chunk is put, since the name *)
(* of that one is new.                                                      *)
LEMMA ThemGrown ==
    ASSUME NEW x, NEW c, Grown(x, c), NEW at, at \subseteq Nat \X Nat, \A m \in at : Past(m)
    PROVE  /\ \A m \in at : Past(m)'
           /\ Them(at)' = Them(at)
           /\ at \subseteq Marks' => at \subseteq Marks
<1>1. /\ Places' = Places \cup {x}
      /\ \A y \in Places : Mark(y)' = Mark(y)
      /\ \A m \in at : Past(m)' /\ m # Mark(x)'
  BY DEF Grown
<1>2. Them(at)' = Them(at)
  BY <1>1 DEF Them
<1>3. at \subseteq Marks' => at \subseteq Marks
  BY <1>1 DEF Marks
<1> QED BY <1>1, <1>2, <1>3

(* When a block is erased and names are there still, so were they before.   *)
LEMMA ThemShrunk ==
    ASSUME ChipType, NEW b, Shrunk(b), NEW at, at \subseteq Marks'
    PROVE  at \subseteq Marks /\ Them(at)' = Them(at)
<1>1. Places' \subseteq Places /\ \A y \in Places' : Mark(y)' = Mark(y)
  BY DEF Shrunk
<1>2. \A m \in at : \E z \in Places' : m = Mark(z)
  BY <1>1 DEF Marks
<1>3. at \subseteq Marks
  BY <1>1, <1>2 DEF Marks
<1>4. ASSUME NEW y \in Places, Mark(y) \in at PROVE y \in Places'
  <2>1. PICK z \in Places' : Mark(y) = Mark(z)
    BY <1>2, <1>4
  <2>2. z = y
    BY <1>1, <2>1, MarkIs
  <2> QED BY <2>2
<1>5. Them(at)' = Them(at)
  BY <1>1, <1>4 DEF Them
<1> QED BY <1>3, <1>5

(* What is known of a dead file is of its type.                             *)
LEMMA DeadIsTyped ==
    ASSUME FileType, NEW l \in 1..Len(deleted.lives)
    PROVE  /\ deleted.lives[l] \in Dead /\ deleted.lives[l].at \subseteq Nat \X Nat
           /\ deleted.lives[l].held \in Contents /\ deleted.lives[l].told \in BOOLEAN
<1>1. deleted.lives[l] \in Dead
  <2>1. deleted.lives \in Seq(Dead)
    <3> HIDE DEF Dead
    <3> QED BY DEF FileType
  <2> HIDE DEF Dead
  <2> QED BY <2>1, ElementOfSeq
<1> PICK d : d = deleted.lives[l]
  OBVIOUS
<1>2. d.at \subseteq Nat \X Nat /\ d.held \in Contents /\ d.told \in BOOLEAN
  <2> HIDE DEF Contents
  <2> QED BY <1>1 DEF Dead
<1> QED BY <1>1, <1>2

(* A deleted file is told when chunks are put.                              *)
LEMMA DeadGrown ==
    ASSUME ChipType, NEW x, NEW c, Grown(x, c),
           NEW d, d.at \subseteq Nat \X Nat, DeadIs(d, FALSE)
    PROVE  DeadIs(d, FALSE)'
<1>1. \A m \in d.at : Past(m)
  BY DEF DeadIs
<1>2. /\ \A m \in d.at : Past(m)'
      /\ Them(d.at)' = Them(d.at)
      /\ d.at \subseteq Marks' => d.at \subseteq Marks
  BY <1>1, ThemGrown
<1> SUFFICES ASSUME d.told, d.at \subseteq Marks', NoHole(d.held)
             PROVE  \E D, E \in Places' : (Ended(D, E) /\ ToldUpTo(E, Them(d.at), d.held))'
  BY <1>2 DEF DeadIs, NoHole
<1>3. PICK D, E \in Places : Ended(D, E) /\ ToldUpTo(E, Them(d.at), d.held)
  BY <1>2 DEF DeadIs
<1>4. D \in Places' /\ E \in Places'
  BY DEF Grown
<1>5. D \in Entries /\ E \in Entries
  BY <1>3, EntryIs DEF Ended
<1>6. Ended(D, E)'
  <2>1. D \in Headers(Entries)' /\ E \in Headers(Entries)' /\ At(D)' = At(D) /\ At(E)' = At(E)
    BY <1>3, <1>5, GrownSays DEF Ended
  <2>2. Older(E, D)' <=> Older(E, D)
    BY <1>5, GrownSays
  <2>3. ASSUME \A y \in Entries : ~(Older(E, y) /\ Older(y, D)), NEW y \in Entries'
        PROVE  ~(Older(E, y)' /\ Older(y, D)')
    <3>1. CASE y \in Entries
      BY <1>5, <2>3, <3>1, GrownSays
    <3>2. CASE y = x
      BY <1>5, <3>2, GrownSays
    <3> QED BY <3>1, <3>2, GrownSays
  <2> QED BY <1>3, <2>1, <2>2, <2>3 DEF Ended
<1>7. Before(Entries, E)' = Before(Entries, E)
  <2>1. \A y : y \in Before(Entries, E)' <=> y \in Before(Entries, E)
    BY <1>5, GrownSays DEF Before
  <2> QED BY <2>1
<1>8. ToldUpTo(E, Them(d.at), d.held)'
  <2> PICK K : K = Them(d.at)
    OBVIOUS
  <2>1. ToldUpTo(E, K, d.held)
    BY <1>3
  <2>2. Alike
    BY AlikeIs
  <2>3. ToldUpTo(E, K, d.held)'
    BY <1>7, <2>1, <2>2, ToldStays
  <2> QED BY <1>2, <2>3
<1> QED BY <1>4, <1>6, <1>8

(* The file being deleted is told while the header that cut it is its last. *)
LEMMA DeadCutGrown ==
    ASSUME ChipType, FileType, FileKept, NEW x, NEW c, Grown(x, c), file'.at[0] = file.at[0],
           file.state = "cut",
           NEW d, d.at \subseteq Nat \X Nat, DeadIs(d, TRUE)
    PROVE  DeadIs(d, TRUE)'
<1>1. \A m \in d.at : Past(m)
  BY DEF DeadIs
<1>2. /\ \A m \in d.at : Past(m)'
      /\ Them(d.at)' = Them(d.at)
      /\ d.at \subseteq Marks' => d.at \subseteq Marks
  BY <1>1, ThemGrown
<1> PICK E : E = file.at[0]
  OBVIOUS
<1> SUFFICES ASSUME d.told, d.at \subseteq Marks', NoHole(d.held)
             PROVE  ToldUpTo(file.at[0], Them(d.at), d.held)'
  BY <1>2 DEF DeadIs, NoHole
<1>5. E \in Entries
  BY FileIs DEF FileKept
<1>7. Before(Entries, E)' = Before(Entries, E)
  <2>1. \A y : y \in Before(Entries, E)' <=> y \in Before(Entries, E)
    BY <1>5, GrownSays DEF Before
  <2> QED BY <2>1
<1>8. ToldUpTo(E, Them(d.at), d.held)'
  <2> PICK K : K = Them(d.at)
    OBVIOUS
  <2>1. ToldUpTo(E, K, d.held)
    BY <1>2 DEF DeadIs
  <2>2. Alike
    BY AlikeIs
  <2>3. ToldUpTo(E, K, d.held)'
    BY <1>7, <2>1, <2>2, ToldStays
  <2> QED BY <1>2, <2>3
<1> QED BY <1>8

(* And when the header that files it as deleted is put after that one.      *)
LEMMA DeadCutEnds ==
    ASSUME ChipType, FileType, FileKept, NEW x, NEW c, Grown(x, c),
           c.ok, c.page = 0, c.gone, c.shrink, file.state = "cut",
           NEW d, d.at \subseteq Nat \X Nat, DeadIs(d, TRUE)
    PROVE  DeadIs(d, FALSE)'
<1>1. \A m \in d.at : Past(m)
  BY DEF DeadIs
<1>2. /\ \A m \in d.at : Past(m)'
      /\ Them(d.at)' = Them(d.at)
      /\ d.at \subseteq Marks' => d.at \subseteq Marks
  BY <1>1, ThemGrown
<1> PICK E : E = file.at[0]
  OBVIOUS
<1> SUFFICES ASSUME d.told, d.at \subseteq Marks', NoHole(d.held)
             PROVE  \E D, F \in Places' : (Ended(D, F) /\ ToldUpTo(F, Them(d.at), d.held))'
  BY <1>2 DEF DeadIs, NoHole
<1>3. /\ E \in Entries /\ At(E).page = 0 /\ ~At(E).gone /\ At(E).size = 0 /\ ~At(E).shrink
      /\ \A y \in Entries \ {E} : Older(y, E)
  BY FileIs DEF FileKept
<1>4. E \in Headers(Entries)
  BY <1>3 DEF Headers
<1>5. x \in Places' /\ E \in Places'
  BY <1>3, EntryIs DEF Grown
<1>6. Ended(x, E)'
  <2>1. x \in Headers(Entries)' /\ At(x)' = c /\ E \in Headers(Entries)' /\ At(E)' = At(E) /\ Older(E, x)'
    BY <1>3, <1>4, GrownSays
  <2>2. ASSUME NEW y \in Entries' PROVE ~(Older(E, y)' /\ Older(y, x)')
    <3>1. CASE y \in Entries
      <4>1. ~Older(E, y)
        BY <1>3, <3>1, EntryIs, OrderIs DEF Ordered
      <4> QED BY <1>3, <3>1, <4>1, GrownSays
    <3>2. CASE y = x
      BY <3>2, GrownSays
    <3> QED BY <3>1, <3>2, GrownSays
  <2> QED BY <1>3, <2>1, <2>2 DEF Ended
<1>7. Before(Entries, E)' = Before(Entries, E)
  <2>1. \A y : y \in Before(Entries, E)' <=> y \in Before(Entries, E)
    BY <1>3, GrownSays DEF Before
  <2> QED BY <2>1
<1>8. ToldUpTo(E, Them(d.at), d.held)'
  <2> PICK K : K = Them(d.at)
    OBVIOUS
  <2>1. ToldUpTo(E, K, d.held)
    BY <1>2 DEF DeadIs
  <2>2. Alike
    BY AlikeIs
  <2>3. ToldUpTo(E, K, d.held)'
    BY <1>7, <2>1, <2>2, ToldStays
  <2> QED BY <1>2, <2>3
<1> QED BY <1>5, <1>6, <1>8

(* Nothing that ends a told life is erased as long as its chunks are all    *)
(* there, or its end is taken to be the header after.                       *)
LEMMA DeadShrunk ==
    ASSUME ChipType, FileType, FileKept, NEW b \in 1..Blocks, Erase(b),
           NEW d, DeadIs(d, FALSE), d.at \subseteq Nat \X Nat
    PROVE  DeadIs(d, FALSE)'
<1>1. Shrunk(b) /\ file' = file
  BY EraseShrinks DEF Erase
<1>2. \A m \in d.at : Past(m)'
  <2>1. \A m \in d.at : Past(m)
    BY DEF DeadIs
  <2> QED BY <1>1, <2>1 DEF Shrunk
<1> SUFFICES ASSUME d.told, d.at \subseteq Marks', NoHole(d.held)
             PROVE  \E D, E \in Places' : (Ended(D, E) /\ ToldUpTo(E, Them(d.at), d.held))'
  BY <1>2 DEF DeadIs, NoHole
<1> PICK K : K = Them(d.at)
  OBVIOUS
<1>3. d.at \subseteq Marks /\ Them(d.at)' = K /\ K \subseteq Places'
  <2>1. d.at \subseteq Marks /\ Them(d.at)' = K
    BY <1>1, ThemShrunk
  <2>2. Them(d.at)' \subseteq Places'
    BY DEF Them
  <2> QED BY <2>1, <2>2
<1>4. PICK D, E \in Places : Ended(D, E) /\ ToldUpTo(E, K, d.held)
  BY <1>3 DEF DeadIs
<1>5. /\ D \in Headers(Entries) /\ E \in Headers(Entries) /\ D \in Entries /\ E \in Entries
      /\ At(D).shrink /\ At(D).gone
      /\ E = D \/ Older(E, D)
      /\ \A y \in Entries : ~(Older(E, y) /\ Older(y, D)) \/ E = D
  BY <1>4, EntryIs DEF Ended
<1>6. PICK h \in K : Tells(Before(Entries, E), K, h, d.held)
  BY <1>4 DEF ToldUpTo
<1>7. h \in Before(Entries, E) /\ h \in Entries /\ Older(h, E) /\ At(h).page = 0 /\ h \in Places'
  BY <1>3, <1>6 DEF Tells, Before, Headers
<1>8. Older(h, D)
  BY <1>4, <1>5, <1>7, EntryIs, OrderIs DEF Ordered
<1>9. h \notin Live
  <2>1. SUFFICES ASSUME h \in Live PROVE FALSE
    OBVIOUS
  <2>2. h = file.at[0] /\ file.state # "none"
    BY <1>7, <2>1, LiveIs
  <2>3. D # h
    BY <1>4, <1>8, OrderIs DEF Ordered
  <2>4. Older(D, h)
    BY <1>5, <2>2, <2>3 DEF FileKept
  <2> QED BY <1>4, <1>7, <1>8, <2>4, EntryIs, OrderIs DEF Ordered
<1>10. D \in Places'
  BY <1>4, <1>5, <1>7, <1>8, <1>9, ShrinkerStays
<1>11. D \in Headers(Entries)' /\ D \in Entries' /\ At(D)' = At(D)
  BY <1>1, <1>5, <1>10, ShrunkSays
<1>12. Alike
  BY <1>1, AlikeIs
<1>13. CASE E \in Places'
  <2>1. E \in Headers(Entries)' /\ E \in Entries' /\ At(E)' = At(E)
    BY <1>1, <1>5, <1>13, ShrunkSays
  <2>2. Ended(D, E)'
    BY <1>1, <1>4, <1>11, <2>1, ShrunkSays DEF Ended
  <2>3. Before(Entries, E)' \subseteq Before(Entries, E)
    BY <1>1, <2>1, ShrunkSays DEF Before
  <2>4. K \cap Before(Entries, E) \subseteq Before(Entries, E)'
    <3>1. \A y \in K \cap Before(Entries, E) : y \in Entries /\ y \in Places' /\ Older(y, E)
      BY <1>3 DEF Before
    <3>2. \A y \in K \cap Before(Entries, E) : y \in Entries'
      BY <1>1, <3>1, ShrunkEntries
    <3> QED BY <1>1, <2>1, <3>1, <3>2, ShrunkSays DEF Before
  <2>5. ToldUpTo(E, K, d.held)'
    BY <1>4, <1>12, <2>3, <2>4, ToldStays
  <2> QED BY <1>3, <1>10, <1>13, <2>2, <2>5
<1>14. CASE E \notin Places'
  <2>1. Ended(D, D)'
    BY <1>5, <1>11 DEF Ended
  <2>2. Before(Entries, D)' \subseteq Before(Entries, E)
    <3> SUFFICES ASSUME NEW y \in Before(Entries, D)' PROVE y \in Before(Entries, E)
      OBVIOUS
    <3>1. y \in Entries' /\ Older(y, D)'
      BY DEF Before
    <3>2. y \in Entries /\ y \in Places' /\ Older(y, D)
      BY <1>1, <1>11, <3>1, ShrunkSays
    <3>3. y # E /\ E # D
      BY <1>10, <1>14, <3>2
    <3>4. Older(y, E)
      BY <1>4, <1>5, <3>2, <3>3, EntryIs, OrderIs DEF Ordered
    <3> QED BY <3>2, <3>4 DEF Before
  <2>3. K \cap Before(Entries, E) \subseteq Before(Entries, D)'
    <3> SUFFICES ASSUME NEW y \in K, y \in Before(Entries, E) PROVE y \in Before(Entries, D)'
      OBVIOUS
    <3>1. y \in Entries /\ Older(y, E) /\ y \in Places'
      BY <1>3 DEF Before
    <3>2. Older(y, D)
      BY <1>4, <1>5, <3>1, EntryIs, OrderIs DEF Ordered
    <3>3. y \in Entries'
      BY <1>1, <3>1, ShrunkEntries
    <3>4. Older(y, D)'
      BY <1>1, <1>11, <3>2, <3>3, ShrunkSays
    <3> QED BY <3>3, <3>4 DEF Before
  <2>4. ToldUpTo(D, K, d.held)'
    BY <1>4, <1>12, <2>2, <2>3, ToldStays
  <2> QED BY <1>3, <1>10, <2>1, <2>4
<1> QED BY <1>13, <1>14

(* The same of the file being deleted.                                      *)
LEMMA DeadCutShrunk ==
    ASSUME ChipType, FileType, FileKept, file.state = "cut", NEW b \in 1..Blocks, Erase(b),
           NEW d, DeadIs(d, TRUE), d.at \subseteq Nat \X Nat
    PROVE  DeadIs(d, TRUE)'
<1>1. Shrunk(b) /\ file' = file
  BY EraseShrinks DEF Erase
<1>2. \A m \in d.at : Past(m)'
  <2>1. \A m \in d.at : Past(m)
    BY DEF DeadIs
  <2> QED BY <1>1, <2>1 DEF Shrunk
<1> SUFFICES ASSUME d.told, d.at \subseteq Marks', NoHole(d.held)
             PROVE  ToldUpTo(file.at[0], Them(d.at), d.held)'
  BY <1>2 DEF DeadIs, NoHole
<1> PICK K : K = Them(d.at)
  OBVIOUS
<1>3. d.at \subseteq Marks /\ Them(d.at)' = K /\ K \subseteq Places'
  <2>1. d.at \subseteq Marks /\ Them(d.at)' = K
    BY <1>1, ThemShrunk
  <2>2. Them(d.at)' \subseteq Places'
    BY DEF Them
  <2> QED BY <2>1, <2>2
<1> PICK E : E = file.at[0]
  OBVIOUS
<1>4. ToldUpTo(E, K, d.held)
  BY <1>3 DEF DeadIs
<1>5. E \in Entries'
  BY FileIs, LiveLeft DEF FileKept
<1>6. Before(Entries, E)' \subseteq Before(Entries, E)
  BY <1>1, <1>5, ShrunkSays DEF Before
<1>7. K \cap Before(Entries, E) \subseteq Before(Entries, E)'
  <2>1. \A y \in K \cap Before(Entries, E) : y \in Entries /\ y \in Places' /\ Older(y, E)
    BY <1>3 DEF Before
  <2>2. \A y \in K \cap Before(Entries, E) : y \in Entries'
    BY <1>1, <2>1, ShrunkEntries
  <2> QED BY <1>1, <1>5, <2>1, <2>2, ShrunkSays DEF Before
<1>8. ToldUpTo(E, K, d.held)'
  BY <1>1, <1>4, <1>6, <1>7, AlikeIs, ToldStays
<1> QED BY <1>1, <1>3, <1>8

(* A file that is deleted is told by the chunks the driver goes by, of      *)
(* those before the header that is put for it.                              *)
LEMMA NewDead ==
    ASSUME ChipType, FileType, FileKept, FileTold, file.state = "dir",
           NEW x, NEW c, Grown(x, c),
           NEW d, d = [held |-> Held, at |-> {Mark(y) : y \in Live}, told |-> At(file.at[0]).size > 0]
    PROVE  /\ d \in Dead /\ d.at \subseteq Nat \X Nat
           /\ \A m \in d.at : Past(m)'
           /\ d.told => ToldUpTo(x, Them(d.at), d.held)'
<1>1. \A y \in Live : y \in Places /\ y \in Entries
  BY LiveIs
<1>2. \A y \in Places : Mark(y) \in Nat \X Nat
  BY PlaceTyped, FlashBounds DEF Mark
<1> PICK h : h = file.at[0]
  OBVIOUS
<1>3. d.held = Held /\ d.at = {Mark(y) : y \in Live} /\ d.told = (At(h).size > 0)
  OBVIOUS
<1>4. d.at \subseteq Nat \X Nat /\ \A m \in d.at : Past(m)
  BY <1>1, <1>2, <1>3, MarksPast
<1>5. d \in Dead
  <2>1. Held \in Contents /\ d.told \in BOOLEAN
    BY <1>3, HeldTyped
  <2> HIDE DEF Contents
  <2> QED BY <1>3, <1>4, <2>1 DEF Dead
<1>6. Them(d.at) = Live
  BY <1>1, <1>3, MarkIs DEF Them
<1>7. Them(d.at)' = Live /\ \A m \in d.at : Past(m)'
  BY <1>4, <1>6, ThemGrown
<1>8. ASSUME d.told PROVE ToldUpTo(x, Them(d.at), d.held)'
  <2> PICK K : K = Live
    OBVIOUS
  <2> PICK S : S = Entries
    OBVIOUS
  <2>1. Tells(S, K, h, d.held) /\ At(h).size > 0
    BY <1>3, <1>8, TellsNow
  <2>2. S \subseteq Places /\ S \subseteq Places' /\ K \subseteq S /\ h \in K
    BY <2>1, EntryIs DEF Tells, Grown
  <2>3. Before(Entries, x)' = S
    <3>1. \A y : y \in Before(Entries, x)' <=> y \in S
      BY GrownSays DEF Before
    <3> QED BY <3>1
  <2>4. Alike
    BY AlikeIs
  <2>5. Tells(S, K, h, d.held)'
    BY <2>1, <2>2, <2>4, TellsStays
  <2>6. Tells(Before(Entries, x), K, h, d.held)'
    BY <2>3, <2>5 DEF Tells
  <2>7. At(h)' = At(h)
    BY <2>2, <2>4 DEF Alike
  <2> QED BY <1>7, <2>1, <2>2, <2>6, <2>7 DEF ToldUpTo
<1> QED BY <1>4, <1>5, <1>7, <1>8

(* The others go on being told, if no file is between its two last headers. *)
LEMMA DeadKept ==
    ASSUME ChipType, FileType, DeadTold, NEW x, NEW c, Grown(x, c),
           NEW l \in 1..Len(deleted.lives), deleted'.lives[l] = deleted.lives[l],
           ~Ending(l), ~Ending(l)'
    PROVE  DeadIs(deleted.lives[l], Ending(l))'
<1> PICK d : d = deleted.lives[l]
  OBVIOUS
<1>1. d = deleted'.lives[l]
  OBVIOUS
<1>2. d.at \subseteq Nat \X Nat
  BY DeadIsTyped
<1>3. DeadIs(d, FALSE)
  <2>1. Ending(l) = FALSE
    BY DEF Ending
  <2>2. DeadIs(d, Ending(l))
    BY DEF DeadTold
  <2> QED BY <2>1, <2>2
<1>4. DeadIs(d, FALSE)'
  BY <1>2, <1>3, DeadGrown
<1>5. Ending(l)' = FALSE
  BY DEF Ending
<1> QED BY <1>1, <1>4, <1>5

(* A file no name of whose chunks is to come, and that nothing tells.       *)
LEMMA DeadUntold ==
    ASSUME NEW x, NEW c, Grown(x, c), NEW d, NEW e, d.at \subseteq Nat \X Nat,
           \A m \in d.at : Past(m), ~d.told
    PROVE  DeadIs(d, e)'
<1>1. \A m \in d.at : Past(m)'
  BY DEF Grown
<1> QED BY <1>1 DEF DeadIs

-----------------------------------------------------------------------------
(* Steps that put a chunk the driver goes by from then on.                  *)

(* A header, which says the size of a file that stays in its directory, and *)
(* whether it stays there.                                                  *)
HeaderSays(c) ==
    /\ c \in Chunks /\ c.ok /\ c.page = 0 /\ c.val[1] = file'.life
    /\ file'.state \in {"dir", "cut", "unlinked"} /\ (c.gone <=> file'.state = "unlinked")
    /\ file'.state \in {"dir", "cut"} => c.size = file'.size
    /\ file'.state = "cut" => file'.size = 0 /\ ~c.shrink
    /\ file'.hole => file'.state = "dir"
    /\ file'.life > 0 /\ file.life <= file'.life
    /\ file'.life = file.life \/ file.state = "none"

PagesKept ==
    \A p \in Pages :
        file'.at[p] # Nowhere =>
            /\ file'.at[p] = file.at[p] /\ file'.life = file.life /\ p <= file'.size
            /\ file'.state \in {"dir", "cut"} => file.state \in {"dir", "cut"}

HolesSaid(c) ==
    file'.state = "dir" =>
        \A p \in Pages :
            file'.at[p] = Nowhere /\ (p <= file'.size \/ file'.hole) =>
                \/ file.state = "dir" /\ file.at[p] = Nowhere /\ (p <= file.size \/ file.hole)
                \/ c.shrink /\ ~c.gone /\ c.size < p

HeaderFor(c, x) ==
    /\ HeaderSays(c) /\ file'.at[0] = x /\ PagesKept /\ HolesSaid(c)
    /\ Len(deleted'.lives) = IF file'.state = "dir" THEN file'.life - 1 ELSE file'.life

(* With such a header all that is known of the file goes on being so.       *)
LEMMA HeaderPut ==
    ASSUME ChipType, FileType, FileKept, LivesInOrder, EndsKept, FileTold, HolesCut,
           FileType', NEW x, NEW c, Grown(x, c), HeaderFor(c, x)
    PROVE  FileKept' /\ LivesInOrder' /\ EndsKept' /\ FileTold' /\ HolesCut'
<1>1. /\ c \in Chunks /\ c.ok /\ c.page = 0 /\ c.val[1] = file'.life
      /\ file'.state \in {"dir", "cut", "unlinked"} /\ (c.gone <=> file'.state = "unlinked")
      /\ file'.state \in {"dir", "cut"} => c.size = file'.size
      /\ file'.state = "cut" => file'.size = 0 /\ ~c.shrink
      /\ file'.hole => file'.state = "dir"
      /\ file'.life > 0 /\ file.life <= file'.life
      /\ file'.life = file.life \/ file.state = "none"
      /\ file'.at[0] = x
      /\ Len(deleted'.lives) = IF file'.state = "dir" THEN file'.life - 1 ELSE file'.life
  BY DEF HeaderFor, HeaderSays
<1>2. /\ file'.life \in Nat /\ file'.size \in Nat /\ FilePages \in Nat /\ 0 \in 0..FilePages
      /\ \A p \in 0..FilePages : p = 0 \/ p \in Pages
  <2>1. (file.life \in Nat /\ file.size \in Nat)'
    <3>1. file' \in File
      BY DEF FileType
    <3>2. file'.life \in 0..MaxLives /\ file'.size \in 0..FilePages
      BY <3>1 DEF File
    <3> QED BY <3>2, FlashBounds
  <2> QED BY <2>1, FileIs DEF Pages
<1>3. /\ x \in Headers(Entries)' /\ x \in Entries' /\ At(x)' = c /\ x # Nowhere
      /\ \A y \in Entries' \ {x} : Older(y, x)'
      /\ Headers(Entries)' \subseteq Entries'
  <2>1. x \in Headers(Entries)' /\ x \in Entries' /\ At(x)' = c /\ x # Nowhere
    BY <1>1, GrownSays DEF Grown
  <2>2. \A y \in Entries' \ {x} : Older(y, x)'
    BY GrownSays
  <2>3. Headers(Entries)' \subseteq Entries'
    BY DEF Headers
  <2> QED BY <2>1, <2>2, <2>3
<1>4. \A p \in Pages :
          file'.at[p] # Nowhere =>
             /\ file'.at[p] = file.at[p] /\ file'.life = file.life /\ p <= file'.size
             /\ file'.state \in {"dir", "cut"} => file.state \in {"dir", "cut"}
  BY DEF HeaderFor, PagesKept
<1>5. ASSUME NEW p \in 0..FilePages, file'.at[p] # Nowhere
      PROVE  file'.at[p] \in Entries' /\ At(file.at[p])'.page = p /\ Of(file.at[p])' = file'.life
  BY <1>1, <1>2, <1>4, <1>5, LiveGrown
<1>6. ASSUME NEW p \in 0..FilePages, p > file'.size PROVE p = 0 \/ file'.at[p] = Nowhere
  BY <1>2, <1>4, <1>6
<1>7. FileKept'
  <2>1. /\ file'.at[0] # Nowhere /\ file'.life > 0
        /\ \A h \in Headers(Entries)' \ {file'.at[0]} : Older(h, file.at[0])'
    BY <1>1, <1>3
  <2>2. At(file.at[0])' = c
    BY <1>1, <1>3
  <2>3. file'.state = "cut" => \A y \in Entries' \ {file'.at[0]} : Older(y, file.at[0])'
    BY <1>1, <1>3
  <2>4. file'.state # "none"
    BY <1>1
  <2>5. \A p \in 0..FilePages :
          /\ p > file'.size => p = 0 \/ file'.at[p] = Nowhere
          /\ file'.at[p] # Nowhere =>
                file'.at[p] \in Entries' /\ At(file.at[p])'.page = p /\ Of(file.at[p])' = file'.life
    BY <1>5, <1>6
  <2>6. file'.state \in {"dir", "cut"} => ~At(file.at[0])'.gone
    BY <1>1, <2>2
  <2>7. file'.state = "unlinked" => At(file.at[0])'.gone
    BY <1>1, <2>2
  <2>8. file'.state \in {"none", "cut"} => file'.size = 0
    BY <1>1
  <2>9. file'.state = "cut" => At(file.at[0])'.size = 0 /\ ~At(file.at[0])'.shrink
    BY <1>1, <2>2
  <2> QED BY <1>1, <2>1, <2>3, <2>4, <2>5, <2>6, <2>7, <2>8, <2>9 DEF FileKept
<1>8. LivesInOrder'
  BY <1>1, <1>2, LivesGrown
<1>9. EndsKept'
  BY <1>1, <1>2, EndsGrown
<1>10. FileTold'
  <2>1. CASE file'.state \in {"dir", "cut"}
    BY <1>1, <1>4, <2>1, ToldByHeader
  <2>2. CASE file'.state \notin {"dir", "cut"}
    BY <2>2 DEF FileTold
  <2> QED BY <2>1, <2>2
<1>11. HolesCut'
  <2>1. CASE file'.state = "dir"
    <3>1. \A p \in Pages :
             file'.at[p] = Nowhere /\ (p <= file'.size \/ file'.hole) =>
                /\ c.page # p
                /\ \/ file.state = "dir" /\ file.at[p] = Nowhere /\ (p <= file.size \/ file.hole)
                   \/ c.page = 0 /\ c.shrink /\ ~c.gone /\ c.size < p
      BY <1>1, <2>1, FileIs DEF HeaderFor, HolesSaid
    <3> QED BY <1>1, <3>1, HolesGrown
  <2>2. CASE file'.state # "dir"
    BY <2>2 DEF HolesCut
  <2> QED BY <2>1, <2>2
<1> QED BY <1>7, <1>8, <1>9, <1>10, <1>11

(* A chunk of data, of a page up to the end or past it.                     *)
DataFor(c, x, p) ==
    /\ c \in Chunks /\ c.ok /\ c.page = p /\ c.val[1] = file.life
    /\ file.state \in {"dir", "unlinked"} /\ file'.state = file.state /\ file'.life = file.life
    /\ file'.at = [file.at EXCEPT ![p] = x]
    /\ \/ file'.size = file.size /\ p <= file.size /\ file'.hole \in {file.hole, FALSE}
       \/ file'.size = p /\ file.size < p /\ file'.hole = FALSE /\ (p > file.size + 1 => file.hole)
    /\ Len(deleted'.lives) = Len(deleted.lives)

(* And with such a chunk of data.                                           *)
LEMMA DataPut ==
    ASSUME ChipType, FileType, FileKept, LivesInOrder, EndsKept, FileTold, HolesCut,
           NEW x, NEW c, Grown(x, c), NEW p \in Pages, DataFor(c, x, p)
    PROVE  FileKept' /\ LivesInOrder' /\ EndsKept' /\ FileTold' /\ HolesCut'
<1>1. /\ c \in Chunks /\ c.ok /\ c.page = p /\ c.val[1] = file.life
      /\ file.state \in {"dir", "unlinked"} /\ file'.state = file.state /\ file'.life = file.life
      /\ file'.at = [file.at EXCEPT ![p] = x]
      /\ \/ file'.size = file.size /\ p <= file.size /\ file'.hole \in {file.hole, FALSE}
         \/ file'.size = p /\ file.size < p /\ file'.hole = FALSE /\ (p > file.size + 1 => file.hole)
      /\ Len(deleted'.lives) = Len(deleted.lives)
  BY DEF DataFor
<1>2. /\ file.life \in Nat /\ file.size \in Nat /\ file.hole \in BOOLEAN
      /\ p \in 0..FilePages /\ p \in Nat /\ p # 0 /\ 0 \in 0..FilePages
  BY FileIs
<1>3. /\ file'.at[p] = x /\ x # Nowhere
      /\ \A q \in 0..FilePages : q # p => file'.at[q] = file.at[q]
  BY <1>1, <1>2, FileIs DEF Grown
<1>4. file'.size \in Nat /\ file.size <= file'.size /\ p <= file'.size
  <2>1. \/ file'.size = file.size /\ p <= file.size
        \/ file'.size = p /\ file.size < p
    BY <1>1
  <2> QED BY <1>2, <2>1
<1>5. ASSUME NEW q \in 0..FilePages, file'.at[q] # Nowhere
      PROVE  file'.at[q] \in Entries' /\ At(file.at[q])'.page = q /\ Of(file.at[q])' = file'.life
  <2>1. \/ file'.at[q] = x /\ c.page = q
        \/ file'.at[q] = file.at[q] /\ file'.life = file.life
    BY <1>1, <1>3
  <2> QED BY <1>1, <1>5, <2>1, LiveGrown
<1>6. ASSUME NEW q \in 0..FilePages, q > file'.size PROVE q = 0 \/ file'.at[q] = Nowhere
  <2>1. q # p /\ q > file.size
    BY <1>2, <1>4, <1>6
  <2> QED BY <1>3, <2>1 DEF FileKept
<1>7. FileKept'
  <2> PICK h : h = file.at[0]
    OBVIOUS
  <2>1. /\ h # Nowhere /\ h \in Entries /\ file.life > 0
        /\ \A g \in Headers(Entries) \ {h} : Older(g, h)
    BY <1>1, <1>2 DEF FileKept
  <2>2. h = file'.at[0] /\ At(h)' = At(h)
    BY <1>2, <1>3, <2>1, GrownSays
  <2>3. \A g \in Headers(Entries)' \ {h} : Older(g, h)'
    <3>1. \A g \in Headers(Entries)' : g \in Headers(Entries) /\ g \in Entries
      BY <1>1, <1>2, EntryIs, GrownSays
    <3> QED BY <2>1, <3>1, GrownSays
  <2>4. file'.hole => file'.state = "dir"
    BY <1>1 DEF FileKept
  <2>5. file'.state \notin {"none", "cut"}
    BY <1>1
  <2>6. \A q \in 0..FilePages :
          /\ q > file'.size => q = 0 \/ file'.at[q] = Nowhere
          /\ file'.at[q] # Nowhere =>
                file'.at[q] \in Entries' /\ At(file.at[q])'.page = q /\ Of(file.at[q])' = file'.life
    BY <1>5, <1>6
  <2>7. /\ file'.state \in {"dir", "cut"} => ~At(file.at[0])'.gone
        /\ file'.state = "unlinked" => At(file.at[0])'.gone
    BY <1>1, <2>2 DEF FileKept
  <2>8. Len(deleted'.lives) = IF file'.state = "dir" THEN file'.life - 1 ELSE file'.life
    BY <1>1 DEF FileKept
  <2>9. file'.at[0] # Nowhere /\ file'.life > 0
        /\ \A g \in Headers(Entries)' \ {file'.at[0]} : Older(g, file.at[0])'
    BY <1>1, <2>1, <2>2, <2>3
  <2> QED BY <2>4, <2>5, <2>6, <2>7, <2>8, <2>9 DEF FileKept
<1>8. LivesInOrder'
  BY <1>1, <1>2, LivesGrown
<1>9. EndsKept'
  BY <1>1, <1>2, EndsGrown
<1>10. FileTold'
  <2>1. CASE file.state = "dir"
    <3>1. \/ file'.size = file.size /\ p <= file.size
          \/ file'.size = p /\ file.size < p
      BY <1>1
    <3> QED BY <1>1, <2>1, <3>1, ToldByData
  <2>2. CASE file.state # "dir"
    BY <1>1, <2>2 DEF FileTold
  <2> QED BY <2>1, <2>2
<1>11. HolesCut'
  <2>1. CASE file.state = "dir"
    <3>1. ASSUME NEW q \in Pages, file'.at[q] = Nowhere, q <= file'.size \/ file'.hole
          PROVE  c.page # q /\ file.at[q] = Nowhere /\ (q <= file.size \/ file.hole)
      <4>1. q # p /\ q \in 0..FilePages /\ q \in Nat
        BY <1>3, <3>1, FileIs
      <4>2. file.at[q] = Nowhere
        BY <1>3, <3>1, <4>1
      <4>3. q <= file.size \/ file.hole
        <5>1. \/ file'.size = file.size /\ (file'.hole => file.hole)
              \/ file'.size = p /\ file'.hole = FALSE /\ (p > file.size + 1 => file.hole)
          BY <1>1
        <5> QED BY <1>2, <3>1, <4>1, <5>1
      <4> QED BY <1>1, <4>1, <4>2, <4>3
    <3> QED BY <1>1, <2>1, <3>1, HolesGrown
  <2>2. CASE file.state # "dir"
    BY <1>1, <2>2 DEF HolesCut
  <2> QED BY <2>1, <2>2
<1> QED BY <1>7, <1>8, <1>9, <1>10, <1>11

-----------------------------------------------------------------------------
(* Every step of the driver keeps the invariant.                            *)

(* The life of a file that is there.                                        *)
LEMMA LifeIs ==
    ASSUME FileType, FileKept, file.state # "none"
    PROVE  file.life \in 1..MaxLives /\ file.life \in Nat
  BY FileIs, FlashBounds DEF FileKept

(* No deleted file is between its two last headers before or after.         *)
LEMMA DeadSame ==
    ASSUME ChipType, FileType, DeadTold, NEW x, NEW c, Grown(x, c),
           deleted'.lives = deleted.lives, file.state # "cut", file'.state # "cut"
    PROVE  DeadTold'
<1> SUFFICES ASSUME NEW l \in 1..Len(deleted.lives)
             PROVE  DeadIs(deleted.lives[l], Ending(l))'
  BY DEF DeadTold
<1>1. ~Ending(l) /\ ~Ending(l)' /\ deleted'.lives[l] = deleted.lives[l]
  BY DEF Ending
<1> QED BY <1>1, DeadKept

(* A file is made, with the object id of one that is gone.                  *)
LEMMA CreateStep ==
    ASSUME IInv, Create
    PROVE  IInv'
<1> USE DEF IInv
<1>1. file.state = "none" /\ file.life < MaxLives /\ writes' = writes /\ deleted' = deleted
  BY DEF Create
<1>2. file.life + 1 \in 1..MaxLives /\ file.life \in Nat /\ 0 \in 0..FilePages
  <2>1. file.life \in Nat /\ MaxLives \in Nat /\ 0 \in 0..FilePages
    BY FileIs, FlashBounds
  <2> QED BY <1>1, <2>1
<1> PICK c : c = Header(file.life + 1, 0, FALSE, FALSE)
  OBVIOUS
<1>3. /\ c \in Chunks
      /\ c.page = 0 /\ c.val[1] = file.life + 1 /\ c.size = 0 /\ ~c.shrink /\ ~c.gone /\ c.ok
  BY <1>2, FlashBounds DEF Header, Chunks
<1>4. PICK b \in Open :
        /\ Put(b, c)
        /\ file' = [state |-> "dir", life |-> file.life + 1, size |-> 0, hole |-> FALSE,
                    at |-> [p \in 0..FilePages |-> IF p = 0 THEN PutAt(b) ELSE Nowhere]]
  BY DEF Create
<1>5. PICK x \in Nat \X Nat : x = PutAt(b) /\ Grown(x, c)
  BY <1>1, <1>3, <1>4, PutGrows
<1>6. ChipType'
  BY <1>1, <1>3, <1>4, PutTyped
<1> PICK f : f = [p \in 0..FilePages |-> IF p = 0 THEN x ELSE Nowhere]
  OBVIOUS
<1>7. /\ f \in [0..FilePages -> Nat \X Nat] /\ f[0] = x
      /\ \A p \in Pages : f[p] = Nowhere
  <2>1. Nowhere \in Nat \X Nat
    BY DEF Nowhere
  <2>2. \A p \in Pages : p \in 0..FilePages /\ p # 0
    BY FileIs
  <2> QED BY <1>2, <2>1, <2>2
<1>8. /\ file'.state = "dir" /\ file'.life = file.life + 1 /\ file'.size = 0 /\ file'.hole = FALSE
      /\ file'.at = f
  BY <1>4, <1>5
<1>9. FileType'
  <2>1. file' \in File
    <3>1. file' = [state |-> "dir", life |-> file.life + 1, size |-> 0, hole |-> FALSE, at |-> f]
      BY <1>4, <1>5
    <3>2. file.life + 1 \in 0..MaxLives /\ 0 \in 0..FilePages
      BY <1>2
    <3> QED BY <1>7, <3>1, <3>2 DEF File
  <2> HIDE DEF Dead
  <2> QED BY <1>1, <2>1 DEF FileType
<1>10. HeaderFor(c, x)
  <2>1. Len(deleted'.lives) = file'.life - 1
    BY <1>1, <1>2, <1>8 DEF FileKept
  <2>2. file.life + 1 > 0 /\ file.life <= file.life + 1 /\ \A p \in Pages : ~(p <= 0)
    BY <1>2, FileIs DEF Pages
  <2>3. HeaderSays(c)
    BY <1>1, <1>2, <1>3, <1>8, <2>1, <2>2 DEF HeaderSays
  <2>4. PagesKept
    BY <1>1, <1>7, <1>8 DEF PagesKept
  <2>5. HolesSaid(c)
    BY <1>1, <1>3, <1>7, <1>8, <2>2 DEF HolesSaid
  <2> QED BY <1>7, <1>8, <2>1, <2>3, <2>4, <2>5 DEF HeaderFor
<1>11. DeadTold'
  BY <1>1, <1>5, <1>8, DeadSame
<1> QED BY <1>5, <1>6, <1>9, <1>10, <1>11, HeaderPut

(* A page is written, on in the file, past its end or into a hole.          *)
LEMMA WritePageStep ==
    ASSUME IInv, NEW p \in Pages, WritePage(p)
    PROVE  IInv'
<1> USE DEF IInv
<1>1. /\ file.state = "dir" /\ writes < MaxWrites /\ writes' = writes + 1 /\ deleted' = deleted
      /\ IF p > file.size + 1 THEN file.hole ELSE ~file.hole
  BY DEF WritePage
<1>2. /\ file.life \in 1..MaxLives /\ writes + 1 \in 0..MaxWrites
      /\ file.size \in 0..FilePages /\ p \in 0..FilePages /\ FilePages \in Nat
  <2>1. writes \in 0..MaxWrites
    BY DEF FileType
  <2> QED BY <1>1, <2>1, LifeIs, FileIs, FlashBounds
<1> PICK c : c = Data(p, <<file.life, writes + 1>>)
  OBVIOUS
<1>3. c \in Chunks /\ c.page = p /\ c.val[1] = file.life /\ c.ok
  BY <1>2, FlashBounds DEF Data, Chunks
<1>4. PICK b \in Open :
        /\ Put(b, c)
        /\ file' = [file EXCEPT !.at[p] = PutAt(b), !.size = Max({@, p}), !.hole = FALSE]
  BY DEF WritePage
<1>5. PICK x \in Nat \X Nat : x = PutAt(b) /\ Grown(x, c)
  BY <1>1, <1>3, <1>4, PutGrows
<1>6. ChipType'
  BY <1>1, <1>3, <1>4, PutTyped
<1> PICK m : m = Max({file.size, p})
  OBVIOUS
<1>7. m = IF file.size < p THEN p ELSE file.size
  <2>1. {file.size, p} \subseteq Nat /\ \A q \in {file.size, p} : q <= FilePages
    BY <1>2
  <2>2. m \in {file.size, p} /\ file.size <= m /\ p <= m
    BY <1>2, <2>1, GreatestOf
  <2> QED BY <1>2, <2>2
<1> PICK f : f = [file.at EXCEPT ![p] = x]
  OBVIOUS
<1>8. file' = [file EXCEPT !.at = f, !.size = m, !.hole = FALSE] /\ file \in File
      /\ f \in [0..FilePages -> Nat \X Nat]
  BY <1>2, <1>4, <1>5, FileIs DEF FileType, File
<1>9. /\ file'.state = file.state /\ file'.life = file.life /\ file'.size = m /\ file'.hole = FALSE
      /\ file'.at = f
  BY <1>8 DEF File
<1>10. DataFor(c, x, p)
  <2>1. \/ file'.size = file.size /\ p <= file.size
        \/ file'.size = p /\ file.size < p /\ (p > file.size + 1 => file.hole)
    BY <1>1, <1>2, <1>7, <1>9
  <2>2. file'.at = [file.at EXCEPT ![p] = x] /\ Len(deleted'.lives) = Len(deleted.lives)
    BY <1>1, <1>9
  <2>3. file'.hole = FALSE /\ file'.hole \in {file.hole, FALSE}
    BY <1>9
  <2>4. file.state \in {"dir", "unlinked"} /\ file'.state = file.state /\ file'.life = file.life
    BY <1>1, <1>9
  <2> QED BY <1>3, <2>1, <2>2, <2>3, <2>4 DEF DataFor
<1>11. FileType'
  <2>1. file' \in File
    <3>1. m \in 0..FilePages
      BY <1>2, <1>7
    <3> QED BY <1>8, <3>1 DEF File
  <2> HIDE DEF Dead
  <2> QED BY <1>1, <1>2, <2>1 DEF FileType
<1>12. DeadTold'
  BY <1>1, <1>5, <1>9, DeadSame
<1> QED BY <1>5, <1>6, <1>10, <1>11, <1>12, DataPut

(* The header before a hole says the size the file has, and shrinks it.     *)
LEMMA HoleHeaderStep ==
    ASSUME IInv, HoleHeader
    PROVE  IInv'
<1> USE DEF IInv
<1>1. /\ file.state = "dir" /\ ~file.hole /\ writes' = writes /\ deleted' = deleted
  BY DEF HoleHeader
<1>2. file.life \in 1..MaxLives /\ file.life \in Nat /\ file.size \in 0..FilePages
  BY <1>1, LifeIs, FileIs
<1> PICK c : c = Header(file.life, file.size, TRUE, FALSE)
  OBVIOUS
<1>3. /\ c \in Chunks
      /\ c.page = 0 /\ c.val[1] = file.life /\ c.size = file.size /\ c.shrink /\ ~c.gone /\ c.ok
  BY <1>2, FlashBounds DEF Header, Chunks
<1>4. PICK b \in Open :
        /\ Put(b, c)
        /\ file' = [file EXCEPT !.at[0] = PutAt(b), !.hole = TRUE]
  BY DEF HoleHeader
<1>5. PICK x \in Nat \X Nat : x = PutAt(b) /\ Grown(x, c)
  BY <1>1, <1>3, <1>4, PutGrows
<1>6. ChipType'
  BY <1>1, <1>3, <1>4, PutTyped
<1> PICK f : f = [file.at EXCEPT ![0] = x]
  OBVIOUS
<1>7. /\ f \in [0..FilePages -> Nat \X Nat] /\ f[0] = x
      /\ \A p \in Pages : f[p] = file.at[p]
  BY FileIs
<1>8. file' = [file EXCEPT !.at = f, !.hole = TRUE] /\ file \in File
  BY <1>4, <1>5 DEF FileType, File
<1>9. /\ file'.state = "dir" /\ file'.life = file.life /\ file'.size = file.size /\ file'.hole = TRUE
      /\ file'.at = f
  BY <1>1, <1>8 DEF File
<1>10. FileType'
  <2>1. file' \in File
    BY <1>7, <1>8 DEF File
  <2> HIDE DEF Dead
  <2> QED BY <1>1, <2>1 DEF FileType
<1>11. \A p \in Pages : file.at[p] # Nowhere => p <= file.size
  BY <1>2, FileIs DEF FileKept, Pages
<1>12. \A p \in Pages : p <= file.size \/ file.size < p
  BY <1>2, FileIs DEF Pages
<1>13. HeaderFor(c, x)
  <2>1. Len(deleted'.lives) = file'.life - 1 /\ file.life > 0
    BY <1>1, <1>9 DEF FileKept
  <2>2. file.life <= file'.life
    BY <1>2, <1>9
  <2>3. HeaderSays(c)
    BY <1>1, <1>2, <1>3, <1>9, <2>1, <2>2 DEF HeaderSays
  <2>4. PagesKept
    BY <1>1, <1>7, <1>9, <1>11, <1>12 DEF PagesKept
  <2>5. HolesSaid(c)
    BY <1>1, <1>3, <1>7, <1>9, <1>11, <1>12, <2>2 DEF HolesSaid
  <2> QED BY <1>7, <1>9, <2>1, <2>3, <2>4, <2>5 DEF HeaderFor
<1>14. DeadTold'
  BY <1>1, <1>5, <1>9, DeadSame
<1> QED BY <1>5, <1>6, <1>10, <1>13, <1>14, HeaderPut

(* The header of a file that is closed says its size.                       *)
LEMMA FlushStep ==
    ASSUME IInv, Flush
    PROVE  IInv'
<1> USE DEF IInv
<1>1. /\ file.state = "dir" /\ ~file.hole /\ writes' = writes /\ deleted' = deleted
  BY DEF Flush
<1>2. file.life \in 1..MaxLives /\ file.life \in Nat /\ file.size \in 0..FilePages
  BY <1>1, LifeIs, FileIs
<1> PICK c : c = Header(file.life, file.size, FALSE, FALSE)
  OBVIOUS
<1>3. /\ c \in Chunks
      /\ c.page = 0 /\ c.val[1] = file.life /\ c.size = file.size /\ ~c.shrink /\ ~c.gone /\ c.ok
  BY <1>2, FlashBounds DEF Header, Chunks
<1>4. PICK b \in Open : Put(b, c) /\ file' = [file EXCEPT !.at[0] = PutAt(b)]
  BY DEF Flush
<1>5. PICK x \in Nat \X Nat : x = PutAt(b) /\ Grown(x, c)
  BY <1>1, <1>3, <1>4, PutGrows
<1>6. ChipType'
  BY <1>1, <1>3, <1>4, PutTyped
<1> PICK f : f = [file.at EXCEPT ![0] = x]
  OBVIOUS
<1>7. /\ f \in [0..FilePages -> Nat \X Nat] /\ f[0] = x
      /\ \A p \in Pages : f[p] = file.at[p]
  BY FileIs
<1>8. file' = [file EXCEPT !.at = f] /\ file \in File
  BY <1>4, <1>5 DEF FileType, File
<1>9. /\ file'.state = "dir" /\ file'.life = file.life /\ file'.size = file.size
      /\ file'.hole = file.hole /\ file'.at = f
  BY <1>1, <1>8 DEF File
<1>10. FileType'
  <2>1. file' \in File
    BY <1>7, <1>8 DEF File
  <2> HIDE DEF Dead
  <2> QED BY <1>1, <2>1 DEF FileType
<1>11. \A p \in Pages : file.at[p] # Nowhere => p <= file.size
  BY <1>2, FileIs DEF FileKept, Pages
<1>13. HeaderFor(c, x)
  <2>1. Len(deleted'.lives) = file'.life - 1 /\ file.life > 0
    BY <1>1, <1>9 DEF FileKept
  <2>2. file.life <= file'.life
    BY <1>2, <1>9
  <2>3. HeaderSays(c)
    BY <1>1, <1>2, <1>3, <1>9, <2>1, <2>2 DEF HeaderSays
  <2>4. PagesKept
    BY <1>1, <1>7, <1>9, <1>11 DEF PagesKept
  <2>5. HolesSaid(c)
    BY <1>1, <1>3, <1>7, <1>9, <1>11, <2>2 DEF HolesSaid
  <2> QED BY <1>7, <1>9, <2>1, <2>3, <2>4, <2>5 DEF HeaderFor
<1>14. DeadTold'
  BY <1>1, <1>5, <1>9, DeadSame
<1> QED BY <1>5, <1>6, <1>10, <1>13, <1>14, HeaderPut

(* The header of a file that is cut says the size it is cut to.             *)
LEMMA TruncateStep ==
    ASSUME IInv, NEW n \in 0..(FilePages - 1), Truncate(n)
    PROVE  IInv'
<1> USE DEF IInv
<1>1. /\ file.state = "dir" /\ ~file.hole /\ n < file.size /\ writes' = writes /\ deleted' = deleted
  BY DEF Truncate
<1>2. /\ file.life \in 1..MaxLives /\ file.life \in Nat /\ file.size \in 0..FilePages
      /\ n \in 0..FilePages /\ n \in Nat /\ FilePages \in Nat
  BY <1>1, LifeIs, FileIs
<1> PICK c : c = Header(file.life, n, FALSE, FALSE)
  OBVIOUS
<1>3. /\ c \in Chunks
      /\ c.page = 0 /\ c.val[1] = file.life /\ c.size = n /\ ~c.shrink /\ ~c.gone /\ c.ok
  BY <1>2, FlashBounds DEF Header, Chunks
<1>4. PICK b \in Open :
        /\ Put(b, c)
        /\ file' = [file EXCEPT !.at = [Cut(n) EXCEPT ![0] = PutAt(b)], !.size = n]
  BY DEF Truncate
<1>5. PICK x \in Nat \X Nat : x = PutAt(b) /\ Grown(x, c)
  BY <1>1, <1>3, <1>4, PutGrows
<1>6. ChipType'
  BY <1>1, <1>3, <1>4, PutTyped
<1> PICK f : f = [Cut(n) EXCEPT ![0] = x]
  OBVIOUS
<1>7. /\ f \in [0..FilePages -> Nat \X Nat] /\ f[0] = x
      /\ \A p \in Pages : f[p] = IF p > n THEN Nowhere ELSE file.at[p]
  <2>1. Nowhere \in Nat \X Nat
    BY DEF Nowhere
  <2>2. \A p \in Pages : p \in 0..FilePages /\ p # 0
    BY FileIs
  <2>3. 0 \in 0..FilePages /\ file.at \in [0..FilePages -> Nat \X Nat]
    BY FileIs
  <2> QED BY <2>1, <2>2, <2>3 DEF Cut
<1>8. file' = [file EXCEPT !.at = f, !.size = n] /\ file \in File
  BY <1>4, <1>5 DEF FileType, File
<1>9. /\ file'.state = "dir" /\ file'.life = file.life /\ file'.size = n
      /\ file'.hole = file.hole /\ file'.at = f
  BY <1>1, <1>8 DEF File
<1>10. FileType'
  <2>1. file' \in File
    BY <1>2, <1>7, <1>8 DEF File
  <2> HIDE DEF Dead
  <2> QED BY <1>1, <2>1 DEF FileType
<1>11. \A p \in Pages : /\ f[p] # Nowhere => p <= n /\ f[p] = file.at[p]
                        /\ f[p] = Nowhere /\ p <= n => file.at[p] = Nowhere /\ p <= file.size
  <2>1. file.size \in Nat /\ \A p \in Pages : p \in Nat
    BY FileIs DEF Pages
  <2> QED BY <1>1, <1>2, <1>7, <2>1
<1>13. HeaderFor(c, x)
  <2>1. Len(deleted'.lives) = file'.life - 1 /\ file.life > 0
    BY <1>1, <1>9 DEF FileKept
  <2>2. file.life <= file'.life
    BY <1>2, <1>9
  <2>3. HeaderSays(c)
    BY <1>1, <1>2, <1>3, <1>9, <2>1, <2>2 DEF HeaderSays
  <2>4. PagesKept
    BY <1>1, <1>7, <1>9, <1>11 DEF PagesKept
  <2>5. HolesSaid(c)
    BY <1>1, <1>3, <1>7, <1>9, <1>11, <2>2 DEF HolesSaid
  <2> QED BY <1>7, <1>9, <2>1, <2>3, <2>4, <2>5 DEF HeaderFor
<1>14. DeadTold'
  BY <1>1, <1>5, <1>9, DeadSame
<1> QED BY <1>5, <1>6, <1>10, <1>13, <1>14, HeaderPut

(* A file that is deleted is added to those that were, and told.            *)
LEMMA DeadAdded ==
    ASSUME ChipType, FileType, FileKept, FileTold, DeadTold, file.state = "dir", Remember,
           file'.life = file.life, NEW x, NEW c, Grown(x, c),
           \/ file'.state = "cut" /\ file'.at[0] = x
           \/ /\ file'.state \in {"unlinked", "none"}
              /\ At(file.at[0]).size > 0 => c.ok /\ c.page = 0 /\ c.gone /\ c.shrink
    PROVE  /\ DeadTold' /\ deleted' \in [seq : 0..MaxSeq, lives : Seq(Dead)]
           /\ deleted'.seq = deleted.seq /\ Len(deleted'.lives) = file.life
<1> PICK d : d = [held |-> Held, at |-> {Mark(y) : y \in Live}, told |-> At(file.at[0]).size > 0]
  OBVIOUS
<1> PICK n : n = Len(deleted.lives)
  OBVIOUS
<1>1. /\ d \in Dead /\ d.at \subseteq Nat \X Nat
      /\ \A m \in d.at : Past(m)'
      /\ d.told => ToldUpTo(x, Them(d.at), d.held)'
  BY NewDead
<1>2. deleted' = [deleted EXCEPT !.lives = Append(deleted.lives, d)]
  BY DEF Remember, Mark
<1>3. deleted.lives \in Seq(Dead) /\ deleted.seq \in 0..MaxSeq
  <2> HIDE DEF Dead
  <2> QED BY DEF FileType
<1>4. deleted'.lives = Append(deleted.lives, d) /\ deleted'.seq = deleted.seq
      /\ deleted' = [seq |-> deleted.seq, lives |-> Append(deleted.lives, d)]
  <2> HIDE DEF Dead
  <2> QED BY <1>2 DEF FileType
<1>5. /\ Append(deleted.lives, d) \in Seq(Dead) /\ n \in Nat
      /\ Len(deleted'.lives) = n + 1 /\ deleted'.lives[n + 1] = d
      /\ \A l \in 1..n : deleted'.lives[l] = deleted.lives[l]
  <2> HIDE DEF Dead
  <2> QED BY <1>1, <1>3, <1>4, AppendProperties, LenProperties
<1>6. deleted' \in [seq : 0..MaxSeq, lives : Seq(Dead)]
  <2> PICK s : s = Append(deleted.lives, d)
    OBVIOUS
  <2> HIDE DEF Dead
  <2> QED BY <1>3, <1>4, <1>5
<1>7. n + 1 = file.life /\ file.life \in Nat
  <2>1. n = file.life - 1
    BY DEF FileKept
  <2> QED BY <1>5, <2>1, FileIs
<1>8. DeadTold'
  <2> SUFFICES ASSUME NEW l \in 1..(n + 1)
               PROVE  DeadIs(deleted.lives[l], Ending(l))'
    BY <1>5 DEF DeadTold
  <2>1. CASE l \in 1..n
    <3>1. l # file.life
      BY <1>5, <1>7, <2>1
    <3>2. ~Ending(l) /\ ~Ending(l)'
      BY <3>1 DEF Ending
    <3> QED BY <1>5, <2>1, <3>2, DeadKept
  <2>2. CASE l = n + 1
    <3>1. d = deleted'.lives[l]
      BY <1>5, <2>2
    <3>2. CASE file'.state = "cut" /\ file'.at[0] = x
      <4>1. Ending(l)' = TRUE
        BY <1>7, <2>2, <3>2 DEF Ending
      <4>2. ToldUpTo(x, Them(d.at), d.held)' => ToldUpTo(file.at[0], Them(d.at), d.held)'
        BY <3>2
      <4>3. DeadIs(d, TRUE)'
        BY <1>1, <4>2 DEF DeadIs
      <4> QED BY <3>1, <4>1, <4>3
    <3>3. CASE /\ file'.state \in {"unlinked", "none"}
               /\ At(file.at[0]).size > 0 => c.ok /\ c.page = 0 /\ c.gone /\ c.shrink
      <4>1. Ending(l)' = FALSE
        BY <3>3 DEF Ending
      <4>2. d.told = (At(file.at[0]).size > 0)
        OBVIOUS
      <4>3. ASSUME d.told PROVE Ended(x, x)' /\ x \in Places'
        <5>1. c.ok /\ c.page = 0 /\ c.gone /\ c.shrink
          BY <3>3, <4>2, <4>3
        <5>2. x \in Headers(Entries)' /\ At(x)' = c
          BY <5>1, GrownSays
        <5> QED BY <5>1, <5>2 DEF Ended, Grown
      <4>4. DeadIs(d, FALSE)'
        BY <1>1, <4>3 DEF DeadIs
      <4> QED BY <3>1, <4>1, <4>4
    <3> QED BY <3>2, <3>3
  <2> QED BY <1>5, <2>1, <2>2
<1> QED BY <1>4, <1>5, <1>6, <1>7, <1>8

(* A file is cut to 0 before it is deleted: it is dead, and told.           *)
LEMMA DeleteCutStep ==
    ASSUME IInv, DeleteCut
    PROVE  IInv'
<1> USE DEF IInv
<1>1. /\ file.state = "dir" /\ ~file.hole /\ file.size > 0 /\ writes' = writes /\ Remember
  BY DEF DeleteCut
<1>2. /\ file.life \in 1..MaxLives /\ file.life \in Nat /\ 0 \in 0..FilePages
  BY <1>1, LifeIs, FileIs
<1> PICK c : c = Header(file.life, 0, FALSE, FALSE)
  OBVIOUS
<1>3. /\ c \in Chunks
      /\ c.page = 0 /\ c.val[1] = file.life /\ c.size = 0 /\ ~c.shrink /\ ~c.gone /\ c.ok
  BY <1>2, FlashBounds DEF Header, Chunks
<1>4. PICK b \in Open :
        /\ Put(b, c)
        /\ file' = [file EXCEPT !.state = "cut", !.at = [Cut(0) EXCEPT ![0] = PutAt(b)], !.size = 0]
  BY DEF DeleteCut
<1>0. deleted'.seq = deleted.seq
  <2> HIDE DEF Dead
  <2> QED BY <1>1 DEF Remember, FileType
<1>5. PICK x \in Nat \X Nat : x = PutAt(b) /\ Grown(x, c)
  BY <1>0, <1>3, <1>4, PutGrows
<1>6. ChipType'
  BY <1>0, <1>3, <1>4, PutTyped
<1> PICK f : f = [Cut(0) EXCEPT ![0] = x]
  OBVIOUS
<1>7. /\ f \in [0..FilePages -> Nat \X Nat] /\ f[0] = x
      /\ \A p \in Pages : f[p] = Nowhere
  <2>1. Nowhere \in Nat \X Nat
    BY DEF Nowhere
  <2>2. \A p \in Pages : p \in 0..FilePages /\ p # 0 /\ p > 0
    BY FileIs DEF Pages
  <2>3. 0 \in 0..FilePages /\ file.at \in [0..FilePages -> Nat \X Nat]
    BY FileIs
  <2> QED BY <2>1, <2>2, <2>3 DEF Cut
<1>8. file' = [file EXCEPT !.state = "cut", !.at = f, !.size = 0] /\ file \in File
  BY <1>4, <1>5 DEF FileType, File
<1>9. /\ file'.state = "cut" /\ file'.life = file.life /\ file'.size = 0
      /\ file'.hole = file.hole /\ file'.at = f
  BY <1>1, <1>8 DEF File
<1>10. /\ DeadTold' /\ deleted' \in [seq : 0..MaxSeq, lives : Seq(Dead)]
       /\ Len(deleted'.lives) = file.life
  <2>1. file'.state = "cut" /\ file'.at[0] = x
    BY <1>7, <1>9
  <2> QED BY <1>1, <1>5, <1>9, <2>1, DeadAdded
<1>11. FileType'
  <2>1. file' \in File
    BY <1>2, <1>7, <1>8 DEF File
  <2> HIDE DEF Dead
  <2> QED BY <1>1, <1>10, <2>1 DEF FileType
<1>13. HeaderFor(c, x)
  <2>1. Len(deleted'.lives) = file'.life /\ file.life > 0
    BY <1>2, <1>9, <1>10
  <2>2. file.life <= file'.life
    BY <1>2, <1>9
  <2>3. HeaderSays(c)
    BY <1>1, <1>3, <1>9, <2>1, <2>2 DEF HeaderSays
  <2>4. PagesKept
    BY <1>7, <1>9 DEF PagesKept
  <2>5. HolesSaid(c)
    BY <1>9 DEF HolesSaid
  <2> QED BY <1>7, <1>9, <2>1, <2>3, <2>4, <2>5 DEF HeaderFor
<1> QED BY <1>5, <1>6, <1>10, <1>11, <1>13, HeaderPut

(* A file that is open is unlinked: it is dead, and told as it was.         *)
LEMMA UnlinkStep ==
    ASSUME IInv, Unlink
    PROVE  IInv'
<1> USE DEF IInv
<1>1. /\ file.state = "dir" /\ ~file.hole /\ writes' = writes /\ Remember
  BY DEF Unlink
<1>2. /\ file.life \in 1..MaxLives /\ file.life \in Nat /\ file.size \in 0..FilePages
  BY <1>1, LifeIs, FileIs
<1> PICK c : c = Header(file.life, file.size, TRUE, TRUE)
  OBVIOUS
<1>3. /\ c \in Chunks
      /\ c.page = 0 /\ c.val[1] = file.life /\ c.size = file.size /\ c.shrink /\ c.gone /\ c.ok
  BY <1>2, FlashBounds DEF Header, Chunks
<1>4. PICK b \in Open :
        /\ Put(b, c)
        /\ file' = [file EXCEPT !.state = "unlinked", !.at[0] = PutAt(b)]
  BY DEF Unlink
<1>0. deleted'.seq = deleted.seq
  <2> HIDE DEF Dead
  <2> QED BY <1>1 DEF Remember, FileType
<1>5. PICK x \in Nat \X Nat : x = PutAt(b) /\ Grown(x, c)
  BY <1>0, <1>3, <1>4, PutGrows
<1>6. ChipType'
  BY <1>0, <1>3, <1>4, PutTyped
<1> PICK f : f = [file.at EXCEPT ![0] = x]
  OBVIOUS
<1>7. /\ f \in [0..FilePages -> Nat \X Nat] /\ f[0] = x
      /\ \A p \in Pages : f[p] = file.at[p]
  BY FileIs
<1>8. file' = [file EXCEPT !.state = "unlinked", !.at = f] /\ file \in File
  BY <1>4, <1>5 DEF FileType, File
<1>9. /\ file'.state = "unlinked" /\ file'.life = file.life /\ file'.size = file.size
      /\ file'.hole = file.hole /\ file'.at = f
  BY <1>1, <1>8 DEF File
<1>10. /\ DeadTold' /\ deleted' \in [seq : 0..MaxSeq, lives : Seq(Dead)]
       /\ Len(deleted'.lives) = file.life
  BY <1>1, <1>3, <1>5, <1>9, DeadAdded
<1>11. FileType'
  <2>1. file' \in File
    BY <1>2, <1>7, <1>8 DEF File
  <2> HIDE DEF Dead
  <2> QED BY <1>1, <1>10, <2>1 DEF FileType
<1>12. \A p \in Pages : file.at[p] # Nowhere => p <= file.size
  BY <1>2, FileIs DEF FileKept, Pages
<1>13. HeaderFor(c, x)
  <2>1. Len(deleted'.lives) = file'.life /\ file.life > 0
    BY <1>2, <1>9, <1>10
  <2>2. file.life <= file'.life
    BY <1>2, <1>9
  <2>3. HeaderSays(c)
    BY <1>1, <1>3, <1>9, <2>1, <2>2 DEF HeaderSays
  <2>4. PagesKept
    BY <1>7, <1>9, <1>12 DEF PagesKept
  <2>5. HolesSaid(c)
    BY <1>9 DEF HolesSaid
  <2> QED BY <1>7, <1>9, <2>1, <2>3, <2>4, <2>5 DEF HeaderFor
<1> QED BY <1>5, <1>6, <1>10, <1>11, <1>13, HeaderPut

(* The driver knows nothing of a file that is gone.                         *)
LEMMA NoneKept ==
    ASSUME ChipType, FileType, FileKept, LivesInOrder, EndsKept, NEW x, NEW c, Grown(x, c),
           c.ok, c.page = 0, c.val[1] = file.life, c.gone, c.shrink, c.size = 0,
           file.state # "none", file'.state = "none", file'.life = file.life, file'.size = 0,
           file'.hole = FALSE, \A p \in 0..FilePages : file'.at[p] = Nowhere,
           Len(deleted'.lives) = file.life
    PROVE  FileKept' /\ LivesInOrder' /\ EndsKept' /\ FileTold' /\ HolesCut'
<1>1. FileKept'
  BY DEF FileKept
<1>2. FileTold' /\ HolesCut'
  BY DEF FileTold, HolesCut
<1>3. file.life \in Nat
  BY FileIs
<1>4. LivesInOrder'
  BY <1>3, LivesGrown
<1>5. EndsKept'
  <2> SUFFICES ASSUME NEW y \in Entries'
               PROVE  \E d \in Headers(Entries)' :
                         /\ At(d)'.gone /\ At(d)'.shrink /\ At(d)'.size = 0 /\ Of(d)' = Of(y)'
                         /\ y = d \/ Older(y, d)'
    BY DEF EndsKept
  <2>1. Of(y)' \in Nat /\ Of(y)' <= file.life
    <3>1. y \in Entries \/ y = x
      BY GrownSays
    <3>2. CASE y \in Entries
      BY <3>2, GrownSays DEF LivesInOrder
    <3>3. CASE y = x
      BY <1>3, <3>3, GrownSays
    <3> QED BY <3>1, <3>2, <3>3
  <2>2. CASE Of(y)' = file.life
    <3>1. x \in Headers(Entries)' /\ At(x)' = c /\ Of(x)' = file.life /\ (y = x \/ Older(y, x)')
      BY GrownSays
    <3> QED BY <2>2, <3>1
  <2>3. CASE Of(y)' < file.life
    <3>1. y # x /\ y \in Entries
      BY <1>3, <2>3, GrownSays
    <3>2. PICK d \in Headers(Entries) :
            /\ At(d).gone /\ At(d).shrink /\ At(d).size = 0 /\ Of(d) = Of(y)
            /\ y = d \/ Older(y, d)
      BY <2>3, <3>1, GrownSays DEF EndsKept
    <3>3. d \in Entries /\ d \in Headers(Entries)'
      BY <3>2, EntryIs, GrownSays
    <3> QED BY <3>1, <3>2, <3>3, GrownSays
  <2> QED BY <1>3, <2>1, <2>2, <2>3
<1> QED BY <1>1, <1>2, <1>4, <1>5

(* The header that files it as deleted ends the life.                       *)
LEMMA DeleteStep ==
    ASSUME IInv, Delete
    PROVE  IInv'
<1> USE DEF IInv
<1>1. /\ writes' = writes
      /\ \/ file.state \in {"cut", "unlinked"} /\ deleted' = deleted
         \/ file.state = "dir" /\ ~file.hole /\ file.size = 0 /\ Remember
  BY DEF Delete
<1>2. /\ file.life \in 1..MaxLives /\ file.life \in Nat /\ 0 \in 0..FilePages
      /\ file.state # "none" /\ file.hole = FALSE
  BY <1>1, LifeIs, FileIs DEF FileKept
<1> PICK c : c = Header(file.life, 0, TRUE, TRUE)
  OBVIOUS
<1>3. /\ c \in Chunks
      /\ c.page = 0 /\ c.val[1] = file.life /\ c.size = 0 /\ c.shrink /\ c.gone /\ c.ok
  BY <1>2, FlashBounds DEF Header, Chunks
<1>4. PICK b \in Open : Put(b, c)
  BY DEF Delete
<1>0. deleted'.seq = deleted.seq
  <2> HIDE DEF Dead
  <2> QED BY <1>1 DEF Remember, FileType
<1>5. PICK x \in Nat \X Nat : x = PutAt(b) /\ Grown(x, c)
  BY <1>0, <1>3, <1>4, PutGrows
<1>6. ChipType'
  BY <1>0, <1>3, <1>4, PutTyped
<1> PICK f : f = [p \in 0..FilePages |-> Nowhere]
  OBVIOUS
<1>7. f \in [0..FilePages -> Nat \X Nat] /\ \A p \in 0..FilePages : f[p] = Nowhere
  <2>1. Nowhere \in Nat \X Nat
    BY DEF Nowhere
  <2> QED BY <2>1
<1>8. file' = [file EXCEPT !.state = "none", !.size = 0, !.at = f] /\ file \in File
  BY DEF Delete, FileType
<1>9. /\ file'.state = "none" /\ file'.life = file.life /\ file'.size = 0
      /\ file'.hole = FALSE /\ file'.at = f
  BY <1>2, <1>8 DEF File
<1>10. /\ DeadTold' /\ deleted' \in [seq : 0..MaxSeq, lives : Seq(Dead)]
       /\ Len(deleted'.lives) = file.life
  <2>1. CASE file.state = "dir" /\ file.size = 0 /\ Remember
    BY <1>3, <1>5, <1>9, <2>1, DeadAdded
  <2>2. CASE file.state \in {"cut", "unlinked"} /\ deleted' = deleted
    <3>1. Len(deleted'.lives) = file.life
      BY <2>2 DEF FileKept
    <3>2. deleted' \in [seq : 0..MaxSeq, lives : Seq(Dead)]
      <4> HIDE DEF Dead
      <4> QED BY <2>2 DEF FileType
    <3>3. DeadTold'
      <4> SUFFICES ASSUME NEW l \in 1..Len(deleted.lives)
                   PROVE  DeadIs(deleted.lives[l], Ending(l))'
        BY <2>2 DEF DeadTold
      <4>1. ~Ending(l)' /\ Ending(l)' = FALSE
        BY <1>9 DEF Ending
      <4>2. CASE ~Ending(l)
        BY <1>5, <2>2, <4>1, <4>2, DeadKept
      <4>3. CASE Ending(l)
        <5> PICK d : d = deleted.lives[l]
          OBVIOUS
        <5>1. d = deleted'.lives[l] /\ d.at \subseteq Nat \X Nat /\ file.state = "cut"
          BY <2>2, <4>3, DeadIsTyped DEF Ending
        <5>2. DeadIs(d, TRUE)
          <6>1. DeadIs(d, Ending(l)) /\ Ending(l) = TRUE
            BY <4>3 DEF DeadTold, Ending
          <6> QED BY <6>1
        <5>3. DeadIs(d, FALSE)'
          BY <1>3, <1>5, <5>1, <5>2, DeadCutEnds
        <5> QED BY <4>1, <5>1, <5>3
      <4> QED BY <4>2, <4>3
    <3> QED BY <3>1, <3>2, <3>3
  <2> QED BY <1>1, <2>1, <2>2
<1>11. FileType'
  <2>1. file' \in File
    BY <1>2, <1>7, <1>8 DEF File
  <2> HIDE DEF Dead
  <2> QED BY <1>1, <1>10, <2>1 DEF FileType
<1>12. \A p \in 0..FilePages : file'.at[p] = Nowhere
  BY <1>7, <1>9
<1>13. FileKept' /\ LivesInOrder' /\ EndsKept' /\ FileTold' /\ HolesCut'
  BY <1>2, <1>3, <1>5, <1>9, <1>10, <1>12, NoneKept
<1> QED BY <1>6, <1>10, <1>11, <1>13

(* A chunk that does not hold changes nothing of what the file is.          *)
LEMMA TornStep ==
    ASSUME IInv, Torn
    PROVE  IInv'
<1> USE DEF IInv
<1>1. file.state \in {"cut", "unlinked"} /\ file' = file /\ writes' = writes /\ deleted' = deleted
  BY DEF Torn
<1>2. file.life \in 1..MaxLives /\ file.life \in Nat /\ 0 \in 0..FilePages
  BY <1>1, LifeIs, FileIs
<1> PICK c : c = [page |-> 0, val |-> <<file.life, 0>>, size |-> 0, shrink |-> FALSE, gone |-> TRUE, ok |-> FALSE]
  OBVIOUS
<1>3. c \in Chunks /\ ~c.ok
  <2>1. c = [page |-> 0, val |-> <<file.life, 0>>, size |-> 0, shrink |-> FALSE, gone |-> TRUE, ok |-> FALSE]
    OBVIOUS
  <2>2. <<file.life, 0>> \in (1..MaxLives) \X (0..MaxWrites) /\ 0 \in 0..FilePages
    BY <1>2, FlashBounds
  <2>3. c \in Chunks
    BY <2>1, <2>2 DEF Chunks
  <2>4. c.ok = FALSE
    BY <2>1
  <2> QED BY <2>3, <2>4
<1>4. PICK b \in Open : Put(b, c)
  <2> PICK e : e = [Header(file.life, 0, FALSE, TRUE) EXCEPT !.ok = FALSE]
    OBVIOUS
  <2>1. e = [page |-> 0, val |-> <<file.life, 0>>, size |-> 0, shrink |-> FALSE, gone |-> TRUE, ok |-> FALSE]
    BY DEF Header
  <2> QED BY <2>1 DEF Torn
<1>5. PICK x \in Nat \X Nat : x = PutAt(b) /\ Grown(x, c)
  BY <1>1, <1>3, <1>4, PutGrows
<1>6. ChipType'
  BY <1>1, <1>3, <1>4, PutTyped
<1>7. FileType'
  BY <1>1 DEF FileType, File, Dead, Contents
<1>8. /\ \A y : y \in Entries' <=> y \in Entries
      /\ \A y : y \in Headers(Entries)' <=> y \in Headers(Entries)
      /\ \A p : \A y : y \in Copies(Entries, p)' <=> y \in Copies(Entries, p)
      /\ \A y \in Entries : At(y)' = At(y) /\ Of(y)' = Of(y)
      /\ \A y, z \in Entries : Older(y, z)' <=> Older(y, z)
  <2>1. /\ \A y : y \in Entries' <=> y \in Entries
        /\ \A y : y \in Headers(Entries)' <=> y \in Headers(Entries)
        /\ \A p : \A y : y \in Copies(Entries, p)' <=> y \in Copies(Entries, p)
    BY <1>3, <1>5, GrownEntries
  <2>2. /\ \A y \in Entries : At(y)' = At(y) /\ Of(y)' = Of(y)
        /\ \A y, z \in Entries : Older(y, z)' <=> Older(y, z)
    BY <1>5, GrownSays
  <2> QED BY <2>1, <2>2
<1>9. Headers(Entries) \subseteq Entries /\ \A p : Copies(Entries, p) \subseteq Entries
  BY EntryIs
<1>10. \A p \in 0..FilePages : file.at[p] # Nowhere =>
            /\ file.at[p] \in Entries
            /\ At(file.at[p])' = At(file.at[p]) /\ Of(file.at[p])' = Of(file.at[p])
            /\ \A y \in Entries : /\ Older(y, file.at[p])' <=> Older(y, file.at[p])
                                  /\ Older(file.at[p], y)' <=> Older(file.at[p], y)
  <2> SUFFICES ASSUME NEW p \in 0..FilePages, file.at[p] # Nowhere
               PROVE  /\ file.at[p] \in Entries
                      /\ At(file.at[p])' = At(file.at[p]) /\ Of(file.at[p])' = Of(file.at[p])
                      /\ \A y \in Entries : /\ Older(y, file.at[p])' <=> Older(y, file.at[p])
                                            /\ Older(file.at[p], y)' <=> Older(file.at[p], y)
    OBVIOUS
  <2> PICK z : z = file.at[p] /\ z = file'.at[p]
    BY <1>1
  <2>1. z \in Entries
    BY DEF FileKept
  <2> QED BY <1>8, <2>1
<1> PICK h : h = file.at[0] /\ h = file'.at[0]
  BY <1>1
<1>11. h # Nowhere /\ h \in Entries
  BY <1>1, <1>2 DEF FileKept
<1>12. FileKept'
  <2>1. \A g \in Headers(Entries)' \ {h} : Older(g, h)'
    BY <1>1, <1>8, <1>9, <1>11 DEF FileKept
  <2>2. file.state = "cut" => \A y \in Entries' \ {h} : Older(y, h)'
    BY <1>1, <1>8, <1>11 DEF FileKept
  <2>3. At(h)' = At(h)
    BY <1>8, <1>11
  <2>4. \A p \in 0..FilePages :
          /\ p > file.size => p = 0 \/ file.at[p] = Nowhere
          /\ file.at[p] # Nowhere =>
                file.at[p] \in Entries' /\ At(file.at[p])'.page = p /\ Of(file.at[p])' = file.life
    BY <1>8, <1>10 DEF FileKept
  <2>5. /\ file.at[0] # Nowhere /\ file.life > 0
        /\ \A g \in Headers(Entries)' \ {file.at[0]} : Older(g, file.at[0])'
    BY <1>1, <2>1 DEF FileKept
  <2>6. /\ file.state \in {"dir", "cut"} => ~At(file.at[0])'.gone
        /\ file.state = "unlinked" => At(file.at[0])'.gone
        /\ file.state \in {"none", "cut"} => file.size = 0
        /\ file.state = "cut" => At(file.at[0])'.size = 0 /\ ~At(file.at[0])'.shrink
    BY <2>3 DEF FileKept
  <2>7. file.state = "cut" => \A y \in Entries' \ {file.at[0]} : Older(y, file.at[0])'
    BY <2>2
  <2>8. /\ file.hole => file.state = "dir"
        /\ Len(deleted.lives) = IF file.state = "dir" THEN file.life - 1 ELSE file.life
    BY DEF FileKept
  <2> QED BY <1>1, <2>4, <2>5, <2>6, <2>7, <2>8 DEF FileKept
<1>13. LivesInOrder'
  BY <1>1, <1>8 DEF LivesInOrder
<1>14. EndsKept'
  BY <1>1, <1>2, <1>3, <1>5, EndsGrown
<1>15. HolesCut'
  BY <1>1 DEF HolesCut
<1>16. FileTold'
  <2> SUFFICES ASSUME file.state = "cut" PROVE FileTold'
    BY <1>1 DEF FileTold
  <2>1. file.size = 0 /\ At(h)' = At(h) /\ At(h).size = 0 /\ 0 <= 0
    BY <1>8, <1>11 DEF FileKept
  <2>2. \A p \in Pages : file.at[p] = Nowhere
    <3>1. \A p \in Pages : p \in 0..FilePages /\ p # 0 /\ p > 0
      BY FileIs DEF Pages
    <3> QED BY <2>1, <3>1 DEF FileKept
  <2>3. \A y \in Entries' \ Headers(Entries)' : Older(h, y)' => At(y)'.page <= file.size
    BY <1>8, <1>11 DEF FileTold
  <2> QED BY <1>1, <2>1, <2>2, <2>3 DEF FileTold
<1>17. DeadTold'
  <2> SUFFICES ASSUME NEW l \in 1..Len(deleted.lives)
               PROVE  DeadIs(deleted.lives[l], Ending(l))'
    BY <1>1 DEF DeadTold
  <2>1. Ending(l)' = Ending(l)
    BY <1>1 DEF Ending
  <2>2. CASE ~Ending(l)
    BY <1>1, <1>5, <2>1, <2>2, DeadKept
  <2>3. CASE Ending(l)
    <3> PICK d : d = deleted.lives[l]
      OBVIOUS
    <3>1. d = deleted'.lives[l] /\ d.at \subseteq Nat \X Nat /\ file.state = "cut"
      BY <1>1, <2>3, DeadIsTyped DEF Ending
    <3>2. DeadIs(d, TRUE) /\ Ending(l)' = TRUE
      <4>1. DeadIs(d, Ending(l)) /\ Ending(l) = TRUE
        BY <2>3 DEF DeadTold, Ending
      <4> QED BY <2>1, <4>1
    <3>3. DeadIs(d, TRUE)'
      BY <1>1, <1>5, <3>1, <3>2, DeadCutGrown
    <3> QED BY <3>1, <3>2, <3>3
  <2> QED BY <2>2, <2>3
<1> QED BY <1>6, <1>7, <1>12, <1>13, <1>14, <1>15, <1>16, <1>17

(* A block is collected one page at a time: of the header, with the size    *)
(* the file has by then, or of a chunk of data as it is.                    *)
LEMMA CopyHeaderStep ==
    ASSUME IInv, Copy(0)
    PROVE  IInv'
<1> USE DEF IInv
<1> PICK h : h = file.at[0]
  OBVIOUS
<1>1. /\ h # Nowhere /\ writes' = writes
      /\ deleted' = IF file.state = "cut"
                    THEN [deleted EXCEPT !.lives[file.life].told = FALSE]
                    ELSE deleted
  BY DEF Copy
<1>2. /\ file.state # "none" /\ 0 \in 0..FilePages /\ h \in Entries /\ h \in Places
      /\ At(h).gone \in BOOLEAN
      /\ file.state \in {"dir", "cut", "unlinked"}
  <2>1. file.state # "none" /\ 0 \in 0..FilePages /\ h \in Entries
    BY <1>1, FileIs DEF FileKept
  <2>2. h \in Places
    BY <2>1, EntryIs
  <2> QED BY <2>1, <2>2, PlaceTyped, ChunkSays, FileIs
<1>3. file.life \in 1..MaxLives /\ file.life \in Nat /\ file.size \in 0..FilePages
  BY <1>2, LifeIs, FileIs
<1> PICK g : g = At(h).gone
  OBVIOUS
<1>4. g \in BOOLEAN /\ (g <=> file.state = "unlinked")
  BY <1>2 DEF FileKept
<1> PICK c : c = [page |-> 0, val |-> <<file.life, 0>>, size |-> file.size, shrink |-> FALSE,
                  gone |-> g, ok |-> TRUE]
  OBVIOUS
<1>5. /\ c \in Chunks
      /\ c.page = 0 /\ c.val[1] = file.life /\ c.size = file.size /\ ~c.shrink /\ c.gone = g /\ c.ok
  <2>1. c = [page |-> 0, val |-> <<file.life, 0>>, size |-> file.size, shrink |-> FALSE,
             gone |-> g, ok |-> TRUE]
    OBVIOUS
  <2>2. <<file.life, 0>> \in (1..MaxLives) \X (0..MaxWrites) /\ 0 \in 0..FilePages
    BY <1>3, FlashBounds
  <2>3. c \in Chunks
    BY <1>3, <1>4, <2>1, <2>2 DEF Chunks
  <2>4. /\ c.page = 0 /\ c.val = <<file.life, 0>> /\ c.size = file.size /\ c.shrink = FALSE
        /\ c.gone = g /\ c.ok = TRUE
    BY <2>1
  <2> QED BY <2>3, <2>4
<1>6. PICK b \in Open : Put(b, c) /\ file' = [file EXCEPT !.at[0] = PutAt(b)]
  <2>1. c = Header(file.life, file.size, FALSE, At(file.at[0]).gone)
    BY DEF Header
  <2> QED BY <2>1 DEF Copy
<1>7. deleted'.seq = deleted.seq
  <2> HIDE DEF Dead
  <2> QED BY <1>1 DEF FileType
<1>8. PICK x \in Nat \X Nat : x = PutAt(b) /\ Grown(x, c)
  BY <1>5, <1>6, <1>7, PutGrows
<1>9. ChipType'
  BY <1>5, <1>6, <1>7, PutTyped
<1> PICK f : f = [file.at EXCEPT ![0] = x]
  OBVIOUS
<1>10. /\ f \in [0..FilePages -> Nat \X Nat] /\ f[0] = x
       /\ \A p \in Pages : f[p] = file.at[p]
  BY FileIs
<1>11. file' = [file EXCEPT !.at = f] /\ file \in File
  BY <1>6, <1>8 DEF FileType, File
<1>12. /\ file'.state = file.state /\ file'.life = file.life /\ file'.size = file.size
       /\ file'.hole = file.hole /\ file'.at = f
  BY <1>11 DEF File
<1> PICK n : n = Len(deleted.lives)
  OBVIOUS
<1>13. /\ n \in Nat /\ (file.state = "cut" => n = file.life)
       /\ deleted.lives \in Seq(Dead) /\ deleted.seq \in 0..MaxSeq
       /\ deleted \in [seq : 0..MaxSeq, lives : Seq(Dead)]
  <2>1. n \in Nat /\ (file.state = "cut" => n = file.life)
    BY FileIs DEF FileKept
  <2> HIDE DEF Dead
  <2> QED BY <2>1 DEF FileType
<1>14. /\ Len(deleted'.lives) = n /\ deleted' \in [seq : 0..MaxSeq, lives : Seq(Dead)]
       /\ \A l \in 1..n : IF l = file.life /\ file.state = "cut"
                          THEN ~deleted'.lives[l].told /\ deleted'.lives[l].at = deleted.lives[l].at
                          ELSE deleted'.lives[l] = deleted.lives[l]
  <2>1. CASE file.state # "cut"
    BY <1>1, <1>13, <2>1
  <2>2. CASE file.state = "cut"
    <3> PICK l : l = file.life
      OBVIOUS
    <3> PICK d : d = [deleted.lives[l] EXCEPT !.told = FALSE]
      OBVIOUS
    <3>1. l \in 1..n /\ deleted.lives[l] \in Dead
      BY <1>3, <1>13, <2>2, DeadIsTyped
    <3>2. d \in Dead /\ d.told = FALSE /\ d.at = deleted.lives[l].at
      BY <3>1 DEF Dead
    <3> PICK s : s = [deleted.lives EXCEPT ![l] = d]
      OBVIOUS
    <3>3. deleted' = [deleted EXCEPT !.lives = s]
      BY <1>1, <2>2
    <3>4. /\ s \in Seq(Dead) /\ Len(s) = n /\ s[l] = d
          /\ \A k \in 1..n : k # l => s[k] = deleted.lives[k]
      <4> HIDE DEF Dead
      <4>1. /\ [deleted.lives EXCEPT ![l] = d] \in Seq(Dead)
            /\ Len([deleted.lives EXCEPT ![l] = d]) = Len(deleted.lives)
            /\ \A j \in 1..Len(deleted.lives) :
                  [deleted.lives EXCEPT ![l] = d][j] = IF j = l THEN d ELSE deleted.lives[j]
        BY <1>13, <3>1, <3>2, ExceptSeq
      <4> QED BY <3>1, <4>1
    <3>5. deleted'.lives = s /\ deleted' \in [seq : 0..MaxSeq, lives : Seq(Dead)]
      <4> HIDE DEF Dead
      <4> QED BY <1>13, <3>3, <3>4
    <3> QED BY <2>2, <3>2, <3>4, <3>5
  <2> QED BY <2>1, <2>2
<1>15. FileType'
  <2>1. file' \in File
    BY <1>10, <1>11 DEF File
  <2> HIDE DEF Dead
  <2> QED BY <1>1, <1>14, <2>1 DEF FileType
<1>16. \A p \in Pages : file.at[p] # Nowhere => p <= file.size
  BY <1>3, FileIs DEF FileKept, Pages
<1>17. HeaderFor(c, x)
  <2>1. Len(deleted'.lives) = IF file'.state = "dir" THEN file'.life - 1 ELSE file'.life
    BY <1>12, <1>14 DEF FileKept
  <2>2. file.life <= file'.life /\ file'.life > 0
    BY <1>3, <1>12
  <2>3. HeaderSays(c)
    <3>1. file'.hole => file'.state = "dir"
      BY <1>12 DEF FileKept
    <3>2. file'.state = "cut" => file'.size = 0
      BY <1>12 DEF FileKept
    <3>3. c.gone <=> file'.state = "unlinked"
      BY <1>4, <1>5, <1>12
    <3>4. c \in Chunks /\ c.ok /\ c.page = 0 /\ c.val[1] = file'.life /\ c.size = file'.size /\ ~c.shrink
      BY <1>5, <1>12
    <3>5. file'.state \in {"dir", "cut", "unlinked"} /\ file'.life = file.life
      BY <1>2, <1>12
    <3> QED BY <2>2, <3>1, <3>2, <3>3, <3>4, <3>5 DEF HeaderSays
  <2>4. PagesKept
    BY <1>10, <1>12, <1>16 DEF PagesKept
  <2>5. HolesSaid(c)
    BY <1>10, <1>12 DEF HolesSaid
  <2> QED BY <1>10, <1>12, <2>1, <2>3, <2>4, <2>5 DEF HeaderFor
<1>18. DeadTold'
  <2> SUFFICES ASSUME NEW l \in 1..n
               PROVE  DeadIs(deleted.lives[l], Ending(l))'
    BY <1>14 DEF DeadTold
  <2>1. CASE l = file.life /\ file.state = "cut"
    <3> PICK d : d = deleted'.lives[l]
      OBVIOUS
    <3>1. ~d.told /\ d.at = deleted.lives[l].at
      BY <1>14, <2>1
    <3>2. deleted.lives[l].at \subseteq Nat \X Nat
      BY DeadIsTyped
    <3>3. \A m \in deleted.lives[l].at : Past(m)
      BY DEF DeadTold, DeadIs
    <3>4. DeadIs(d, TRUE)'
      BY <1>8, <3>1, <3>2, <3>3, DeadUntold
    <3>5. Ending(l)' = TRUE
      BY <1>12, <2>1 DEF Ending
    <3> QED BY <3>4, <3>5
  <2>2. CASE ~(l = file.life /\ file.state = "cut")
    <3>1. ~Ending(l) /\ ~Ending(l)'
      BY <1>12, <2>2 DEF Ending
    <3>2. deleted'.lives[l] = deleted.lives[l]
      BY <1>14, <2>2
    <3> QED BY <1>8, <3>1, <3>2, DeadKept
  <2> QED BY <2>1, <2>2
<1> QED BY <1>8, <1>9, <1>15, <1>17, <1>18, HeaderPut

(* A chunk of data is copied as it is.                                      *)
LEMMA CopyPageStep ==
    ASSUME IInv, NEW p \in Pages, Copy(p)
    PROVE  IInv'
<1> USE DEF IInv
<1> PICK z : z = file.at[p]
  OBVIOUS
<1>1. p \in 0..FilePages /\ p # 0 /\ p \in Nat /\ p > 0
  BY FileIs DEF Pages
<1>2. z # Nowhere /\ writes' = writes /\ deleted' = deleted
  BY <1>1 DEF Copy
<1> PICK c : c = At(z)
  OBVIOUS
<1>3. /\ c \in Chunks /\ c.ok /\ c.page = p /\ c.val[1] = file.life
      /\ file.state \in {"dir", "unlinked"} /\ p <= file.size
  <2>1. z \in Entries /\ c.page = p /\ c.val[1] = file.life /\ c.ok
    BY <1>1, <1>2 DEF FileKept, Of, Entries
  <2>2. c \in Chunks
    BY <2>1, EntryIs, PlaceTyped
  <2>3. ~(p > file.size) /\ file.state # "none"
    BY <1>1, <1>2 DEF FileKept
  <2>4. p <= file.size /\ file.size # 0
    BY <1>1, <2>3, FileIs
  <2>5. file.state # "cut"
    BY <2>4 DEF FileKept
  <2> QED BY <2>1, <2>2, <2>3, <2>4, <2>5, FileIs
<1>4. PICK b \in Open : Put(b, c) /\ file' = [file EXCEPT !.at[p] = PutAt(b)]
  BY <1>1 DEF Copy
<1>5. PICK x \in Nat \X Nat : x = PutAt(b) /\ Grown(x, c)
  BY <1>2, <1>3, <1>4, PutGrows
<1>6. ChipType'
  BY <1>2, <1>3, <1>4, PutTyped
<1> PICK f : f = [file.at EXCEPT ![p] = x]
  OBVIOUS
<1>7. f \in [0..FilePages -> Nat \X Nat]
  BY <1>1, FileIs
<1>8. file' = [file EXCEPT !.at = f] /\ file \in File
  BY <1>4, <1>5 DEF FileType, File
<1>9. /\ file'.state = file.state /\ file'.life = file.life /\ file'.size = file.size
      /\ file'.hole = file.hole /\ file'.at = f
  BY <1>8 DEF File
<1>10. DataFor(c, x, p)
  <2>1. file'.at = [file.at EXCEPT ![p] = x] /\ Len(deleted'.lives) = Len(deleted.lives)
    BY <1>2, <1>9
  <2>2. file'.size = file.size /\ p <= file.size /\ file'.hole \in {file.hole, FALSE}
    BY <1>3, <1>9
  <2> QED BY <1>3, <1>9, <2>1, <2>2 DEF DataFor
<1>11. FileType'
  <2>1. file' \in File
    BY <1>7, <1>8 DEF File
  <2> HIDE DEF Dead
  <2> QED BY <1>2, <2>1 DEF FileType
<1>12. DeadTold'
  BY <1>2, <1>3, <1>5, <1>9, DeadSame
<1> QED BY <1>5, <1>6, <1>10, <1>11, <1>12, DataPut

(* A block is erased, with nothing in it that is still needed.              *)
LEMMA EraseStep ==
    ASSUME IInv, NEW b \in 1..Blocks, Erase(b)
    PROVE  IInv'
<1> USE DEF IInv
<1>1. ChipType' /\ FileKept' /\ FileType'
  BY EraseTyped, EraseKeepsFile
<1>2. LivesInOrder' /\ EndsKept'
  BY EraseKeepsLives, EraseKeepsEnds
<1>3. FileTold' /\ HolesCut'
  BY EraseKeepsTold, EraseKeepsHoles
<1>4. DeadTold'
  <2>1. deleted'.lives = deleted.lives /\ file' = file
    <3> HIDE DEF Dead
    <3> QED BY DEF Erase, FileType
  <2> SUFFICES ASSUME NEW l \in 1..Len(deleted.lives)
               PROVE  DeadIs(deleted.lives[l], Ending(l))'
    BY <2>1 DEF DeadTold
  <2> PICK d : d = deleted.lives[l] /\ d = deleted'.lives[l]
    BY <2>1
  <2>2. d.at \subseteq Nat \X Nat /\ DeadIs(d, Ending(l))
    BY DeadIsTyped DEF DeadTold
  <2>3. CASE Ending(l)
    <3>1. Ending(l) = TRUE /\ Ending(l)' = TRUE /\ file.state = "cut"
      BY <2>1, <2>3 DEF Ending
    <3>2. DeadIs(d, TRUE)
      BY <2>2, <3>1
    <3>3. DeadIs(d, TRUE)'
      BY <2>2, <3>1, <3>2, DeadCutShrunk
    <3> QED BY <3>1, <3>3
  <2>4. CASE ~Ending(l)
    <3>1. Ending(l) = FALSE /\ Ending(l)' = FALSE
      BY <2>1, <2>4 DEF Ending
    <3>2. DeadIs(d, FALSE)
      BY <2>2, <3>1
    <3>3. DeadIs(d, FALSE)'
      BY <2>2, <3>2, DeadShrunk
    <3> QED BY <3>1, <3>3
  <2> QED BY <2>3, <2>4
<1> QED BY <1>1, <1>2, <1>3, <1>4

(* The flash is erased at first.                                            *)
LEMMA InitKept == FlashInit => IInv
<1> SUFFICES ASSUME FlashInit PROVE IInv
  OBVIOUS
<1> PICK e : e = [seq |-> 0, pages |-> <<>>]
  OBVIOUS
<1>1. chip = [b \in 1..Blocks |-> e] /\ now = 0 /\ writes = 0 /\ deleted = [seq |-> 0, lives |-> <<>>]
  BY DEF FlashInit
<1>2. e.seq = 0 /\ e.pages = <<>> /\ Len(e.pages) = 0
  OBVIOUS
<1>3. \A b \in 1..Blocks : chip[b] = e
  BY <1>1
<1>4. Used = {} /\ Places = {} /\ Entries = {}
  <2>1. Used = {}
    BY <1>2, <1>3 DEF Used
  <2>2. Places = {}
    BY <2>1, PlaceIs
  <2> QED BY <2>1, <2>2, EntryIs
<1>5. Headers(Entries) = {} /\ \A p : Copies(Entries, p) = {}
  BY <1>4 DEF Headers, Copies
<1>6. /\ file = [state |-> "none", life |-> 0, size |-> 0, hole |-> FALSE,
                 at |-> [p \in 0..FilePages |-> Nowhere]]
      /\ file.state = "none" /\ file.life = 0 /\ file.size = 0 /\ file.hole = FALSE
      /\ file.at = [p \in 0..FilePages |-> Nowhere]
  BY DEF FlashInit
<1>7. \A p \in 0..FilePages : file.at[p] = Nowhere
  BY <1>6
<1>8. deleted.seq = 0 /\ deleted.lives = <<>> /\ Len(deleted.lives) = 0
  BY <1>1
<1>9. ChipType
  <2>1. e \in [seq : 0..MaxSeq, pages : Seq(Chunks)]
    <3> HIDE DEF Chunks
    <3>1. <<>> \in Seq(Chunks)
      BY EmptySeq
    <3>2. 0 \in 0..MaxSeq
      BY FlashBounds
    <3> QED BY <3>1, <3>2
  <2>2. chip \in [1..Blocks -> [seq : 0..MaxSeq, pages : Seq(Chunks)]]
    <3> DEFINE R == [seq : 0..MaxSeq, pages : Seq(Chunks)]
    <3>1. e \in R
      BY <2>1
    <3> HIDE DEF R
    <3>2. chip \in [1..Blocks -> R]
      BY <1>1, <3>1
    <3> QED BY <3>2 DEF R
  <2>3. 0 \in 0..Blocks /\ 0 \in 0..MaxSeq
    BY FlashBounds
  <2> QED BY <1>1, <1>2, <1>3, <1>4, <1>8, <2>2, <2>3 DEF ChipType
<1>10. FileType
  <2>1. file \in File
    <3>1. Nowhere \in Nat \X Nat
      BY DEF Nowhere
    <3>2. [p \in 0..FilePages |-> Nowhere] \in [0..FilePages -> Nat \X Nat]
      BY <3>1
    <3>3. 0 \in 0..FilePages /\ 0 \in 0..MaxLives
      BY FlashBounds
    <3> QED BY <1>6, <3>2, <3>3 DEF File
  <2>2. writes \in 0..MaxWrites
    BY <1>1, FlashBounds
  <2>3. deleted \in [seq : 0..MaxSeq, lives : Seq(Dead)]
    <3> HIDE DEF Dead
    <3>1. <<>> \in Seq(Dead)
      BY EmptySeq
    <3>2. 0 \in 0..MaxSeq
      BY FlashBounds
    <3> QED BY <1>1, <3>1, <3>2
  <2> HIDE DEF Dead
  <2> QED BY <2>1, <2>2, <2>3 DEF FileType
<1>11. FileKept
  BY <1>6, <1>7, <1>8 DEF FileKept
<1>12. LivesInOrder /\ EndsKept
  BY <1>4 DEF LivesInOrder, EndsKept
<1>13. FileTold /\ HolesCut
  BY <1>6 DEF FileTold, HolesCut
<1>14. DeadTold
  BY <1>8 DEF DeadTold
<1> QED BY <1>9, <1>10, <1>11, <1>12, <1>13, <1>14 DEF IInv

(* A step that changes nothing.                                             *)
LEMMA StutterStep ==
    ASSUME IInv, UNCHANGED flash
    PROVE  IInv'
<1>1. chip' = chip /\ now' = now /\ file' = file /\ writes' = writes /\ deleted' = deleted
  BY DEF flash
<1>2. ChipType' /\ FileType'
  BY <1>1 DEF IInv, ChipType, FileType, Used, File, Dead, Contents, Chunks
<1>3. /\ Used' = Used /\ \A x : At(x)' = At(x) /\ Mark(x)' = Mark(x)
      /\ \A x, y : Older(x, y)' <=> Older(x, y)
      /\ \A m : Past(m)' <=> Past(m)
  BY <1>1 DEF Used, At, Mark, Older, Past
<1>4. Places' = Places
  BY <1>1, <1>3 DEF Places
<1>5. Entries' = Entries /\ \A x : Of(x)' = Of(x)
  BY <1>3, <1>4 DEF Entries, Of
<1>6. Headers(Entries)' = Headers(Entries) /\ \A p : Copies(Entries, p)' = Copies(Entries, p)
  BY <1>3, <1>5 DEF Headers, Copies
<1>7. FileKept' /\ LivesInOrder' /\ EndsKept'
  BY <1>1, <1>3, <1>5, <1>6 DEF IInv, FileKept, LivesInOrder, EndsKept
<1>8. FileTold' /\ HolesCut'
  BY <1>1, <1>3, <1>5, <1>6 DEF IInv, FileTold, HolesCut
<1>9. /\ \A S : Headers(S)' = Headers(S)
      /\ \A S, p : Copies(S, p)' = Copies(S, p)
      /\ \A S, y : Before(S, y)' = Before(S, y)
  BY <1>3 DEF Headers, Copies, Before
<1>10. \A S, K, h, held : Tells(S, K, h, held)' <=> Tells(S, K, h, held)
  BY <1>3, <1>9 DEF Tells, Pages
<1>11. /\ \A E : Before(Entries, E)' = Before(Entries, E)
       /\ \A at : Them(at)' = Them(at)
       /\ Marks' = Marks
  <2>1. \A E : Before(Entries, E)' = Before(Entries, E)
    BY <1>3, <1>5 DEF Before
  <2>2. \A at : Them(at)' = Them(at)
    BY <1>3, <1>4 DEF Them
  <2>3. Marks' = Marks
    BY <1>3, <1>4 DEF Marks
  <2> QED BY <2>1, <2>2, <2>3
<1>12. \A E, K, held : ToldUpTo(E, K, held)' <=> ToldUpTo(E, K, held)
  BY <1>3, <1>10, <1>11 DEF ToldUpTo
<1>13. \A D, E : Ended(D, E)' <=> Ended(D, E)
  BY <1>3, <1>5, <1>6 DEF Ended
<1>14. DeadTold'
  <2> SUFFICES ASSUME NEW l \in 1..Len(deleted.lives)
               PROVE  DeadIs(deleted.lives[l], Ending(l))'
    BY <1>1 DEF DeadTold
  <2> PICK d : d = deleted.lives[l] /\ d = deleted'.lives[l]
    BY <1>1
  <2>1. DeadIs(d, Ending(l))
    BY DEF IInv, DeadTold
  <2>2. Ending(l)' = Ending(l)
    BY <1>1 DEF Ending
  <2> PICK h : h = file.at[0] /\ h = file'.at[0]
    BY <1>1
  <2>3. DeadIs(d, Ending(l))'
    BY <1>3, <1>4, <1>11, <1>12, <1>13, <2>1, <2>2 DEF DeadIs, NoHole
  <2> QED BY <2>3
<1> QED BY <1>2, <1>7, <1>8, <1>14 DEF IInv

(* Every step of the driver keeps the invariant.                            *)
LEMMA StepKeeps == IInv /\ [FlashNext]_flash => IInv'
<1> SUFFICES ASSUME IInv, [FlashNext]_flash PROVE IInv'
  OBVIOUS
<1>1. CASE Create
  BY <1>1, CreateStep
<1>2. CASE \E p \in Pages : WritePage(p)
  BY <1>2, WritePageStep
<1>3. CASE HoleHeader
  BY <1>3, HoleHeaderStep
<1>4. CASE Flush
  BY <1>4, FlushStep
<1>5. CASE \E n \in 0..(FilePages - 1) : Truncate(n)
  BY <1>5, TruncateStep
<1>6. CASE DeleteCut
  BY <1>6, DeleteCutStep
<1>7. CASE Unlink
  BY <1>7, UnlinkStep
<1>8. CASE Delete
  BY <1>8, DeleteStep
<1>9. CASE \E p \in 0..FilePages : Copy(p)
  <2> PICK p \in 0..FilePages : Copy(p)
    BY <1>9
  <2>1. p = 0 \/ p \in Pages
    BY FlashBounds DEF Pages
  <2> QED BY <2>1, CopyHeaderStep, CopyPageStep
<1>10. CASE \E b \in 1..Blocks : Erase(b)
  BY <1>10, EraseStep
<1>11. CASE Torn
  BY <1>11, TornStep
<1>12. CASE UNCHANGED flash
  BY <1>12, StutterStep
<1> QED
  BY <1>1, <1>2, <1>3, <1>4, <1>5, <1>6, <1>7, <1>8, <1>9, <1>10, <1>11, <1>12 DEF FlashNext

(* The invariant holds in every state.                                      *)
LEMMA AlwaysKept == Spec => []IInv
  BY InitKept, StepKeeps, PTL DEF Spec

-----------------------------------------------------------------------------
(* What the walker makes of chunks that tell what a file held.              *)

(* What is made of them is what was held, where every chunk of a hole is cut*)
(* off.                                                                     *)
LEMMA ContentTold ==
    ASSUME ChipType, NEW S, S \subseteq Places, NEW K, NEW h, NEW held \in Contents,
           Tells(S, K, h, held),
           \A p \in Pages : held.pages[p] = Zeros /\ p <= held.size => \A x \in Copies(S, p) : CutOff(S, x)
    PROVE  /\ Newest(Headers(S)) = h /\ Stored(S) = held.size
           /\ \A p \in Pages : held.pages[p] # Zeros => Chunk(S, p) # Nowhere
           /\ Content(S) = held
<1>1. /\ K \subseteq S /\ h \in K /\ h \in S
      /\ h \in Headers(S) /\ \A g \in Headers(S) \ {h} : Older(g, h)
      /\ ~At(h).gone /\ At(h).size <= held.size
      /\ At(h).size = held.size \/ \E x \in K : At(x).page = held.size /\ Older(h, x)
      /\ \A y \in S \ Headers(S) : Older(h, y) => At(y).page <= held.size
  BY DEF Tells
<1>2. Headers(S) \subseteq S /\ \A p : Copies(S, p) \subseteq S
  BY EntryIs
<1>3. Newest(Headers(S)) = h
  BY <1>1, <1>2, NewestOnly
<1>4. /\ held.size \in 0..FilePages /\ held.size \in Nat /\ FilePages \in Nat
      /\ held.pages \in [Pages -> (0..MaxLives) \X (0..MaxWrites)]
      /\ held = [size |-> held.size, pages |-> held.pages]
  BY FlashBounds DEF Contents
<1>5. \A x \in S : At(x).page \in Nat /\ At(x).size \in Nat /\ x # Nowhere
  BY PlaceTyped, ChunkSays
<1>6. Stored(S) = held.size
  <2> DEFINE Q == {At(h).size} \cup {At(x).page : x \in {y \in S \ Headers(S) : Older(h, y)}}
  <2>1. Stored(S) = Max(Q)
    BY <1>3 DEF Stored
  <2>2. Q \subseteq Nat /\ Q # {} /\ \A q \in Q : q <= held.size
    BY <1>1, <1>5
  <2>3. held.size \in Q
    <3>1. CASE At(h).size = held.size
      BY <3>1
    <3>2. CASE \E x \in K : At(x).page = held.size /\ Older(h, x)
      <4> PICK x \in K : At(x).page = held.size /\ Older(h, x)
        BY <3>2
      <4>1. x \in S /\ x \in Places /\ h \in Places
        BY <1>1
      <4>2. x \notin Headers(S)
        BY <1>1, <4>1, OrderIs DEF Ordered
      <4> QED BY <4>1, <4>2
    <3> QED BY <1>1, <3>1, <3>2
  <2>4. Max(Q) \in Q /\ \A q \in Q : q <= Max(Q)
    <3> HIDE DEF Q
    <3> QED BY <1>4, <2>2, GreatestOf
  <2>5. Max(Q) <= held.size /\ held.size <= Max(Q) /\ Max(Q) \in Nat
    <3> HIDE DEF Q
    <3> QED BY <2>2, <2>3, <2>4
  <2> HIDE DEF Q
  <2> QED BY <1>4, <2>1, <2>5
<1>7. ASSUME NEW p \in Pages, held.pages[p] # Zeros
      PROVE  p <= held.size /\ Chunk(S, p) # Nowhere /\ At(Chunk(S, p)).val = held.pages[p]
  <2>1. p <= held.size
    BY <1>7 DEF Tells
  <2>2. PICK x \in K :
                   /\ At(x).page = p /\ At(x).val = held.pages[p]
                   /\ \A y \in Copies(S, p) \ {x} : Older(y, x)
                   /\ Older(x, h) => p <= At(h).size
                   /\ \A g \in Headers(S) :
                         Older(x, g) /\ (At(g).gone \/ At(g).shrink) => ~At(g).gone /\ p <= At(g).size
    BY <1>7 DEF Tells
  <2>3. x \in S /\ x \in Copies(S, p)
    BY <1>1, <2>2 DEF Copies
  <2>4. Newest(Copies(S, p)) = x
    BY <1>2, <2>2, <2>3, NewestOnly
  <2>5. ~CutOff(S, x)
    <3> SUFFICES ASSUME NEW g \in Headers(S), Older(x, g), Cuts(S, g),
                        p > (IF g = h THEN At(g).size ELSE CutsTo(g))
                 PROVE  FALSE
      BY <1>3, <2>2 DEF CutOff
    <3>1. p \in Nat /\ At(g).size \in Nat
      BY <1>2, <1>5, <2>2, <2>3
    <3>2. CASE g = h
      BY <2>2, <3>1, <3>2
    <3>3. CASE g # h
      <4>1. At(g).shrink \/ At(g).gone
        BY <1>3, <3>3 DEF Cuts
      <4>2. ~At(g).gone /\ p <= At(g).size
        BY <2>2, <4>1
      <4> QED BY <3>1, <3>3, <4>2 DEF CutsTo
    <3> QED BY <3>2, <3>3
  <2>6. Chunk(S, p) = x
    BY <2>3, <2>4, <2>5 DEF Chunk
  <2> QED BY <1>5, <2>1, <2>2, <2>3, <2>6
<1>8. ASSUME NEW p \in Pages, held.pages[p] = Zeros
      PROVE  p > held.size \/ Chunk(S, p) = Nowhere
  <2>1. p \in Nat
    BY DEF Pages
  <2>2. ASSUME p <= held.size PROVE Chunk(S, p) = Nowhere
    <3>1. CASE Copies(S, p) = {}
      BY <3>1 DEF Chunk
    <3>2. CASE Copies(S, p) # {}
      <4>1. Newest(Copies(S, p)) \in Copies(S, p)
        BY <1>2, <3>2, NewestIs
      <4>2. CutOff(S, Newest(Copies(S, p)))
        BY <1>8, <2>2, <4>1
      <4> QED BY <4>2 DEF Chunk
    <3> QED BY <3>1, <3>2
  <2> QED BY <1>4, <2>1, <2>2
<1> DEFINE f == [p \in Pages |->
         IF p > Stored(S) \/ Chunk(S, p) = Nowhere THEN Zeros ELSE At(Chunk(S, p)).val]
<1>9. f = held.pages
  <2>1. ASSUME NEW p \in Pages PROVE f[p] = held.pages[p]
    <3>1. p \in Nat
      BY DEF Pages
    <3>2. CASE held.pages[p] # Zeros
      BY <1>4, <1>6, <1>7, <3>1, <3>2
    <3>3. CASE held.pages[p] = Zeros
      BY <1>6, <1>8, <3>3
    <3> QED BY <3>2, <3>3
  <2>2. f = [p \in Pages |-> held.pages[p]]
    BY <2>1
  <2>3. held.pages = [p \in Pages |-> held.pages[p]]
    BY <1>4
  <2> HIDE DEF f
  <2> QED BY <2>2, <2>3
<1>10. Content(S) = [size |-> Stored(S), pages |-> f]
  BY DEF Content
<1> HIDE DEF f
<1> QED BY <1>3, <1>4, <1>6, <1>7, <1>9, <1>10

(* The file is listed and read as the device had it.                        *)
LEMMA HeldIsRead == IInv => ReadsAsHeld /\ TypeOK
<1> SUFFICES ASSUME IInv PROVE ReadsAsHeld /\ TypeOK
  OBVIOUS
<1>0. /\ ChipType /\ FileType /\ FileKept /\ LivesInOrder /\ EndsKept
      /\ FileTold /\ HolesCut /\ DeadTold
  BY DEF IInv
<1> PICK h : h = file.at[0]
  OBVIOUS
<1>1. Entries \subseteq Places /\ Headers(Entries) \subseteq Entries
  BY EntryIs
<1>2. ASSUME file.state \in {"dir", "cut"}
      PROVE  Listed(Entries) /\ Content(Entries) = Held
  <2>1. Tells(Entries, Live, h, Held)
    BY <1>0, <1>2, TellsNow
  <2>2. Held \in Contents
    BY <1>0, HeldTyped
  <2>3. ASSUME NEW p \in Pages, Held.pages[p] = Zeros, p <= Held.size,
               NEW x \in Copies(Entries, p)
        PROVE  CutOff(Entries, x)
    <3>1. file.at[p] = Nowhere /\ p <= file.size
      BY <1>0, <2>3, HeldTyped
    <3>2. file.state = "dir"
      <4>1. p > 0 /\ file.size # 0
        <5>1. p \in Nat /\ p > 0
          BY DEF Pages
        <5> QED BY <1>0, <3>1, <5>1, FileIs
      <4> QED BY <1>0, <1>2, <4>1 DEF FileKept
    <3>3. PICK g \in Headers(Entries) :
                    At(g).shrink /\ ~At(g).gone /\ At(g).size < p /\ Older(x, g)
      BY <1>0, <3>1, <3>2 DEF HolesCut
    <3>4. At(x).page = p /\ p \in Nat /\ At(g).size \in Nat
      <4>1. At(x).page = p /\ p \in Nat
        BY DEF Copies, Pages
      <4>2. g \in Places
        BY <1>1
      <4> QED BY <1>0, <4>1, <4>2, PlaceTyped, ChunkSays
    <3>5. Cuts(Entries, g) /\ CutsTo(g) = At(g).size
      BY <3>3 DEF Cuts, CutsTo
    <3>6. At(x).page > (IF g = Newest(Headers(Entries)) THEN At(g).size ELSE CutsTo(g))
      BY <3>3, <3>4, <3>5
    <3> QED BY <3>3, <3>5, <3>6 DEF CutOff
  <2>4. Newest(Headers(Entries)) = h /\ Content(Entries) = Held
    BY <1>0, <1>1, <2>1, <2>2, <2>3, ContentTold
  <2>5. h \in Headers(Entries) /\ ~At(h).gone
    BY <2>1 DEF Tells
  <2> QED BY <2>4, <2>5 DEF Listed
<1>3. ASSUME file.state \in {"none", "unlinked"}
      PROVE  ~Listed(Entries)
  <2> SUFFICES ASSUME Headers(Entries) # {} PROVE At(Newest(Headers(Entries))).gone
    BY DEF Listed
  <2> PICK n : n = Newest(Headers(Entries))
    OBVIOUS
  <2>1. n \in Headers(Entries) /\ n \in Entries /\ \A y \in Headers(Entries) \ {n} : Older(y, n)
    BY <1>0, <1>1, NewestIs
  <2>2. CASE file.state = "none"
    <3>1. PICK d \in Headers(Entries) : At(d).gone /\ (n = d \/ Older(n, d))
      BY <1>0, <2>1, <2>2 DEF EndsKept
    <3>2. n = d
      BY <1>0, <1>1, <2>1, <3>1, OrderIs DEF Ordered
    <3> QED BY <3>1, <3>2
  <2>3. CASE file.state = "unlinked"
    <3>1. /\ h # Nowhere /\ 0 \in 0..FilePages /\ At(h).gone
          /\ \A g \in Headers(Entries) \ {h} : Older(g, h)
      BY <1>0, <2>3, FileIs DEF FileKept
    <3>2. h \in Entries /\ At(h).page = 0
      BY <1>0, <3>1 DEF FileKept
    <3>3. h \in Headers(Entries)
      BY <3>2 DEF Headers
    <3>4. n = h
      BY <1>0, <1>1, <3>1, <3>3, NewestOnly
    <3> QED BY <3>1, <3>4
  <2> QED BY <1>3, <2>2, <2>3
<1>4. file.state \in {"none", "dir", "cut", "unlinked"}
  BY <1>0, FileIs
<1>5. ReadsAsHeld
  <2>1. Listed(Entries) <=> file.state \in {"dir", "cut"}
    BY <1>2, <1>3, <1>4
  <2> QED BY <1>2, <2>1 DEF ReadsAsHeld
<1>6. TypeOK
  <2>1. \A b \in Used : Len(chip[b].pages) \in 1..BlockPages
    BY <1>0 DEF ChipType, Used
  <2>2. Live \subseteq Entries /\ file.size \in 0..FilePages
    BY <1>0, LiveIs, FileIs
  <2>3. Listed(Entries) => Content(Entries) \in Contents
    BY <1>0, <1>2, <1>3, <1>4, HeldTyped
  <2> QED BY <1>4, <2>1, <2>2, <2>3 DEF TypeOK, Contents
<1> QED BY <1>5, <1>6

(* There are only so many places.                                           *)
LEMMA PlacesFinite ==
    ASSUME ChipType, NEW S, S \subseteq Places
    PROVE  IsFiniteSet(S)
<1>1. IsFiniteSet(1..Blocks) /\ IsFiniteSet(1..BlockPages)
  BY FlashBounds, FS_Interval
<1>2. IsFiniteSet((1..Blocks) \X (1..BlockPages))
  BY <1>1, FS_Product
<1>3. \A x \in Places : x \in (1..Blocks) \X (1..BlockPages)
  <2> SUFFICES ASSUME NEW x \in Places PROVE x \in (1..Blocks) \X (1..BlockPages)
    OBVIOUS
  <2>1. /\ x[1] \in 1..Blocks /\ x[2] \in 1..Len(chip[x[1]].pages) /\ x[2] \in Nat /\ x[2] <= BlockPages
        /\ x = <<x[1], x[2]>>
    BY PlaceTyped
  <2>2. x[2] \in 1..BlockPages
    BY <2>1, FlashBounds
  <2> QED BY <2>1, <2>2
<1>4. S \subseteq (1..Blocks) \X (1..BlockPages)
  BY <1>3
<1> QED BY <1>2, <1>4, FS_Subset

(* With two of them there are more than one.                                *)
LEMMA MoreThanOne ==
    ASSUME ChipType, NEW S, S \subseteq Places, NEW x \in S, NEW y \in S, x # y
    PROVE  Cardinality(S) > 1
<1>1. IsFiniteSet(S)
  BY PlacesFinite
<1>2. IsFiniteSet({x}) /\ Cardinality({x}) = 1
  BY FS_Singleton
<1>3. IsFiniteSet({x} \cup {y}) /\ Cardinality({x} \cup {y}) = 2
  <2>1. y \notin {x}
    OBVIOUS
  <2>2. Cardinality({x} \cup {y}) = Cardinality({x}) + 1 /\ IsFiniteSet({x} \cup {y})
    BY <1>2, <2>1, FS_AddElement
  <2> QED BY <1>2, <2>2
<1>4. Cardinality({x} \cup {y}) <= Cardinality(S)
  BY <1>1, FS_Subset
<1>5. Cardinality(S) \in Nat
  BY <1>1, FS_CardinalityType
<1> QED BY <1>3, <1>4, <1>5

(* The end of a life is a header of it, and a header of it is before.       *)
LEMMA EndIs ==
    ASSUME ChipType, FileType, LivesInOrder, EndsKept, NEW d \in Ends, Life(d) # {}
    PROVE  /\ EndOf(d) \in Headers(Entries) /\ Of(EndOf(d)) = Of(d)
           /\ Headers(Before(Entries, EndOf(d))) # {}
<1>1. /\ Headers(Entries) \subseteq Entries /\ Entries \subseteq Places
      /\ d \in Headers(Entries) /\ At(d).gone /\ At(d).page = 0
      /\ Life(d) \subseteq Headers(Entries)
  BY EntryIs DEF Ends, Life, Headers
<1>2. \A y \in Entries : Of(y) \in Nat /\ Of(y) <= file.life
  BY <1>1, PlaceTyped, ChunkSays DEF LivesInOrder, Of
<1>3. CASE ~CutByDelete(d)
  <2>1. EndOf(d) = d
    BY <1>3 DEF EndOf
  <2>2. PICK g \in Life(d) : TRUE
    OBVIOUS
  <2>3. g \in Headers(Entries) /\ Older(g, d) /\ g \in Entries /\ At(g).page = 0
    BY <1>1, <2>2 DEF Life, Headers
  <2>4. g \in Headers(Before(Entries, d))
    BY <2>3 DEF Headers, Before
  <2> QED BY <1>1, <2>1, <2>4
<1>4. CASE CutByDelete(d)
  <2> PICK h : h = Newest(Life(d))
    OBVIOUS
  <2>1. EndOf(d) = h /\ Cardinality(Life(d)) > 1
    BY <1>4 DEF EndOf, CutByDelete
  <2>2. h \in Life(d) /\ \A y \in Life(d) \ {h} : Older(y, h)
    BY <1>1, NewestIs
  <2>3. /\ h \in Headers(Entries) /\ h \in Entries /\ Older(h, d) /\ ~At(h).gone
        /\ \A e \in Ends : Older(e, d) => Older(e, h)
    BY <1>1, <2>2 DEF Life
  <2>4. Of(h) <= Of(d)
    BY <1>1, <2>3 DEF LivesInOrder
  <2>5. ASSUME Of(h) < Of(d) PROVE FALSE
    <3>1. Of(h) < file.life
      BY <1>1, <1>2, <2>3, <2>5, FileIs
    <3>2. PICK e \in Headers(Entries) : At(e).gone /\ Of(e) = Of(h) /\ (h = e \/ Older(h, e))
      BY <2>3, <3>1 DEF EndsKept
    <3>3. e \in Ends /\ e \in Entries /\ Older(h, e)
      BY <1>1, <2>3, <3>2 DEF Ends
    <3>4. e # d /\ ~Older(d, e)
      BY <1>1, <1>2, <2>3, <2>5, <3>2, <3>3 DEF LivesInOrder
    <3>5. Older(e, d)
      BY <1>1, <3>3, <3>4, OrderIs DEF Ordered
    <3>6. Older(e, h)
      BY <2>3, <3>3, <3>5
    <3> QED BY <1>1, <2>3, <3>3, <3>6, OrderIs DEF Ordered
  <2>6. Of(h) = Of(d)
    BY <1>1, <1>2, <2>3, <2>4, <2>5
  <2>7. PICK g \in Life(d) : g # h
    <3>1. SUFFICES ASSUME \A g \in Life(d) : g = h PROVE FALSE
      OBVIOUS
    <3>2. Life(d) = {h}
      BY <2>2, <3>1
    <3>3. Cardinality({h}) = 1
      BY FS_Singleton
    <3> QED BY <2>1, <3>2, <3>3
  <2>8. g \in Entries /\ At(g).page = 0 /\ Older(g, h)
    BY <1>1, <2>2, <2>7 DEF Headers
  <2>9. g \in Headers(Before(Entries, h))
    BY <2>8 DEF Headers, Before
  <2> QED BY <2>1, <2>3, <2>6, <2>9
<1> QED BY <1>3, <1>4

(* What is stored has as many pages as a file may have.                     *)
LEMMA StoredIs ==
    ASSUME ChipType, NEW S, S \subseteq Places, Headers(S) # {}
    PROVE  Stored(S) \in 0..FilePages
<1> PICK h : h = Newest(Headers(S))
  OBVIOUS
<1>1. h \in S
  BY EntryIs, NewestIs
<1> DEFINE Q == {At(h).size} \cup {At(x).page : x \in {y \in S \ Headers(S) : Older(h, y)}}
<1>2. \A x \in S : /\ At(x).page \in 0..FilePages /\ At(x).size \in 0..FilePages
                   /\ At(x).page \in Nat /\ At(x).size \in Nat
  BY PlaceTyped, ChunkSays
<1>3. Q \subseteq Nat /\ Q # {} /\ FilePages \in Nat /\ \A q \in Q : q <= FilePages
  BY <1>1, <1>2, FlashBounds
<1>4. Stored(S) = Max(Q)
  BY DEF Stored
<1>5. Max(Q) \in Q
  <2> HIDE DEF Q
  <2> QED BY <1>3, GreatestOf
<1>6. Max(Q) \in Nat /\ Max(Q) <= FilePages
  <2> HIDE DEF Q
  <2> QED BY <1>3, <1>5
<1> HIDE DEF Q
<1> QED BY <1>3, <1>4, <1>6

(* A chunk that is taken for a page of a file that ended is of its life:    *)
(* what is of one before is cut off by the header that ended that.          *)
LEMMA OneLife == IInv => OneLifeEach
<1> SUFFICES ASSUME IInv, NEW r \in Recovered, NEW p \in 1..r.held.size
             PROVE  r.held.pages[p][1] = r.life
  BY DEF OneLifeEach
<1>0. ChipType /\ FileType /\ FileKept /\ LivesInOrder /\ EndsKept
  BY DEF IInv
<1>1. PICK d \in {e \in Ends : Life(e) # {} /\ Whole(Before(Entries, EndOf(e)))} :
            r = [held |-> Content(Before(Entries, EndOf(d))), life |-> At(d).val[1]]
  BY DEF Recovered
<1>2. d \in Ends /\ Life(d) # {} /\ Whole(Before(Entries, EndOf(d)))
  OBVIOUS
<1> PICK E : E = EndOf(d)
  OBVIOUS
<1> PICK S : S = Before(Entries, E)
  OBVIOUS
<1>3. /\ E \in Headers(Entries) /\ Of(E) = Of(d) /\ Headers(S) # {} /\ Whole(S)
      /\ r.held = Content(S) /\ r.life = Of(d)
  BY <1>0, <1>1, <1>2, EndIs DEF Of
<1>4. /\ S \subseteq Entries /\ Entries \subseteq Places /\ Headers(Entries) \subseteq Entries
      /\ E \in Entries /\ \A x \in S : Older(x, E)
  BY <1>3, EntryIs DEF Before
<1>5. Stored(S) \in 0..FilePages
  BY <1>0, <1>3, <1>4, StoredIs
<1>6. r.held.size = Stored(S) /\ p \in Pages /\ ~(p > Stored(S)) /\ p > 0
  <2>1. r.held.size = Stored(S)
    BY <1>3 DEF Content
  <2> QED BY <1>5, <2>1, FlashBounds DEF Pages
<1> PICK x : x = Chunk(S, p)
  OBVIOUS
<1>7. x # Nowhere /\ r.held.pages[p] = At(x).val
  <2>1. x # Nowhere
    BY <1>3, <1>6 DEF Whole
  <2> QED BY <1>3, <1>6, <2>1 DEF Content
<1>8. Copies(S, p) # {} /\ x = Newest(Copies(S, p)) /\ ~CutOff(S, x)
  BY <1>7 DEF Chunk
<1>9. x \in Copies(S, p)
  <2>1. Copies(S, p) \subseteq Places
    BY <1>4, EntryIs
  <2> QED BY <1>0, <1>8, <2>1, NewestIs
<1>10. x \in S /\ x \in Entries /\ At(x).page = p /\ Older(x, E)
  BY <1>4, <1>9 DEF Copies
<1>11. \A y \in Entries : Of(y) \in Nat /\ Of(y) <= file.life
  BY <1>0, <1>4, PlaceTyped, ChunkSays DEF LivesInOrder, Of
<1>12. Of(x) <= Of(E)
  BY <1>0, <1>4, <1>10 DEF LivesInOrder
<1>13. ASSUME Of(x) < Of(E) PROVE FALSE
  <2>1. Of(x) < file.life
    BY <1>0, <1>4, <1>10, <1>11, <1>13, FileIs
  <2>2. PICK e \in Headers(Entries) :
            /\ At(e).gone /\ At(e).size = 0 /\ Of(e) = Of(x)
            /\ x = e \/ Older(x, e)
    BY <1>0, <1>10, <2>1 DEF EndsKept
  <2>3. e \in Entries /\ At(e).page = 0
    BY <2>2, EntryIs DEF Headers
  <2>4. Older(x, e)
    BY <1>6, <1>10, <2>2, <2>3
  <2>5. e # E /\ ~Older(E, e)
    BY <1>0, <1>4, <1>11, <1>10, <1>13, <2>2, <2>3 DEF LivesInOrder
  <2>6. Older(e, E)
    BY <1>0, <1>4, <2>3, <2>5, OrderIs DEF Ordered
  <2>7. e \in Headers(S)
    BY <2>3, <2>6 DEF Headers, Before
  <2>8. Cuts(S, e) /\ CutsTo(e) = 0
    BY <2>2 DEF Cuts, CutsTo
  <2>9. At(x).page > (IF e = Newest(Headers(S)) THEN At(e).size ELSE CutsTo(e))
    BY <1>6, <1>10, <2>2, <2>8
  <2> QED BY <1>8, <2>4, <2>7, <2>8, <2>9 DEF CutOff
<1>14. Of(x) = Of(d)
  BY <1>3, <1>4, <1>10, <1>11, <1>12, <1>13
<1> QED BY <1>3, <1>7, <1>14 DEF Of

(* The end the walker takes a life for is the one its chunks are told up to.*)
LEMMA EndFound ==
    ASSUME ChipType, NEW D \in Places, NEW E \in Places, Ended(D, E),
           NEW K, NEW h, NEW held, Tells(Before(Entries, E), K, h, held), At(h).size > 0
    PROVE  D \in Ends /\ Life(D) # {} /\ EndOf(D) = E
<1> PICK S : S = Before(Entries, E)
  OBVIOUS
<1>1. /\ D \in Headers(Entries) /\ At(D).gone /\ E \in Headers(Entries) /\ D \in Ends
      /\ \/ E = D
         \/ /\ ~At(E).gone /\ ~At(E).shrink /\ At(E).size = 0 /\ Older(E, D)
            /\ \A x \in Entries : ~(Older(E, x) /\ Older(x, D))
  BY DEF Ended, Ends
<1>2. /\ Headers(Entries) \subseteq Entries /\ Entries \subseteq Places
      /\ Life(D) \subseteq Headers(Entries)
  BY EntryIs DEF Life
<1>3. h \in Headers(S) /\ ~At(h).gone /\ \A g \in Headers(S) \ {h} : Older(g, h)
  BY DEF Tells
<1>4. \A g : g \in Headers(S) <=> g \in Headers(Entries) /\ Older(g, E)
  BY DEF Headers, Before
<1>5. h \in Headers(Entries) /\ h \in Places /\ Older(h, E) /\ Older(h, D)
  <2>1. h \in Headers(Entries) /\ Older(h, E) /\ h \in Places
    BY <1>2, <1>3, <1>4
  <2> QED BY <1>1, <2>1, OrderIs DEF Ordered
<1>6. ASSUME NEW e \in Ends, Older(e, D) PROVE Older(e, h) /\ Older(e, E)
  <2>1. e \in Headers(Entries) /\ At(e).gone /\ e \in Entries /\ e \in Places
    BY <1>2 DEF Ends
  <2>2. Older(e, E)
    <3>1. CASE E = D
      BY <1>6, <3>1
    <3>2. CASE E # D
      <4>1. e # E /\ ~Older(E, e)
        BY <1>1, <1>6, <2>1, <3>2
      <4> QED BY <2>1, <4>1, OrderIs DEF Ordered
    <3> QED BY <3>1, <3>2
  <2>3. e \in Headers(S) /\ e # h
    BY <1>3, <1>4, <2>1, <2>2
  <2> QED BY <1>3, <2>2, <2>3
<1>7. h \in Life(D)
  BY <1>3, <1>5, <1>6 DEF Life
<1>8. CASE E = D
  <2>1. \A g \in Life(D) \ {h} : Older(g, h)
    BY <1>2, <1>3, <1>4, <1>8 DEF Life
  <2>2. Newest(Life(D)) = h
    BY <1>2, <1>7, <2>1, NewestOnly
  <2>3. ~CutByDelete(D)
    <3>1. At(h).size # 0
      BY <1>5, PlaceTyped, ChunkSays
    <3> QED BY <2>2, <3>1 DEF CutByDelete
  <2> QED BY <1>1, <1>7, <1>8, <2>3 DEF EndOf
<1>9. CASE E # D
  <2>1. ~At(E).gone /\ ~At(E).shrink /\ At(E).size = 0 /\ Older(E, D)
        /\ \A x \in Entries : ~(Older(E, x) /\ Older(x, D))
    BY <1>1, <1>9
  <2>2. E \in Life(D)
    BY <1>1, <1>6, <2>1 DEF Life
  <2>3. ASSUME NEW g \in Life(D), g # E PROVE Older(g, E)
    <3>1. g \in Entries /\ Older(g, D) /\ g \in Places
      BY <1>2 DEF Life
    <3>2. ~Older(E, g)
      BY <2>1, <3>1
    <3> QED BY <2>3, <3>1, <3>2, OrderIs DEF Ordered
  <2>4. Newest(Life(D)) = E
    BY <1>2, <2>2, <2>3, NewestOnly
  <2>5. h # E
    BY <1>5, OrderIs DEF Ordered
  <2>6. Cardinality(Life(D)) > 1
    BY <1>2, <1>7, <2>2, <2>5, MoreThanOne
  <2>7. CutByDelete(D)
    BY <2>1, <2>4, <2>6 DEF CutByDelete
  <2> QED BY <1>1, <1>7, <2>4, <2>7 DEF EndOf
<1> QED BY <1>8, <1>9

(* A dead file is given back, since its chunks tell it up to its end.       *)
LEMMA GivenBack == IInv => WholeIsGivenBack
<1> SUFFICES ASSUME IInv, NEW l \in 1..Len(deleted.lives),
                    deleted.lives[l].at \subseteq {<<chip[x[1]].seq, x[2]>> : x \in Places},
                    l < file.life \/ file.state = "none",
                    deleted.lives[l].told,
                    \A p \in 1..deleted.lives[l].held.size : deleted.lives[l].held.pages[p] # Zeros
             PROVE  \E r \in Recovered : r.held = deleted.lives[l].held
  BY DEF WholeIsGivenBack
<1>0. ChipType /\ FileType /\ DeadTold
  BY DEF IInv
<1> PICK d : d = deleted.lives[l]
  OBVIOUS
<1>1. d.at \subseteq Marks /\ d.told /\ NoHole(d.held)
  BY DEF Marks, Mark, NoHole
<1>2. Ending(l) = FALSE
  <2>1. l \in Nat /\ file.life \in Nat
    BY <1>0, FileIs
  <2> QED BY <2>1 DEF Ending
<1>3. DeadIs(d, FALSE)
  <2>1. DeadIs(d, Ending(l))
    BY <1>0 DEF DeadTold
  <2> QED BY <1>2, <2>1
<1>4. PICK D, E \in Places : Ended(D, E) /\ ToldUpTo(E, Them(d.at), d.held)
  BY <1>1, <1>3 DEF DeadIs
<1> PICK K : K = Them(d.at)
  OBVIOUS
<1>5. PICK h \in K : Tells(Before(Entries, E), K, h, d.held) /\ At(h).size > 0
  BY <1>4 DEF ToldUpTo
<1>6. D \in Ends /\ Life(D) # {} /\ EndOf(D) = E
  BY <1>0, <1>4, <1>5, EndFound
<1> PICK S : S = Before(Entries, E)
  OBVIOUS
<1>7. S \subseteq Places
  BY EntryIs
<1>8. d.held \in Contents
  BY <1>0, DeadIsTyped
<1>9. d.held.size \in 0..FilePages /\ d.held.size \in Nat
  BY <1>8, FlashBounds DEF Contents
<1>10. \A p \in Pages : p <= d.held.size => d.held.pages[p] # Zeros
  BY <1>1, <1>9 DEF NoHole, Pages
<1>11. Tells(S, K, h, d.held)
  BY <1>5
<1>12. /\ Stored(S) = d.held.size /\ Content(S) = d.held
       /\ \A p \in Pages : d.held.pages[p] # Zeros => Chunk(S, p) # Nowhere
  BY <1>0, <1>7, <1>8, <1>10, <1>11, ContentTold
<1>13. Whole(S)
  BY <1>9, <1>10, <1>12, FlashBounds DEF Whole, Pages
<1> PICK r : r = [held |-> Content(Before(Entries, EndOf(D))), life |-> At(D).val[1]]
  OBVIOUS
<1>14. Whole(Before(Entries, EndOf(D)))
  BY <1>6, <1>13
<1>15. r \in Recovered
  BY <1>6, <1>14 DEF Recovered
<1>16. r.held = d.held
  BY <1>6, <1>12
<1> QED BY <1>15, <1>16

-----------------------------------------------------------------------------
(* What is there is of its type, on every flash: no chunk the driver goes   *)
(* by is lost, and a file that is listed reads as a file can be.            *)
THEOREM YaffsTypeCorrect == Spec => []TypeOK
<1>1. IInv => TypeOK
  BY HeldIsRead
<1> QED BY <1>1, AlwaysKept, PTL

(* _scan2() and _take2(): the file is listed when the device has it and     *)
(* reads as the device had it, whichever step of its driver it stopped at.  *)
THEOREM YaffsReadsAsHeld == Spec => []ReadsAsHeld
<1>1. IInv => ReadsAsHeld
  BY HeldIsRead
<1> QED BY <1>1, AlwaysKept, PTL

(* recover_deleted(): no page of a deleted file that is given back is of    *)
(* another that had its object id before or since.                          *)
THEOREM YaffsOneLifeEach == Spec => []OneLifeEach
  BY OneLife, AlwaysKept, PTL

(* recover_deleted() and _deleted2(): a deleted file with no holes whose    *)
(* size a header tells is given back as it was while its chunks are there.  *)
THEOREM YaffsWholeIsGivenBack == Spec => []WholeIsGivenBack
  BY GivenBack, AlwaysKept, PTL

=============================================================================
