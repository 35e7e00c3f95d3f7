---------------------------- MODULE Output_proof ----------------------------
(***************************************************************************)
(* What extract_to_zip() keeps for every volume, every cut of the image and *)
(* every set of unreadable blocks: its state is well formed, the zip keeps  *)
(* ZipPromise unless a copy fails, and the member of a file that Qnx6Walker *)
(* reads and that is counted whole holds the file (Extraction).             *)
(*                                                                          *)
(* Then, from the line that says so, what the Report pane keeps (Window).   *)
(***************************************************************************)
EXTENDS Extraction, Window, Numbers_proof, FiniteSetTheorems

(* What the assumption says of the constants, one fact at a time.           *)
LEMMA ConstantsType ==
    /\ BS \in Nat /\ BS > 0
    /\ Blocks \subseteq Nat
    /\ Hole \notin Blocks
    /\ Listing \in Seq(Nodes)
    BY ExtractionAssumption DEF LayoutOK

(* The parts of an inode the volume holds.                                  *)
LEMMA LayoutType ==
    ASSUME NEW n \in Nodes
    PROVE  /\ Layout[n].regular \in BOOLEAN
           /\ Layout[n].inode \in Blocks
           /\ Layout[n].upto \in 1..BS
           /\ Layout[n].size \in Nat
           /\ Layout[n].blocks \in Seq(MapEntry)
           /\ \A j \in 0..Layout[n].size :
                 j < Len(Layout[n].blocks) <=> j * BS < Layout[n].size
    BY ExtractionAssumption DEF LayoutOK

(* Least() gives one of two numbers, and none is below it.                  *)
LEMMA LeastType ==
    ASSUME NEW x \in Int, NEW y \in Int
    PROVE  /\ Least(x, y) \in Int
           /\ Least(x, y) <= x /\ Least(x, y) <= y
           /\ Least(x, y) \in {x, y}
    BY DEF Least

(* A read gives at most a block, and what it lacks of one is the shortfall  *)
(* of read_at().                                                            *)
LEMMA HereType ==
    ASSUME len \in Nat, NEW b \in Blocks
    PROVE  /\ Here(b) \in 0..BS /\ Got(b) \in 0..BS /\ Shortfall(b) \in 0..BS
           /\ b \notin bad => Got(b) = Here(b) /\ Shortfall(b) = BS - Here(b)
<1> DEFINE at == b * BS
<1>1. at \in Nat /\ BS \in Nat
    BY ConstantsType
<1>2. Here(b) = IF len <= at THEN 0 ELSE Least(len - at, BS)
    BY DEF Here
<1> HIDE DEF at
<1>3. Here(b) \in 0..BS
    BY <1>1, <1>2 DEF Least
<1> QED
    BY <1>1, <1>3 DEF Got, Shortfall

(* A fetch keeps the type of the tally and the cache, and the tally never   *)
(* falls.                                                                   *)
LEMMA FetchType ==
    ASSUME len \in Nat, tally \in Nat, cached \in SUBSET Blocks, NEW b \in Blocks, Fetch(b)
    PROVE  /\ tally' \in Nat /\ tally' >= tally
           /\ cached' \in SUBSET Blocks
           /\ kind = "qnx6" => tally' = tally + Shortfall(b)
<1>1. Shortfall(b) \in Nat
    BY HereType, ConstantsType
<1> QED
    BY <1>1 DEF Fetch

(* Where extract_to_zip() and read_file() are: an entry is being dealt with *)
(* and, while it is mapped, some of it is left to read.                     *)
Where ==
    /\ pc \in {"map", "store", "report"} => k <= Len(entries)
    /\ pc = "map" => Left(Len(spool))

TInv == TypeOK /\ Where

(* While a file is being mapped there is a next chunk, and it takes some of *)
(* the file.                                                                *)
LEMMA ChunkType ==
    ASSUME TInv, pc = "map"
    PROVE  /\ Node \in Nodes /\ Size \in Nat
           /\ Take \in Nat /\ Take <= BS /\ Take > 0
           /\ Len(spool) + 1 \in DOMAIN Layout[Node].blocks
           /\ Chunk \in MapEntry
<1>1. Node \in Nodes
    BY DEF TInv, TypeOK, Where, Node
<1>2. Size \in Nat
    BY <1>1, LayoutType DEF Size
<1> DEFINE read == Len(spool)
           at == read * BS
<1>3. read \in Nat /\ BS \in Nat /\ BS > 0
    BY ConstantsType DEF TInv, TypeOK
<1>4. at \in Nat /\ at >= read
    BY <1>3
<1>5. at < Size
    BY DEF TInv, Where, Left
<1>6. read < Len(Layout[Node].blocks)
    BY <1>1, <1>2, <1>3, <1>4, <1>5, LayoutType DEF Size
<1>7. Layout[Node].blocks \in Seq(MapEntry)
    BY <1>1, LayoutType
<1>8. Len(spool) + 1 \in DOMAIN Layout[Node].blocks /\ Chunk \in MapEntry
    BY <1>3, <1>6, <1>7 DEF Chunk
<1>9. Take = Least(BS, Size - at)
    BY DEF Take
<1> HIDE DEF at, read
<1>10. Take \in Nat /\ Take <= BS /\ Take > 0
    BY <1>2, <1>3, <1>4, <1>5, <1>9 DEF Least
<1> QED
    BY <1>1, <1>2, <1>8, <1>10

(* A yielded chunk keeps the type of the spool, and of where the file is    *)
(* at.                                                                      *)
LEMMA YieldType ==
    ASSUME TInv, pc = "map", NEW real \in Nat, Yield(real), k' = k, entries' = entries
    PROVE  /\ spool' \in Seq(Chunks) /\ depth' \in Nat \ {0}
           /\ pc' \in {"map", "store"}
           /\ pc' = "map" => Left(Len(spool))'
<1>1. Take \in Nat
    BY ChunkType
<1>2. [take |-> Take, real |-> real] \in Chunks
    BY <1>1 DEF Chunks
<1>3. spool \in Seq(Chunks)
    BY DEF TInv, TypeOK
<1>4. spool' \in Seq(Chunks) /\ Len(spool') = Len(spool) + 1
    BY <1>2, <1>3 DEF Yield
<1>5. pc' = "map" => Left(Len(spool) + 1)
    BY DEF Yield
<1> QED
    BY <1>4, <1>5 DEF Yield, Left, Size, Node

(* The type invariant holds when the extraction begins.                     *)
LEMMA TypeInit == Init => TInv
<1> SUFFICES ASSUME Init PROVE TypeOK /\ Where
    BY DEF TInv
<1>1. counts \in Tallies
    BY DEF Init, Tallies
<1>2. kind \in {"qnx6", "f2fs"}
    BY ExtractionAssumption DEF Init, LayoutOK
<1>3. len \in Nat
    BY DEF Init
<1>4. k \in 1..(Len(Listing) + 1)
    BY ConstantsType DEF Init
<1> QED
    BY <1>1, <1>2, <1>3, <1>4 DEF Init, TypeOK, Where

(* The number of bytes a SHORT name claims is a number, never below zero    *)
(* (the floor of 12712).                                                    *)
LEMMA SaysType ==
    ASSUME TypeOK, Size \in Nat
    PROVE  Says \in Nat /\ Says <= Size
    BY DEF Says, Least, TypeOK

(* A member of the zip is one.                                              *)
LEMMA MemberType ==
    ASSUME NEW says \in Nat, NEW chunks \in Seq(Chunks), TypeOK, pc # "collect"
    PROVE  Member(says, chunks) \in Members
    BY DEF Member, Members, TypeOK

(* A count that goes up is still a count.                                   *)
LEMMA CountedType ==
    ASSUME counts \in Tallies
    PROVE  \A what \in {"files", "skipped", "failed", "short"} : Counted(what) \in Tallies
    BY DEF Tallies, Counted

(* Bytes added to the tally leave a tally.                                  *)
LEMMA WrittenType ==
    ASSUME NEW c \in Tallies, NEW n \in Nat
    PROVE  [c EXCEPT !.written = @ + n] \in Tallies
    BY DEF Tallies

(* Every step keeps the type invariant: one case for each action of the     *)
(* extraction.                                                              *)
LEMMA TypeStep == TInv /\ [Next]_vars => TInv'
<1> SUFFICES ASSUME TInv, [Next]_vars
             PROVE  TInv'
    OBVIOUS
<1> USE DEF TInv
<1>1. CASE Collect
  <2>1. Listing[k] \in Nodes
      BY <1>1, ConstantsType DEF Collect, TypeOK
  <2>2. Layout[Listing[k]].inode \in Blocks
      BY <2>1, LayoutType
  <2>3. tally' \in Nat /\ tally' >= tally /\ cached' \in SUBSET Blocks
      BY <1>1, <2>2, FetchType DEF Collect, TypeOK
  <2>4. entries' \in Seq(Nodes)
      BY <1>1, <2>1 DEF Collect, TypeOK
  <2>5. k' \in 1..(Len(Listing) + 1) /\ pc' = "collect"
      BY <1>1, ConstantsType DEF Collect, TypeOK
  <2> QED
      BY <1>1, <2>3, <2>4, <2>5 DEF Collect, TypeOK, Where, image
<1>2. CASE Begin
    BY <1>2 DEF Begin, TypeOK, Where, listed
<1>3. CASE Skip
  <2>1. outcome' \in Seq(Outcomes)
      BY <1>3 DEF Skip, TypeOK, Outcomes
  <2>2. counts' \in Tallies
      BY <1>3, CountedType DEF Skip, TypeOK
  <2> QED
      BY <1>3, <2>1, <2>2 DEF Skip, TypeOK, Where, listed
<1>4. CASE Open
  <2>1. Node \in Nodes
      BY <1>4 DEF Open, TypeOK, Node
  <2>2. Layout[Node].inode \in Blocks
      BY <2>1, LayoutType
  <2>3. tally' \in Nat /\ tally' >= tally /\ cached' \in SUBSET Blocks
      BY <1>4, <2>2, FetchType DEF Open, TypeOK
  <2>4. spool' = << >> /\ Len(spool') = 0 /\ spool' \in Seq(Chunks)
      BY <1>4 DEF Open
  <2>5. pc' = "map" => Left(Len(spool))'
      BY <1>4, <2>4 DEF Open, Left, Size, Node, listed
  <2> QED
      BY <1>4, <2>3, <2>4, <2>5 DEF Open, TypeOK, Where, listed
<1>14. FollowPointer \/ YieldHole \/ ReadData
       => pc = "map" /\ UNCHANGED <<kind, len, bad, entries, k, before, zip, outcome, counts, last>>
    BY DEF FollowPointer, YieldHole, ReadData, listed
<1>15. YieldHole => tally' \in Nat /\ tally' >= tally /\ cached' = cached
  <2>1. tally \in Nat /\ BS \in Nat
      BY ConstantsType DEF TypeOK
  <2> QED
      BY <2>1 DEF YieldHole
<1>5. CASE FollowPointer
  <2>1. Chunk \in MapEntry /\ Take \in Nat
      BY <1>5, ChunkType DEF FollowPointer
  <2>2. Chunk.ptrs[depth] \in Blocks
      BY <1>5, <2>1 DEF FollowPointer, TypeOK, MapEntry
  <2>3. tally' \in Nat /\ tally' >= tally /\ cached' \in SUBSET Blocks
      BY <1>5, <2>2, FetchType DEF FollowPointer, TypeOK
  <2>4. CASE Got(Chunk.ptrs[depth]) < BS
    <3>1. Yield(0) /\ pc = "map" /\ k' = k /\ entries' = entries
        BY <1>5, <2>4 DEF FollowPointer, listed
    <3>2. /\ spool' \in Seq(Chunks) /\ depth' \in Nat \ {0}
          /\ pc' \in {"map", "store"} /\ (pc' = "map" => Left(Len(spool))')
        BY <3>1, YieldType
    <3> QED
        BY <1>5, <1>14, <2>3, <3>2 DEF TypeOK, Where
  <2>5. CASE ~(Got(Chunk.ptrs[depth]) < BS)
      BY <1>5, <2>3, <2>5 DEF FollowPointer, TypeOK, Where, listed, Left, Size, Node
  <2> QED
      BY <2>4, <2>5
<1>6. CASE YieldHole
  <2>1. Take \in Nat
      BY <1>6, ChunkType DEF YieldHole
  <2>2. Yield(Take) /\ pc = "map" /\ k' = k /\ entries' = entries
      BY <1>6 DEF YieldHole, listed
  <2>3. /\ spool' \in Seq(Chunks) /\ depth' \in Nat \ {0}
        /\ pc' \in {"map", "store"} /\ (pc' = "map" => Left(Len(spool))')
      BY <2>1, <2>2, YieldType
  <2> QED
      BY <1>6, <1>14, <1>15, <2>3 DEF TypeOK, Where
<1>7. CASE ReadData
  <2>1. Chunk \in MapEntry /\ Take \in Nat
      BY <1>7, ChunkType DEF ReadData
  <2>2. Chunk.data \in Blocks
      BY <1>7, <2>1 DEF ReadData, MapEntry
  <2>3. tally' \in Nat /\ tally' >= tally /\ cached' \in SUBSET Blocks
      BY <1>7, <2>2, FetchType DEF ReadData, TypeOK
  <2> DEFINE real == Least(Got(Chunk.data), Take)
  <2>4. real \in Nat
      <3>1. len \in Nat /\ BS \in Nat
          BY ConstantsType DEF TypeOK
      <3>2. Got(Chunk.data) \in 0..BS
          BY <2>2, <3>1, HereType
      <3> QED
          BY <2>1, <3>1, <3>2 DEF Least
  <2>5. Yield(real) /\ pc = "map" /\ k' = k /\ entries' = entries
      BY <1>7 DEF ReadData, listed
  <2> HIDE DEF real
  <2>6. /\ spool' \in Seq(Chunks) /\ depth' \in Nat \ {0}
        /\ pc' \in {"map", "store"} /\ (pc' = "map" => Left(Len(spool))')
      BY <2>4, <2>5, YieldType
  <2> QED
      BY <1>7, <1>14, <2>3, <2>6 DEF TypeOK, Where
<1>8. CASE ReadRaises
  <2>1. outcome' \in Seq(Outcomes)
      BY <1>8 DEF ReadRaises, TypeOK, Outcomes
  <2>2. counts' \in Tallies
      BY <1>8, CountedType DEF ReadRaises, TypeOK
  <2> QED
      BY <1>8, <2>1, <2>2 DEF ReadRaises, TypeOK, Where, listed
<1>9. CASE Store
  <2>1. Node \in Nodes
      BY <1>9 DEF Store, TypeOK, Where, Node
  <2>2. Size \in Nat
      BY <2>1, LayoutType DEF Size
  <2>3. Says \in Nat
      BY <2>2, SaysType
  <2>4. spool \in Seq(Chunks) /\ zip \in Seq(Members) /\ pc # "collect"
      BY <1>9 DEF Store, TypeOK
  <2>8. Member(Says, spool) \in Members
      BY <2>3, <2>4, MemberType
  <2>7. zip' \in Seq(Members)
      BY <1>9, <2>4, <2>8 DEF Store
  <2>5. outcome' \in Seq(Outcomes)
      BY <1>9 DEF Store, TypeOK, Outcomes
  <2>6. counts' \in Tallies
      BY <1>9, <2>2, <2>3, CountedType, WrittenType DEF Store, TypeOK
  <2> QED
      BY <1>9, <2>5, <2>6, <2>7 DEF Store, TypeOK, Where, listed
<1>10. CASE StoreRaises
  <2>1. Node \in Nodes
      BY <1>10 DEF StoreRaises, TypeOK, Where, Node
  <2>2. Size \in Nat
      BY <2>1, LayoutType DEF Size
  <2>3. Says \in Nat
      BY <2>2, SaysType
  <2>4. spool \in Seq(Chunks) /\ zip \in Seq(Members) /\ pc # "collect"
      BY <1>10 DEF StoreRaises, TypeOK
  <2>5. zip' \in Seq(Members)
    <3>1. CASE zip' = zip
        BY <2>4, <3>1
    <3>2. ASSUME NEW n \in 0..Len(spool), zip' = Append(zip, Member(Says, SubSeq(spool, 1, n)))
          PROVE  zip' \in Seq(Members)
      <4>1. SubSeq(spool, 1, n) \in Seq(Chunks)
          BY <2>4
      <4>2. Member(Says, SubSeq(spool, 1, n)) \in Members
          BY <2>3, <2>4, <4>1, MemberType
      <4> QED
          BY <2>4, <3>2, <4>2
    <3> QED
        BY <1>10, <3>1, <3>2 DEF StoreRaises
  <2>6. outcome' \in Seq(Outcomes)
      BY <1>10 DEF StoreRaises, TypeOK, Outcomes
  <2>7. counts' \in Tallies
      BY <1>10, CountedType DEF StoreRaises, TypeOK
  <2> QED
      BY <1>10, <2>5, <2>6, <2>7 DEF StoreRaises, TypeOK, Where, listed
<1>11. CASE Report
  <2>1. <<counts.files, counts.written>> \in Nat \X Nat
      BY DEF TypeOK, Tallies
  <2>2. last' \in {<< >>} \cup (Nat \X Nat)
      BY <1>11, <2>1 DEF Report, TypeOK
  <2>3. k' \in 1..(Len(entries) + 1)
      BY <1>11 DEF Report, TypeOK, Where
  <2> QED
      BY <1>11, <2>2, <2>3 DEF Report, TypeOK, Where, listed
<1>12. CASE Return
    BY <1>12 DEF Return, TypeOK, Where, listed
<1>13. CASE UNCHANGED vars
    BY <1>13 DEF vars, TypeOK, Where, Left, Size, Node
<1> QED
    BY <1>1, <1>2, <1>3, <1>4, <1>5, <1>6, <1>7, <1>8, <1>9, <1>10, <1>11, <1>12,
       <1>13 DEF Next

(* The state is always of its type.                                         *)
THEOREM TypeCorrect == Spec => []TypeOK
<1>1. TInv => TypeOK
    BY DEF TInv
<1> QED
    BY TypeInit, TypeStep, <1>1, PTL DEF Spec

-----------------------------------------------------------------------------
(* Every entry but the one at hand has its outcome, and every member is of  *)
(* an entry that has one.                                                   *)
Dealt ==
    /\ pc = "collect" => outcome = << >> /\ zip = << >>
    /\ pc \in {"entry", "map", "store", "done"} => Len(outcome) = k - 1
    /\ pc = "report" => Len(outcome) = k

Told == \A m \in DOMAIN zip : zip[m].entry \in DOMAIN outcome

PInv == TInv /\ Dealt /\ Told

Entries == [m \in DOMAIN zip |-> zip[m].entry]

(* The extraction begins where ZipPromise does.                             *)
LEMMA PromiseInit == Init => PInv /\ Promise!Init
<1> SUFFICES ASSUME Init PROVE PInv /\ Promise!Init
    OBVIOUS
<1>1. [m \in DOMAIN zip |-> zip[m].entry] = << >> /\ DOMAIN zip = {}
    BY DEF Init
<1> QED
    BY <1>1, TypeInit DEF Init, PInv, Dealt, Told, Promise!Init

(* The entries of the members, seen by ZipPromise, grow by one as the zip   *)
(* does.                                                                    *)
LEMMA EntriesAppend ==
    ASSUME zip \in Seq(Members), NEW says, NEW chunks,
           zip' = Append(zip, Member(says, chunks))
    PROVE  Entries' = Append(Entries, k)
<1>1. /\ DOMAIN zip' = DOMAIN zip \cup {Len(zip) + 1}
      /\ \A m \in DOMAIN zip : zip'[m] = zip[m]
      /\ zip'[Len(zip) + 1] = Member(says, chunks)
    OBVIOUS
<1>2. Member(says, chunks).entry = k
    BY DEF Member
<1>3. Len(Entries) = Len(zip) /\ Entries \in Seq({zip[m].entry : m \in DOMAIN zip})
    BY DEF Entries
<1> QED
    BY <1>1, <1>2, <1>3 DEF Entries

(* An outcome more, and perhaps the member of its entry, change nothing of  *)
(* the members there are, nor of what became of their entries.              *)
LEMMA ToldGoesOn ==
    ASSUME zip \in Seq(Members), outcome \in Seq(Outcomes), Told,
           NEW o, outcome' = Append(outcome, o),
           zip' = zip \/ \E m : zip' = Append(zip, m) /\ m.entry = Len(outcome) + 1
    PROVE  /\ Told'
           /\ \A m \in DOMAIN zip : /\ m \in DOMAIN zip' /\ zip'[m] = zip[m]
                                    /\ outcome'[zip[m].entry] = outcome[zip[m].entry]
<1>1. /\ DOMAIN outcome' = DOMAIN outcome \cup {Len(outcome) + 1}
      /\ \A i \in DOMAIN outcome : outcome'[i] = outcome[i]
    OBVIOUS
<1>2. CASE zip' = zip
    BY <1>1, <1>2 DEF Told
<1>3. ASSUME NEW m, zip' = Append(zip, m), m.entry = Len(outcome) + 1
      PROVE  /\ Told'
             /\ \A h \in DOMAIN zip : h \in DOMAIN zip' /\ zip'[h] = zip[h]
  <2>1. /\ DOMAIN zip' = DOMAIN zip \cup {Len(zip) + 1}
        /\ \A h \in DOMAIN zip : zip'[h] = zip[h]
        /\ zip'[Len(zip) + 1] = m
      BY <1>3
  <2> QED
      BY <1>1, <1>3, <2>1 DEF Told
<1> QED
    BY <1>1, <1>2, <1>3 DEF Told

(* What the storing of an entry does: its outcome, and a member or none.    *)
LEMMA StoreGives ==
    ASSUME PInv, Store \/ StoreRaises
    PROVE  /\ pc = "store" /\ pc' = "report" /\ k' = k /\ k <= Len(entries)
           /\ UNCHANGED <<kind, len, bad, entries, tally, before, cached, spool>>
           /\ k = Len(outcome) + 1 /\ outcome \in Seq(Outcomes) /\ zip \in Seq(Members)
           /\ \/ /\ Store
                 /\ zip' = Append(zip, Member(Says, spool))
                 /\ \/ outcome' = Append(outcome, "short") /\ Says < Size
                    \/ outcome' = Append(outcome, "whole") /\ ~(Says < Size)
              \/ /\ \/ \E n \in 0..Len(spool) :
                          zip' = Append(zip, Member(Says, SubSeq(spool, 1, n)))
                    \/ zip' = zip
                 /\ outcome' = Append(outcome, "unstored")
<1>1. pc = "store"
    BY DEF Store, StoreRaises
<1>2. /\ k <= Len(entries) /\ k \in Nat /\ Len(outcome) = k - 1
      /\ outcome \in Seq(Outcomes) /\ zip \in Seq(Members)
    BY <1>1 DEF PInv, Dealt, TInv, TypeOK, Where
<1>3. CASE Store
    BY <1>1, <1>2, <1>3 DEF Store, listed
<1>4. CASE StoreRaises
    BY <1>1, <1>2, <1>4 DEF StoreRaises, listed
<1> QED
    BY <1>3, <1>4

(* Every step of the extraction is one ZipPromise allows, or the failure of *)
(* a copy, or a stutter.                                                    *)
LEMMA PromiseStep ==
    PInv /\ [Next]_vars => PInv' /\ [Promise!Next \/ CopyFails]_(Promise!promise)
<1> SUFFICES ASSUME PInv, [Next]_vars
             PROVE  PInv' /\ [Promise!Next \/ CopyFails]_(Promise!promise)
    OBVIOUS
<1>0. TInv' /\ zip \in Seq(Members) /\ outcome \in Seq(Outcomes) /\ Told
    BY TypeStep DEF PInv, TInv, TypeOK
<1>2. CASE UNCHANGED vars
    BY <1>0, <1>2 DEF vars, PInv, Dealt, Told, Promise!promise
<1>3. CASE Collect
  <2>1. outcome = << >> /\ outcome' = << >> /\ zip' = zip /\ pc' = "collect" /\ zip = << >>
      BY <1>3 DEF Collect, PInv, Dealt
  <2>2. Len(entries') = Len(entries) + 1 \/ entries' = entries
      BY <1>3, ConstantsType DEF Collect, PInv, TInv, TypeOK
  <2>3. PInv'
      BY <1>0, <2>1 DEF PInv, Dealt, Told
  <2> QED
      BY <2>1, <2>2, <2>3 DEF Promise!Next, Promise!List, Promise!promise
<1>4. CASE Begin \/ Open \/ FollowPointer \/ YieldHole \/ ReadData \/ Report \/ Return
  <2>1. UNCHANGED <<entries, outcome, zip>>
      BY <1>4 DEF Begin, Open, FollowPointer, YieldHole, ReadData, Report, Return, listed
  <2>2. Dealt'
    <3>1. CASE Begin
        BY <3>1 DEF Begin, PInv, Dealt
    <3>2. CASE Open \/ FollowPointer \/ YieldHole \/ ReadData
      <4>1. pc \in {"entry", "map"} /\ pc' \in {"map", "store"} /\ k' = k
          BY <3>2 DEF Open, FollowPointer, YieldHole, ReadData, Yield
      <4> QED
          BY <2>1, <4>1 DEF PInv, Dealt
    <3>3. CASE Report
        BY <2>1, <3>3 DEF Report, PInv, Dealt, TInv, TypeOK
    <3>4. CASE Return
        BY <2>1, <3>4 DEF Return, PInv, Dealt
    <3> QED
        BY <1>4, <3>1, <3>2, <3>3, <3>4
  <2> QED
      BY <1>0, <2>1, <2>2 DEF PInv, Told, Promise!promise
<1>5. CASE Skip \/ ReadRaises
  <2>1. /\ pc \in {"entry", "map"} /\ UNCHANGED <<entries, zip>> /\ k <= Len(entries)
        /\ outcome' = Append(outcome, "skipped") \/ outcome' = Append(outcome, "unread")
      BY <1>5 DEF Skip, ReadRaises, listed, PInv, TInv, Where
  <2>2. Len(outcome) = k - 1 /\ k \in Nat /\ Len(entries) \in Nat
      BY <2>1 DEF PInv, Dealt, TInv, TypeOK
  <2>3. Len(outcome') = Len(outcome) + 1
      BY <1>0, <2>1
  <2>4. Dealt'
      BY <1>5, <2>2, <2>3 DEF Skip, ReadRaises, Dealt
  <2>5. Promise!Deal
      BY <2>1, <2>2 DEF Promise!Deal, Promise!Drop, Promise!Settle
  <2>6. Told'
      BY <1>0, <2>1, ToldGoesOn
  <2> QED
      BY <1>0, <2>4, <2>5, <2>6 DEF PInv, Promise!Next
<1>6. CASE Store \/ StoreRaises
  <2>1. /\ pc' = "report" /\ k' = k /\ UNCHANGED entries /\ k <= Len(entries)
        /\ k = Len(outcome) + 1
        /\ \/ /\ zip' = Append(zip, Member(Says, spool))
              /\ outcome' = Append(outcome, "short") \/ outcome' = Append(outcome, "whole")
           \/ /\ \/ \E n \in 0..Len(spool) :
                       zip' = Append(zip, Member(Says, SubSeq(spool, 1, n)))
                 \/ zip' = zip
              /\ outcome' = Append(outcome, "unstored")
      BY <1>6, StoreGives
  <2>2. Len(outcome') = Len(outcome) + 1 /\ Len(outcome) < Len(entries)
      BY <1>0, <2>1 DEF PInv, TInv, TypeOK
  <2>3. Dealt'
      BY <2>1, <2>2 DEF Dealt
  <2>4. ASSUME NEW says, NEW chunks PROVE Member(says, chunks).entry = k
      BY DEF Member
  <2>5. Told'
      BY <1>0, <2>1, <2>4, ToldGoesOn
  <2>6. zip' # zip => Entries' = Append(Entries, Len(outcome) + 1)
      BY <1>0, <2>1, EntriesAppend
  <2>7. zip' = zip => Entries' = Entries
      BY DEF Entries
  <2>8. Promise!Deal \/ CopyFails
    <3>1. CASE /\ zip' = Append(zip, Member(Says, spool))
               /\ outcome' = Append(outcome, "short") \/ outcome' = Append(outcome, "whole")
      <4>1. zip' # zip
          BY <1>0, <3>1
      <4> QED
          BY <2>1, <2>2, <2>6, <3>1, <4>1 DEF Promise!Deal, Promise!Keep, Promise!Settle,
                                              Promise!AddMember, Entries
    <3>2. CASE zip' = zip /\ outcome' = Append(outcome, "unstored")
        BY <2>1, <2>2, <2>7, <3>2 DEF Promise!Deal, Promise!Drop, Promise!Settle, Entries
    <3>3. CASE zip' # zip /\ outcome' = Append(outcome, "unstored")
        BY <2>1, <2>2, <2>6, <3>3 DEF CopyFails, Promise!Keep, Promise!Settle,
                                      Promise!AddMember, Entries
    <3> QED
        BY <2>1, <3>1, <3>2, <3>3
  <2> QED
      BY <1>0, <2>3, <2>5, <2>8 DEF PInv, Promise!Next
<1> QED
    BY <1>2, <1>3, <1>4, <1>5, <1>6 DEF Next

(* Every step of an extraction is one ZipPromise allows, but for the        *)
(* failure of a copy: the entries are settled in order, once each, and the  *)
(* zip has the members of the entries stored.  What a failed copy leaves in *)
(* it ZipPromise rules out; FailedAreLeftOut is false for it.               *)
THEOREM PromiseKeptUnlessACopyFails == Spec => KeepsThePromiseButForCopies
    BY PromiseInit, PromiseStep, PTL DEF Spec, KeepsThePromiseButForCopies

-----------------------------------------------------------------------------
(* A cut file never passes for a whole one.  What makes WholeIsWhole        *)
(* inductive: the chunks in the spool are those of the open file so far,    *)
(* and each is all there, or an unreadable block stood on the way to it, or *)
(* read_at() has tallied something since the file was opened.               *)
Fine(chunk, n, j) == chunk.real = TakeOf(n, j) \/ Unreadable(n, j)

Fits ==
    pc \in {"map", "store"} =>
        /\ Len(spool) <= Len(Layout[Node].blocks)
        /\ \A j \in 1..Len(spool) : spool[j].take = TakeOf(Node, j)

ReadSoFar ==
    pc \in {"map", "store"} /\ kind = "qnx6"
    => tally > before \/ \A j \in 1..Len(spool) : Fine(spool[j], Node, j)

AllRead == pc = "store" => ~Left(Len(spool))

HInv == PInv /\ Fits /\ ReadSoFar /\ AllRead /\ WholeIsWhole

(* A block that is whole in the image, or that read_at() could not read.    *)
Settled(c) == Here(c) = BS \/ c \in bad

(* What an inode's map names: its pointer blocks and its data.              *)
Body(n) == UNION {Ptrs(n, j) \cup {Data(n, j)} : j \in DOMAIN Layout[n].blocks}

(* What FetchType leaves out: the cache grows by the block read at most,    *)
(* and a block that is not whole was tallied, unreadable, or cached before. *)
LEMMA FetchSettles ==
    ASSUME TInv, NEW b \in Blocks, Fetch(b)
    PROVE  /\ cached' \subseteq cached \cup {b}
           /\ tally' > tally \/ (kind = "f2fs" /\ b \in cached) \/ Settled(b)
<1>1. /\ len \in Nat /\ tally \in Nat /\ BS \in Nat
    BY ConstantsType DEF TInv, TypeOK
<1>2. Here(b) \in 0..BS /\ (b \notin bad => Shortfall(b) = BS - Here(b))
    BY <1>1, HereType
<1>3. (kind = "f2fs" /\ b \in cached) \/ tally' = tally + Shortfall(b)
    BY DEF Fetch
<1>4. b \notin bad /\ Here(b) # BS => Shortfall(b) > 0 /\ Shortfall(b) \in Int
    BY <1>1, <1>2
<1>5. tally' > tally \/ (kind = "f2fs" /\ b \in cached) \/ Settled(b)
    BY <1>1, <1>3, <1>4 DEF Settled
<1> QED
    BY <1>5 DEF Fetch

(* The blocks that are read for the next chunk are of the file's body.      *)
LEMMA ChunkInBody ==
    ASSUME TInv, pc = "map"
    PROVE  /\ \A i \in DOMAIN Chunk.ptrs : Chunk.ptrs[i] \in Body(Node)
           /\ Chunk.data \in Body(Node)
<1> DEFINE j == Len(spool) + 1
<1>1. j \in DOMAIN Layout[Node].blocks
    BY ChunkType
<1>2. Ptrs(Node, j) \subseteq Body(Node) /\ Data(Node, j) \in Body(Node)
    BY <1>1 DEF Body
<1>3. (\A i \in DOMAIN Chunk.ptrs : Chunk.ptrs[i] \in Ptrs(Node, j)) /\ Chunk.data = Data(Node, j)
    BY DEF Ptrs, Data, Chunk
<1> QED
    BY <1>2, <1>3

(* The chunk that is read next takes what the file has of its block.        *)
LEMMA NextTake ==
    ASSUME TInv, pc = "map"
    PROVE  TakeOf(Node, Len(spool) + 1) = Take
<1>1. (Len(spool) + 1) - 1 = Len(spool)
    BY DEF TInv, TypeOK
<1> QED
    BY <1>1 DEF TakeOf, Take, Size

(* Reading a pointer block or a data block: the block is of the file, and   *)
(* the chunk it gives, if it gives one, is fine when the block is settled.  *)
LEMMA BlockRead ==
    ASSUME TInv, FollowPointer \/ ReadData
    PROVE  \E b \in Body(Node) \cap Blocks :
              /\ Fetch(b)
              /\ \/ spool' = spool /\ pc' = pc
                 \/ \E real \in Nat :
                       /\ Yield(real)
                       /\ Settled(b) => Fine([take |-> Take, real |-> real], Node, Len(spool) + 1)
<1>1. pc = "map"
    BY DEF FollowPointer, ReadData
<1>2. /\ Chunk \in MapEntry /\ Take \in Nat /\ Take <= BS /\ BS \in Nat /\ BS > 0
      /\ len \in Nat /\ depth \in Nat \ {0}
    BY <1>1, ChunkType, ConstantsType DEF TInv, TypeOK
<1>3. CASE FollowPointer
  <2> DEFINE p == Chunk.ptrs[depth]
  <2>1. depth \in DOMAIN Chunk.ptrs /\ p \in Blocks
      BY <1>2, <1>3 DEF MapEntry, FollowPointer
  <2>2. Fetch(p) /\ p \in Body(Node) /\ p \in Ptrs(Node, Len(spool) + 1)
      BY <1>1, <1>3, <2>1, ChunkInBody DEF FollowPointer, Ptrs, Chunk
  <2>3. (Got(p) < BS /\ Yield(0)) \/ (spool' = spool /\ pc' = pc)
      BY <1>3 DEF FollowPointer
  <2> HIDE DEF p
  <2>4. Got(p) < BS /\ Settled(p) => p \in bad
      BY <1>2 DEF Settled, Got
  <2>5. p \in bad => Unreadable(Node, Len(spool) + 1)
      BY <2>2 DEF Unreadable
  <2> QED
      BY <2>1, <2>2, <2>3, <2>4, <2>5 DEF Fine
<1>4. CASE ReadData
  <2> DEFINE d == Chunk.data
             real == Least(Got(d), Take)
  <2>1. Fetch(d) /\ Yield(real) /\ d \in Blocks /\ d \in Body(Node)
      BY <1>1, <1>2, <1>4, ChunkInBody DEF ReadData, MapEntry
  <2>2. Got(d) \in 0..BS /\ (d \notin bad => Got(d) = Here(d))
      BY <1>2, <2>1, HereType
  <2>3. Data(Node, Len(spool) + 1) = d
      BY DEF Data, Chunk
  <2>4. d \in bad => Unreadable(Node, Len(spool) + 1)
      BY <2>3 DEF Unreadable
  <2>5. real \in Nat /\ (Settled(d) /\ d \notin bad => real = Take)
      BY <1>2, <2>2 DEF Settled, Least
  <2>6. TakeOf(Node, Len(spool) + 1) = Take
      BY <1>1, NextTake
  <2> HIDE DEF d, real
  <2> QED
      BY <2>1, <2>4, <2>5, <2>6 DEF Fine
<1> QED
    BY <1>3, <1>4

(* What the steps that read the file leave alone, and that the tally never  *)
(* falls.                                                                   *)
LEMMA ReadLeaves ==
    ASSUME TInv, FollowPointer \/ ReadData \/ YieldHole
    PROVE  /\ pc = "map" /\ pc' \in {"map", "store"}
           /\ UNCHANGED <<kind, len, bad, entries, k, before, zip, outcome>>
           /\ tally' \in Nat /\ tally' >= tally
<1>1. /\ pc = "map" /\ pc' \in {"map", "store"}
      /\ UNCHANGED <<kind, len, bad, entries, k, before, zip, outcome>>
    BY DEF FollowPointer, ReadData, YieldHole, Yield, listed
<1>2. tally \in Nat /\ BS \in Nat /\ len \in Nat /\ cached \in SUBSET Blocks
    BY ConstantsType DEF TInv, TypeOK
<1>3. FollowPointer \/ ReadData => tally' \in Nat /\ tally' >= tally
    BY <1>2, BlockRead, FetchType
<1>4. YieldHole => tally' \in Nat /\ tally' >= tally
    BY <1>2 DEF YieldHole
<1> QED
    BY <1>1, <1>3, <1>4

(* A hole is the file's own zeros.                                          *)
LEMMA HoleRead ==
    ASSUME TInv, YieldHole
    PROVE  /\ Take \in Nat /\ Yield(Take)
           /\ Fine([take |-> Take, real |-> Take], Node, Len(spool) + 1)
    BY ChunkType, NextTake DEF YieldHole, Fine

(* The spool with the chunk yielded.                                        *)
LEMMA YieldAppends ==
    ASSUME TInv, pc = "map", NEW real \in Nat, Yield(real)
    PROVE  /\ spool \in Seq(Chunks) /\ Len(spool') = Len(spool) + 1
           /\ \A j \in 1..Len(spool) : spool'[j] = spool[j]
           /\ spool'[Len(spool) + 1] = [take |-> Take, real |-> real]
           /\ TakeOf(Node, Len(spool) + 1) = Take
           /\ Len(spool) + 1 <= Len(Layout[Node].blocks)
<1>1. spool \in Seq(Chunks) /\ spool' = Append(spool, [take |-> Take, real |-> real])
    BY DEF Yield, TInv, TypeOK
<1>2. Take \in Nat /\ Len(spool) + 1 \in DOMAIN Layout[Node].blocks /\ Node \in Nodes
    BY ChunkType
<1>3. [take |-> Take, real |-> real] \in Chunks
    BY <1>2 DEF Chunks
<1>4. Layout[Node].blocks \in Seq(MapEntry)
    BY <1>2, LayoutType
<1> QED
    BY <1>1, <1>2, <1>3, <1>4, NextTake

(* Whether a chunk is fine does not change while the file is read.          *)
LEMMA FineIsStable ==
    ASSUME UNCHANGED <<bad, entries, k>>
    PROVE  /\ Node' = Node
           /\ \A j, c : Fine(c, Node, j)' <=> Fine(c, Node, j)
    BY DEF Fine, Unreadable, Node, Ptrs, Data, TakeOf

(* Reading on keeps what is known of the spool, when the chunk that is      *)
(* added is fine or something was tallied.                                  *)
LEMMA ReadingGoesOn ==
    ASSUME TInv, Fits, ReadSoFar, pc = "map", pc' \in {"map", "store"},
           UNCHANGED <<kind, bad, entries, k, before>>, tally' \in Nat, tally' >= tally,
           \/ spool' = spool /\ pc' = pc
           \/ \E real \in Nat :
                 /\ Yield(real)
                 /\ kind = "qnx6" => \/ tally' > before
                                     \/ Fine([take |-> Take, real |-> real], Node, Len(spool) + 1)
    PROVE  Fits' /\ ReadSoFar' /\ AllRead'
<1>1. tally \in Nat /\ before \in Nat /\ spool \in Seq(Chunks)
    BY DEF TInv, TypeOK
<1>2. Node' = Node /\ \A j, c : Fine(c, Node, j)' <=> Fine(c, Node, j)
    BY FineIsStable
<1>3. CASE spool' = spool /\ pc' = pc
    BY <1>1, <1>2, <1>3 DEF Fits, ReadSoFar, AllRead, TakeOf
<1>4. ASSUME NEW real \in Nat, Yield(real),
             kind = "qnx6" => \/ tally' > before
                              \/ Fine([take |-> Take, real |-> real], Node, Len(spool) + 1)
      PROVE  Fits' /\ ReadSoFar' /\ AllRead'
  <2> DEFINE n == Len(spool)
  <2>1. /\ Len(spool') = n + 1 /\ \A j \in 1..n : spool'[j] = spool[j]
        /\ spool'[n + 1] = [take |-> Take, real |-> real]
        /\ TakeOf(Node, n + 1) = Take /\ n + 1 <= Len(Layout[Node].blocks)
        /\ n \in Nat
      BY <1>1, <1>4, YieldAppends
  <2>2. pc' = "map" <=> Left(Len(spool) + 1)
      BY <1>4 DEF Yield
  <2> HIDE DEF n
  <2>3. Fits'
      BY <1>2, <2>1 DEF Fits, TakeOf, n
  <2>4. ReadSoFar'
    <3> SUFFICES ASSUME kind = "qnx6", ~(tally' > before)
                 PROVE  \A j \in 1..(n + 1) : Fine(spool'[j], Node, j)
        BY <1>2, <2>1 DEF ReadSoFar, Fine, Unreadable, Ptrs, Data, TakeOf
    <3>1. \A j \in 1..n : Fine(spool[j], Node, j)
        BY <1>1 DEF ReadSoFar, n
    <3> QED
        BY <1>4, <2>1, <3>1 DEF n
  <2>5. AllRead'
      BY <1>2, <2>1, <2>2 DEF AllRead, Left, Size, n
  <2> QED
      BY <2>3, <2>4, <2>5
<1> QED
    BY <1>3, <1>4

(* Qnx6Walker's steps keep what is known of the spool: a block that is not  *)
(* settled was tallied.                                                     *)
LEMMA ReadKeeps ==
    ASSUME TInv, Fits, ReadSoFar, FollowPointer \/ ReadData \/ YieldHole
    PROVE  Fits' /\ ReadSoFar' /\ AllRead'
<1>1. /\ pc = "map" /\ pc' \in {"map", "store"}
      /\ UNCHANGED <<kind, len, bad, entries, k, before, zip, outcome>>
      /\ tally' \in Nat /\ tally' >= tally
    BY ReadLeaves
<1>2. tally \in Nat /\ before \in Nat /\ before <= tally
    BY DEF TInv, TypeOK
<1>3. CASE YieldHole
    BY <1>1, <1>3, HoleRead, ReadingGoesOn
<1>4. CASE FollowPointer \/ ReadData
  <2>1. PICK b \in Body(Node) \cap Blocks :
              /\ Fetch(b)
              /\ \/ spool' = spool /\ pc' = pc
                 \/ \E real \in Nat :
                       /\ Yield(real)
                       /\ Settled(b) => Fine([take |-> Take, real |-> real], Node, Len(spool) + 1)
      BY <1>4, BlockRead
  <2>2. kind = "qnx6" => tally' > before \/ Settled(b)
      BY <1>1, <1>2, <2>1, FetchSettles
  <2> QED
      BY <1>1, <2>1, <2>2, ReadingGoesOn
<1> QED
    BY <1>3, <1>4

(* The members there are keep what they hold, and their entries what became *)
(* of them, at every step once the list is whole.                           *)
LEMMA OldMembers ==
    ASSUME PInv, [Next]_vars
    PROVE  \A m \in DOMAIN zip :
              /\ m \in DOMAIN zip' /\ zip'[m] = zip[m]
              /\ kind' = kind /\ entries' = entries
              /\ CountedWhole(m)' <=> CountedWhole(m)
              /\ Holds(m)' <=> Holds(m)
<1>0. zip \in Seq(Members) /\ outcome \in Seq(Outcomes) /\ Told
    BY DEF PInv, TInv, TypeOK
<1>1. CASE Collect
  <2>1. DOMAIN zip = {}
      BY <1>1 DEF Collect, PInv, Dealt
  <2> QED
      BY <2>1
<1>2. ASSUME UNCHANGED <<kind, bad, entries>>,
             \A m \in DOMAIN zip : /\ m \in DOMAIN zip' /\ zip'[m] = zip[m]
                                   /\ outcome'[zip[m].entry] = outcome[zip[m].entry]
      PROVE  \A m \in DOMAIN zip :
              /\ m \in DOMAIN zip' /\ zip'[m] = zip[m]
              /\ kind' = kind /\ entries' = entries
              /\ CountedWhole(m)' <=> CountedWhole(m)
              /\ Holds(m)' <=> Holds(m)
  <2> TAKE m \in DOMAIN zip
  <2>1. m \in DOMAIN zip' /\ zip'[m] = zip[m] /\ outcome'[zip[m].entry] = outcome[zip[m].entry]
      BY <1>2
  <2>2. CountedWhole(m)' <=> CountedWhole(m)
      BY <2>1 DEF CountedWhole
  <2>3. Holds(m)' <=> Holds(m)
      BY <1>2, <2>1 DEF Holds, Unreadable, Ptrs, Data, TakeOf
  <2> QED
      BY <1>2, <2>1, <2>2, <2>3
<1>3. CASE UNCHANGED <<kind, bad, entries, zip, outcome>>
    BY <1>2, <1>3
<1>4. CASE Skip \/ ReadRaises
  <2>1. /\ UNCHANGED <<kind, bad, entries, zip>>
        /\ outcome' = Append(outcome, "skipped") \/ outcome' = Append(outcome, "unread")
      BY <1>4 DEF Skip, ReadRaises, listed
  <2> QED
      BY <1>0, <1>2, <2>1, ToldGoesOn
<1>5. CASE Store \/ StoreRaises
  <2>1. /\ UNCHANGED <<kind, bad, entries>> /\ k = Len(outcome) + 1
        /\ zip' = zip \/ \E chunks : zip' = Append(zip, Member(Says, chunks))
        /\ \E o : outcome' = Append(outcome, o)
      BY <1>5, StoreGives
  <2>2. \A chunks : Member(Says, chunks).entry = k
      BY DEF Member
  <2> QED
      BY <1>0, <1>2, <2>1, <2>2, ToldGoesOn
<1>6. Begin \/ Open \/ FollowPointer \/ YieldHole \/ ReadData \/ Report \/ Return \/ UNCHANGED vars
      => UNCHANGED <<kind, bad, entries, zip, outcome>>
    BY DEF Begin, Open, FollowPointer, YieldHole, ReadData, Report, Return, listed, vars
<1> QED
    BY <1>1, <1>3, <1>4, <1>5, <1>6 DEF Next

(* A member that was not there is the one Store or StoreRaises wrote, and   *)
(* if its file is counted whole, Store did, with nothing cut off its size.  *)
LEMMA NewMember ==
    ASSUME PInv, [Next]_vars, NEW m \in DOMAIN zip', m \notin DOMAIN zip, CountedWhole(m)'
    PROVE  Store /\ ~(Says < Size) /\ zip'[m] = Member(Says, spool) /\ zip'[m].entry = k
<1>0. zip \in Seq(Members) /\ outcome \in Seq(Outcomes)
    BY DEF PInv, TInv, TypeOK
<1>1. Store \/ StoreRaises
  <2>1. zip' # zip
      OBVIOUS
  <2> QED
      BY <2>1 DEF Next, Collect, Begin, Skip, Open, FollowPointer, YieldHole, ReadData,
                  ReadRaises, Report, Return, vars
<1>2. PICK chunks : zip' = Append(zip, Member(Says, chunks))
    BY <1>1, StoreGives
<1>3. zip'[m] = Member(Says, chunks) /\ zip'[m].entry = k
  <2>1. zip'[m] = Member(Says, chunks)
      BY <1>0, <1>2
  <2> QED
      BY <2>1 DEF Member
<1>4. k = Len(outcome) + 1 /\ outcome'[k] = "whole"
    BY <1>1, <1>3, StoreGives DEF CountedWhole
<1>5. \A o : outcome' = Append(outcome, o) => o = "whole"
    BY <1>0, <1>4
<1>6. Store /\ ~(Says < Size) /\ zip' = Append(zip, Member(Says, spool))
    BY <1>1, <1>5, StoreGives
<1>7. zip'[m] = Member(Says, spool)
    BY <1>0, <1>6
<1> QED
    BY <1>3, <1>6, <1>7

(* A file that is stored whole had nothing tallied while it was read, and   *)
(* all of it was read: its member holds it.                                 *)
LEMMA WholeWasRead ==
    ASSUME PInv, Fits, AllRead, Store, ~(Says < Size), NEW m,
           zip'[m] = Member(Says, spool),
           tally > before \/ \A j \in 1..Len(spool) : Fine(spool[j], Node, j)
    PROVE  Holds(m)'
<1>0. pc = "store" /\ TInv /\ UNCHANGED <<bad, entries>>
    BY DEF Store, listed, PInv
<1>1. Node \in Nodes
    BY <1>0 DEF TInv, TypeOK, Where, Node
<1>2. Size \in Nat /\ Layout[Node].blocks \in Seq(MapEntry)
    BY <1>1, LayoutType DEF Size
<1> DEFINE n == Len(Layout[Node].blocks)
           read == Len(spool)
<1>3. n \in Nat /\ read \in Nat /\ BS \in Nat /\ BS > 0 /\ spool \in Seq(Chunks)
    BY <1>0, <1>2, ConstantsType DEF TInv, TypeOK
<1>4. ~(read * BS < Size)
    BY <1>0 DEF AllRead, Left
<1>5. \A j \in 0..Size : j < n <=> j * BS < Size
    BY <1>1, LayoutType DEF Size
<1>6. ~(Size * BS < Size)
    BY <1>2, <1>3
<1>7. n <= Size
    BY <1>2, <1>3, <1>5, <1>6
<1>8. read = n
  <2>1. n <= read
      BY <1>2, <1>3, <1>4, <1>5, <1>7
  <2> QED
      BY <1>0, <1>3, <2>1 DEF Fits
<1>9. \A j \in 1..read : Fine(spool[j], Node, j)
  <2>1. CASE tally > before
    <3>1. Size = 0
        BY <1>0, <1>2, <2>1 DEF Says, Least, TInv, TypeOK
    <3> QED
        BY <1>3, <1>7, <1>8, <3>1
  <2> QED
      BY <2>1
<1>10. zip'[m].chunks = spool /\ entries'[zip'[m].entry] = Node
    BY <1>0 DEF Member, Node
<1>11. \A j \in 1..read : spool[j].take = TakeOf(Node, j)
    BY <1>0 DEF Fits
<1>12. DOMAIN spool = 1..read
    BY <1>3
<1> QED
    BY <1>0, <1>8, <1>9, <1>10, <1>11, <1>12
       DEF Holds, Fine, Unreadable, Ptrs, Data, TakeOf

(* The strengthened invariant holds when the extraction begins.             *)
LEMMA HonestInit == Init => HInv
<1> SUFFICES ASSUME Init PROVE HInv
    OBVIOUS
<1>1. PInv /\ pc = "collect" /\ DOMAIN zip = {}
    BY PromiseInit DEF Init
<1> QED
    BY <1>1 DEF HInv, Fits, ReadSoFar, AllRead, WholeIsWhole

(* Every step keeps the strengthened invariant: the reads by the tally,     *)
(* Store by the name it gives.                                              *)
LEMMA HonestStep == HInv /\ [Next]_vars => HInv'
<1> SUFFICES ASSUME HInv, [Next]_vars PROVE HInv'
    OBVIOUS
<1>0. PInv' /\ PInv /\ TInv
    BY PromiseStep DEF HInv, PInv
<1>1. WholeIsWhole'
  <2> SUFFICES ASSUME NEW m \in DOMAIN zip', kind' = "qnx6", CountedWhole(m)'
               PROVE  Holds(m)'
      BY DEF WholeIsWhole
  <2>1. CASE m \in DOMAIN zip
      BY <1>0, <2>1, OldMembers DEF HInv, WholeIsWhole
  <2>2. CASE m \notin DOMAIN zip
    <3>1. Store /\ ~(Says < Size) /\ zip'[m] = Member(Says, spool)
        BY <1>0, <2>2, NewMember
    <3>2. pc = "store" /\ kind = "qnx6"
        BY <3>1 DEF Store, listed
    <3>3. tally > before \/ \A j \in 1..Len(spool) : Fine(spool[j], Node, j)
        BY <3>2 DEF HInv, ReadSoFar
    <3> QED
        BY <1>0, <3>1, <3>3, WholeWasRead DEF HInv
  <2> QED
      BY <2>1, <2>2
<1>2. CASE FollowPointer \/ YieldHole \/ ReadData
    BY <1>0, <1>1, <1>2, ReadKeeps DEF HInv
<1>3. CASE Open
  <2>1. /\ pc' \in {"map", "store"} /\ spool' = << >> /\ (pc' = "store" => ~Left(0))
        /\ UNCHANGED <<entries, k>>
      BY <1>3 DEF Open, listed
  <2>2. Node' = Node /\ Node \in Nodes /\ Len(spool') = 0
      BY <1>0, <1>3, <2>1 DEF Open, Node, TInv, TypeOK
  <2>3. Layout[Node].blocks \in Seq(MapEntry)
      BY <2>2, LayoutType
  <2>4. Fits' /\ ReadSoFar'
      BY <2>2, <2>3 DEF Fits, ReadSoFar
  <2>5. AllRead'
      BY <2>1, <2>2 DEF AllRead, Left, Size
  <2> QED
      BY <1>0, <1>1, <2>4, <2>5 DEF HInv
<1>4. CASE UNCHANGED vars
  <2>1. UNCHANGED <<kind, bad, entries, k, pc, tally, before, spool>>
      BY <1>4 DEF vars
  <2>2. Fits' /\ ReadSoFar' /\ AllRead'
      BY <2>1, FineIsStable DEF HInv, Fits, ReadSoFar, AllRead, Left, Size, TakeOf
  <2> QED
      BY <1>0, <1>1, <2>2 DEF HInv
<1>5. CASE Collect \/ Begin \/ Skip \/ ReadRaises \/ Store \/ StoreRaises \/ Report \/ Return
  <2>1. pc' \notin {"map", "store"}
      BY <1>5 DEF Collect, Begin, Skip, ReadRaises, Store, StoreRaises, Report, Return
  <2> QED
      BY <1>0, <1>1, <2>1 DEF HInv, Fits, ReadSoFar, AllRead
<1> QED
    BY <1>2, <1>3, <1>4, <1>5 DEF Next

(* The member of a file Qnx6Walker reads and extract_to_zip() counts whole  *)
(* holds every byte of the file that the acquisition could read, whatever   *)
(* the layout of the volume, the cut and the unreadable blocks.             *)
THEOREM CutFilesNeverPassForWhole == Spec => []WholeIsWhole
<1>1. HInv => WholeIsWhole
    BY DEF HInv
<1> QED
    BY HonestInit, HonestStep, <1>1, PTL DEF Spec

-----------------------------------------------------------------------------
(* Nor does it the first time F2fsWalker reads it, on a volume where no     *)
(* block is of two inodes: what its cache answers of a file was then read,  *)
(* and tallied, for that file.                                              *)
Unshared ==
    \A n, m \in Nodes :
        /\ n # m => Body(n) \cap Body(m) \subseteq {Hole}
        /\ Layout[m].inode \notin Body(n)

(* An inode no entry before this one opened, nor this one.                  *)
Untouched(n) ==
    \/ pc = "collect"
    \/ /\ \A h \in 1..(k - 1) : entries[h] # n
       /\ pc \in {"map", "store", "report"} => Node # n

NoneCached == \A n \in Nodes : Untouched(n) => cached \cap Body(n) = {}

FirstRead ==
    /\ pc \in {"map", "store"} /\ kind = "f2fs" /\ FirstLink(k)
    => \/ tally > before
       \/ /\ \A c \in cached \cap Body(Node) : Settled(c)
          /\ \A j \in 1..Len(spool) : Fine(spool[j], Node, j)

FInv == HInv /\ NoneCached /\ FirstRead /\ FirstLinkIsWhole

(* Reading a block of the file keeps the bodies of files not opened yet out *)
(* of the cache.                                                            *)
LEMMA ReadKeepsNone ==
    ASSUME Unshared, TInv, NoneCached, pc = "map", NEW b \in Body(Node) \cap Blocks,
           cached' \subseteq cached \cup {b}, pc' \in {"map", "store"}, UNCHANGED <<entries, k>>
    PROVE  NoneCached'
<1> SUFFICES ASSUME NEW n \in Nodes, Untouched(n)' PROVE cached' \cap Body(n) = {}
    BY DEF NoneCached, Body, Ptrs, Data
<1>1. Untouched(n) /\ n # Node
    BY DEF Untouched, Node
<1>2. Node \in Nodes /\ b # Hole
    BY ChunkType, ConstantsType
<1>3. b \notin Body(n)
    BY <1>1, <1>2 DEF Unshared
<1> QED
    BY <1>1, <1>3 DEF NoneCached

(* The first reading of a file goes on as it was, when what was read is     *)
(* tallied, or its blocks settled and its chunk fine.                       *)
LEMMA ReadKeepsFirst ==
    ASSUME TInv, FirstRead, pc = "map", UNCHANGED <<kind, len, bad, entries, k, before>>,
           tally' \in Nat, tally' >= tally,
           kind = "f2fs" /\ FirstLink(k) /\ ~(tally' > before)
              => /\ \A c \in cached' \cap Body(Node) : Settled(c)
                 /\ \/ spool' = spool
                    \/ \E real \in Nat :
                          /\ Yield(real)
                          /\ Fine([take |-> Take, real |-> real], Node, Len(spool) + 1)
    PROVE  FirstRead'
<1> SUFFICES ASSUME kind = "f2fs", FirstLink(k), ~(tally' > before)
             PROVE  /\ \A c \in cached' \cap Body(Node) : Settled(c)
                    /\ \A j \in 1..Len(spool') : Fine(spool'[j], Node, j)
    BY DEF FirstRead, FirstLink, Settled, Here, Body, Ptrs, Data, Node, Fine, Unreadable, TakeOf
<1>1. tally \in Nat /\ before \in Nat /\ spool \in Seq(Chunks)
    BY DEF TInv, TypeOK
<1>2. \A j \in 1..Len(spool) : Fine(spool[j], Node, j)
    BY <1>1 DEF FirstRead
<1>3. \A j \in 1..Len(spool') : Fine(spool'[j], Node, j)
  <2>1. CASE spool' = spool
      BY <1>2, <2>1
  <2>2. ASSUME NEW real \in Nat, Yield(real),
               Fine([take |-> Take, real |-> real], Node, Len(spool) + 1)
        PROVE  \A j \in 1..Len(spool') : Fine(spool'[j], Node, j)
    <3> DEFINE n == Len(spool)
    <3>1. /\ Len(spool') = n + 1 /\ \A j \in 1..n : spool'[j] = spool[j]
          /\ spool'[n + 1] = [take |-> Take, real |-> real] /\ n \in Nat
        BY <1>1, <2>2, YieldAppends
    <3> HIDE DEF n
    <3> QED
        BY <1>2, <2>2, <3>1 DEF n
  <2> QED
      BY <2>1, <2>2
<1> QED
    BY <1>3

(* The steps that read the file: a pointer block, a data block, a hole.     *)
LEMMA FirstReadGoesOn ==
    ASSUME Unshared, TInv, NoneCached, FirstRead, FollowPointer \/ ReadData \/ YieldHole
    PROVE  NoneCached' /\ FirstRead'
<1>1. /\ pc = "map" /\ pc' \in {"map", "store"}
      /\ UNCHANGED <<kind, len, bad, entries, k, before, zip, outcome>>
      /\ tally' \in Nat /\ tally' >= tally
    BY ReadLeaves
<1>2. tally \in Nat /\ before \in Nat /\ before <= tally
    BY DEF TInv, TypeOK
<1>3. ASSUME kind = "f2fs", FirstLink(k), ~(tally' > before)
      PROVE  \A c \in cached \cap Body(Node) : Settled(c)
    BY <1>1, <1>2, <1>3 DEF FirstRead
<1>4. CASE FollowPointer \/ ReadData
  <2>1. PICK b \in Body(Node) \cap Blocks :
              /\ Fetch(b)
              /\ \/ spool' = spool /\ pc' = pc
                 \/ \E real \in Nat :
                       /\ Yield(real)
                       /\ Settled(b) => Fine([take |-> Take, real |-> real], Node, Len(spool) + 1)
      BY <1>4, BlockRead
  <2>2. /\ cached' \subseteq cached \cup {b}
        /\ tally' > tally \/ (kind = "f2fs" /\ b \in cached) \/ Settled(b)
      BY <2>1, FetchSettles
  <2>3. NoneCached'
      BY <1>1, <2>2, ReadKeepsNone
  <2>4. kind = "f2fs" /\ FirstLink(k) /\ ~(tally' > before)
        => Settled(b) /\ \A c \in cached' \cap Body(Node) : Settled(c)
    <3> SUFFICES ASSUME kind = "f2fs", FirstLink(k), ~(tally' > before)
                 PROVE  Settled(b) /\ \A c \in cached' \cap Body(Node) : Settled(c)
        OBVIOUS
    <3>1. \A c \in cached \cap Body(Node) : Settled(c)
        BY <1>3
    <3>2. ~(tally' > tally)
        BY <1>1, <1>2
    <3> QED
        BY <2>2, <3>1, <3>2
  <2>5. FirstRead'
      BY <1>1, <2>1, <2>4, ReadKeepsFirst
  <2> QED
      BY <2>3, <2>5
<1>5. CASE YieldHole
  <2>1. cached' = cached
      BY <1>5 DEF YieldHole
  <2>2. NoneCached'
    <3> SUFFICES ASSUME NEW n \in Nodes, Untouched(n)' PROVE cached' \cap Body(n) = {}
        BY DEF NoneCached, Body, Ptrs, Data
    <3>1. Untouched(n)
        BY <1>1 DEF Untouched, Node
    <3> QED
        BY <2>1, <3>1 DEF NoneCached
  <2>3. /\ Take \in Nat /\ Yield(Take)
        /\ Fine([take |-> Take, real |-> Take], Node, Len(spool) + 1)
      BY <1>5, HoleRead
  <2>4. FirstRead'
      BY <1>1, <1>3, <2>1, <2>3, ReadKeepsFirst
  <2> QED
      BY <2>2, <2>4
<1> QED
    BY <1>4, <1>5

(* The invariant of first readings holds from the beginning on.             *)
LEMMA FirstInit == Init => FInv
<1> SUFFICES ASSUME Init PROVE FInv
    OBVIOUS
<1>1. HInv
    BY HonestInit
<1>2. cached = {} /\ pc = "collect" /\ DOMAIN zip = {}
    BY DEF Init
<1> QED
    BY <1>1, <1>2 DEF FInv, NoneCached, FirstRead, FirstLinkIsWhole

(* Every step keeps it, on a volume where no block is of two inodes.        *)
LEMMA FirstStep == Unshared /\ FInv /\ [Next]_vars => FInv'
<1> SUFFICES ASSUME Unshared, FInv, [Next]_vars PROVE FInv'
    OBVIOUS
<1>0. HInv' /\ PInv /\ TInv /\ NoneCached /\ FirstRead /\ FirstLinkIsWhole
    BY HonestStep DEF FInv, HInv, PInv
<1>1. FirstLinkIsWhole'
  <2> SUFFICES ASSUME NEW m \in DOMAIN zip', kind' = "f2fs", FirstLink(zip[m].entry)',
                      CountedWhole(m)'
               PROVE  Holds(m)'
      BY DEF FirstLinkIsWhole
  <2>1. CASE m \in DOMAIN zip
    <3>1. /\ zip'[m] = zip[m] /\ kind' = kind /\ entries' = entries
          /\ CountedWhole(m)' <=> CountedWhole(m)
          /\ Holds(m)' <=> Holds(m)
        BY <1>0, <2>1, OldMembers
    <3>2. FirstLink(zip[m].entry)
        BY <3>1 DEF FirstLink
    <3> QED
        BY <1>0, <2>1, <3>1, <3>2 DEF FirstLinkIsWhole
  <2>2. CASE m \notin DOMAIN zip
    <3>1. Store /\ ~(Says < Size) /\ zip'[m] = Member(Says, spool) /\ zip'[m].entry = k
        BY <1>0, <2>2, NewMember
    <3>2. pc = "store" /\ kind = "f2fs" /\ entries' = entries
        BY <3>1 DEF Store, listed
    <3>3. FirstLink(k)
        BY <3>1, <3>2 DEF FirstLink
    <3>4. tally > before \/ \A j \in 1..Len(spool) : Fine(spool[j], Node, j)
        BY <1>0, <3>2, <3>3 DEF FirstRead
    <3> QED
        BY <1>0, <3>1, <3>4, WholeWasRead DEF FInv, HInv
  <2> QED
      BY <2>1, <2>2
<1>2. CASE Collect
  <2>1. pc = "collect" /\ pc' = "collect"
      BY <1>2 DEF Collect
  <2> DEFINE n0 == Listing[k]
             b == Layout[n0].inode
  <2>2. n0 \in Nodes /\ b \in Blocks /\ Fetch(b)
    <3>1. n0 \in Nodes
        BY <1>0, <1>2, ConstantsType DEF Collect, TInv, TypeOK
    <3> QED
        BY <1>2, <3>1, LayoutType DEF Collect
  <2>3. cached' \subseteq cached \cup {b}
      BY <1>0, <2>2, FetchSettles
  <2>4. ASSUME NEW n \in Nodes PROVE cached' \cap Body(n) = {}
    <3>1. cached \cap Body(n) = {}
        BY <1>0, <2>1 DEF NoneCached, Untouched
    <3>2. b \notin Body(n)
        BY <2>2 DEF Unshared
    <3> QED
        BY <2>3, <3>1, <3>2
  <2>5. NoneCached'
      BY <2>4 DEF NoneCached, Body, Ptrs, Data
  <2> QED
      BY <1>0, <1>1, <2>1, <2>5 DEF FInv, FirstRead
<1>3. CASE Begin
  <2>1. pc = "collect" /\ pc' = "entry" /\ cached' = cached
      BY <1>3 DEF Begin, listed
  <2>2. NoneCached'
      BY <1>0, <2>1 DEF NoneCached, Untouched, Body, Ptrs, Data
  <2> QED
      BY <1>0, <1>1, <2>1, <2>2 DEF FInv, FirstRead
<1>4. CASE Skip \/ ReadRaises \/ Report \/ Return
  <2>1. /\ pc # "collect" /\ pc' \notin {"collect", "map", "store"}
        /\ UNCHANGED <<kind, len, bad, entries, zip, cached>>
      BY <1>4 DEF Skip, ReadRaises, Report, Return, listed
  <2>2. ASSUME NEW n \in Nodes, Untouched(n)' PROVE Untouched(n)
    <3>1. k \in Nat \ {0} /\ k' \in {k, k + 1}
        BY <1>0, <1>4 DEF Skip, ReadRaises, Report, Return, TInv, TypeOK
    <3>2. \A h \in 1..(k' - 1) : entries[h] # n
        BY <2>1, <2>2 DEF Untouched
    <3>3. \A h \in 1..(k - 1) : entries[h] # n
      <4>1. PICK l : l = k'
          OBVIOUS
      <4>2. k \in Nat /\ l \in {k, k + 1}
          BY <3>1, <4>1
      <4>3. \A h \in 1..(k - 1) : h \in 1..(l - 1)
          BY <4>2
      <4> QED
          BY <3>2, <4>1, <4>3
    <3>4. pc \in {"map", "store", "report"} => Node # n
      <4>1. CASE Report
        <5>1. k' = k + 1 /\ k \in 1..(k' - 1)
            BY <3>1, <4>1 DEF Report
        <5> QED
            BY <3>2, <5>1 DEF Node
      <4>2. CASE ReadRaises
        <5>1. pc' = "report" /\ k' = k /\ entries' = entries
            BY <4>2 DEF ReadRaises, listed
        <5> QED
            BY <2>2, <5>1 DEF Untouched, Node
      <4>3. CASE Skip \/ Return
          BY <4>3 DEF Skip, Return
      <4> QED
          BY <1>4, <4>1, <4>2, <4>3
    <3> QED
        BY <3>3, <3>4 DEF Untouched
  <2>3. NoneCached'
      BY <1>0, <2>1, <2>2 DEF NoneCached, Body, Ptrs, Data
  <2>4. FirstRead'
      BY <2>1 DEF FirstRead
  <2> QED
      BY <1>0, <1>1, <2>1, <2>3, <2>4 DEF FInv
<1>5. CASE Open
  <2>1. /\ pc = "entry" /\ pc' \in {"map", "store"} /\ spool' = << >> /\ k <= Len(entries)
        /\ Fetch(Layout[Node].inode)
        /\ UNCHANGED <<kind, len, bad, entries, k, zip>>
      BY <1>5 DEF Open, listed
  <2> DEFINE b == Layout[Node].inode
  <2>2. Node \in Nodes /\ b \in Blocks
    <3>1. Node \in Nodes
        BY <1>0, <2>1 DEF TInv, TypeOK, Node
    <3> QED
        BY <3>1, LayoutType
  <2>3. cached' \subseteq cached \cup {b}
      BY <1>0, <2>1, <2>2, FetchSettles
  <2>4. \A n \in Nodes : b \notin Body(n)
      BY <2>2 DEF Unshared
  <2> HIDE DEF b
  <2>5. NoneCached'
    <3> SUFFICES ASSUME NEW n \in Nodes, Untouched(n)' PROVE cached' \cap Body(n) = {}
        BY DEF NoneCached, Body, Ptrs, Data
    <3>1. Untouched(n)
        BY <2>1 DEF Untouched
    <3> QED
        BY <1>0, <2>3, <2>4, <3>1 DEF NoneCached
  <2>6. FirstRead'
    <3> SUFFICES ASSUME FirstLink(k)
                 PROVE  \A c \in cached' \cap Body(Node) : Settled(c)
        BY <2>1 DEF FirstRead, FirstLink, Settled, Here, Body, Ptrs, Data, Node
    <3>1. Untouched(Node)
        BY <2>1 DEF Untouched, FirstLink, Node
    <3>2. cached \cap Body(Node) = {}
        BY <1>0, <2>2, <3>1 DEF NoneCached
    <3> QED
        BY <2>2, <2>3, <2>4, <3>2
  <2> QED
      BY <1>0, <1>1, <2>1, <2>5, <2>6 DEF FInv
<1>6. CASE FollowPointer \/ YieldHole \/ ReadData
  <2>1. NoneCached' /\ FirstRead'
      BY <1>0, <1>6, FirstReadGoesOn DEF FInv, HInv
  <2> QED
      BY <1>0, <1>1, <2>1 DEF FInv
<1>7. CASE Store \/ StoreRaises
  <2>1. /\ pc = "store" /\ pc' = "report"
        /\ UNCHANGED <<kind, len, bad, entries, k, cached>>
      BY <1>7 DEF Store, StoreRaises, listed
  <2>2. FirstRead'
      BY <2>1 DEF FirstRead
  <2>3. NoneCached'
      BY <1>0, <2>1 DEF NoneCached, Untouched, Node, Body, Ptrs, Data
  <2> QED
      BY <1>0, <1>1, <2>2, <2>3 DEF FInv
<1>8. CASE UNCHANGED vars
  <2>1. UNCHANGED <<kind, len, bad, entries, k, pc, tally, before, spool, zip, cached>>
      BY <1>8 DEF vars
  <2>2. FirstRead'
      BY <1>0, <2>1 DEF FirstRead, FirstLink, Settled, Here, Body, Ptrs, Data, Node, Fine,
                        Unreadable, TakeOf
  <2>3. NoneCached'
      BY <1>0, <2>1 DEF NoneCached, Untouched, Node, Body, Ptrs, Data
  <2> QED
      BY <1>0, <1>1, <2>1, <2>2, <2>3 DEF FInv
<1> QED
    BY <1>2, <1>3, <1>4, <1>5, <1>6, <1>7, <1>8 DEF Next

(* The member of a file F2fsWalker reads for the first of its links, if it  *)
(* is counted whole, holds every byte of the file that the acquisition      *)
(* could read, however many blocks the cache holds, on every volume where   *)
(* no block is of two inodes.                                               *)
THEOREM FirstLinksNeverPassForWhole == Unshared => (Spec => []FirstLinkIsWhole)
<1> SUFFICES ASSUME Unshared PROVE Spec => []FirstLinkIsWhole
    OBVIOUS
<1>1. FInv => FirstLinkIsWhole
    BY DEF FInv
<1>2. FInv /\ [Next]_vars => FInv'
    BY FirstStep
<1> QED
    BY FirstInit, <1>1, <1>2, PTL DEF Spec

-----------------------------------------------------------------------------
(* The counts of Accounted.                                                 *)
CountsKept ==
    /\ counts.files = With("whole")
    /\ counts.short = With("short")
    /\ counts.skipped = With("skipped")
    /\ counts.failed = With("unread") + With("unstored")

CInv == TInv /\ CountsKept

(* One more outcome counts for one.                                         *)
LEMMA WithOneMore ==
    ASSUME outcome \in Seq(Outcomes), NEW o, outcome' = Append(outcome, o), NEW w
    PROVE  With(w) \in Nat /\ With(w)' = With(w) + (IF w = o THEN 1 ELSE 0)
<1> DEFINE S == {i \in DOMAIN outcome : outcome[i] = w}
           S2 == {i \in DOMAIN outcome' : outcome'[i] = w}
           n == Len(outcome) + 1
<1>1. /\ DOMAIN outcome = 1..Len(outcome) /\ Len(outcome) \in Nat
      /\ DOMAIN outcome' = DOMAIN outcome \cup {n} /\ n \notin DOMAIN outcome
      /\ outcome'[n] = o /\ \A i \in DOMAIN outcome : outcome'[i] = outcome[i]
    OBVIOUS
<1>2. S \subseteq 1..Len(outcome) /\ n \notin S /\ S2 = IF w = o THEN S \cup {n} ELSE S
    BY <1>1
<1>3. IsFiniteSet(1..Len(outcome))
    BY <1>1, FS_Interval
<1> HIDE DEF S, S2, n
<1>4. IsFiniteSet(S)
    BY <1>2, <1>3, FS_Subset
<1>5. Cardinality(S) \in Nat /\ Cardinality(S \cup {n}) = Cardinality(S) + 1
    BY <1>2, <1>4, FS_AddElement, FS_CardinalityType
<1>6. With(w) = Cardinality(S) /\ With(w)' = Cardinality(S2)
    BY DEF With, S, S2
<1> QED
    BY <1>2, <1>5, <1>6

(* Each step counts the outcome it gives, and no other step counts.         *)
LEMMA CountsStep == CInv /\ [Next]_vars => CInv'
<1> SUFFICES ASSUME CInv, [Next]_vars PROVE CInv'
    OBVIOUS
<1>0. TInv' /\ CountsKept /\ outcome \in Seq(Outcomes) /\ counts \in Tallies
    BY TypeStep DEF CInv, TInv, TypeOK
<1>1. /\ counts.files \in Nat /\ counts.short \in Nat /\ counts.skipped \in Nat /\ counts.failed \in Nat
      /\ counts.written \in Nat
    BY <1>0 DEF Tallies
<1>2. CASE UNCHANGED <<counts, outcome>>
    BY <1>0, <1>2 DEF CInv, CountsKept, With
<1>3. ASSUME NEW o \in Outcomes, outcome' = Append(outcome, o),
             /\ counts'.files = counts.files + (IF o = "whole" THEN 1 ELSE 0)
             /\ counts'.short = counts.short + (IF o = "short" THEN 1 ELSE 0)
             /\ counts'.skipped = counts.skipped + (IF o = "skipped" THEN 1 ELSE 0)
             /\ counts'.failed = counts.failed + (IF o \in {"unread", "unstored"} THEN 1 ELSE 0)
      PROVE  CInv'
  <2>1. \A w : With(w) \in Nat /\ With(w)' = With(w) + (IF w = o THEN 1 ELSE 0)
      BY <1>0, <1>3, WithOneMore
  <2>2. counts'.files = With("whole")' /\ counts'.short = With("short")' /\ counts'.skipped = With("skipped")'
      BY <1>0, <1>3, <2>1 DEF CountsKept
  <2>3. counts'.failed = With("unread")' + With("unstored")'
    <3>1. /\ With("unread") \in Nat /\ With("unstored") \in Nat
          /\ With("unread")' = With("unread") + (IF o = "unread" THEN 1 ELSE 0)
          /\ With("unstored")' = With("unstored") + (IF o = "unstored" THEN 1 ELSE 0)
        BY <2>1
    <3>2. counts.failed = With("unread") + With("unstored")
        BY <1>0 DEF CountsKept
    <3> QED
        BY <1>3, <3>1, <3>2
  <2> QED
      BY <1>0, <2>2, <2>3 DEF CInv, CountsKept
<1>4. CASE Skip
    BY <1>0, <1>1, <1>3, <1>4 DEF Skip, Counted, Outcomes, Tallies
<1>5. CASE ReadRaises
    BY <1>0, <1>1, <1>3, <1>5 DEF ReadRaises, Counted, Outcomes, Tallies
<1>6. CASE Store
  <2>1. CASE Says < Size
    <3>1. outcome' = Append(outcome, "short") /\ counts' = [Counted("short") EXCEPT !.written = @ + Says]
        BY <1>6, <2>1 DEF Store
    <3>2. /\ counts'.files = counts.files /\ counts'.short = counts.short + 1
          /\ counts'.skipped = counts.skipped /\ counts'.failed = counts.failed
        BY <1>0, <3>1 DEF Counted, Tallies
    <3> QED
        BY <1>1, <1>3, <3>1, <3>2 DEF Outcomes
  <2>2. CASE ~(Says < Size)
    <3>1. outcome' = Append(outcome, "whole") /\ counts' = [Counted("files") EXCEPT !.written = @ + Size]
        BY <1>6, <2>2 DEF Store
    <3>2. /\ counts'.files = counts.files + 1 /\ counts'.short = counts.short
          /\ counts'.skipped = counts.skipped /\ counts'.failed = counts.failed
        BY <1>0, <3>1 DEF Counted, Tallies
    <3> QED
        BY <1>1, <1>3, <3>1, <3>2 DEF Outcomes
  <2> QED
      BY <2>1, <2>2
<1>7. CASE StoreRaises
    BY <1>0, <1>1, <1>3, <1>7 DEF StoreRaises, Counted, Outcomes, Tallies
<1>8. Collect \/ Begin \/ Open \/ FollowPointer \/ YieldHole \/ ReadData \/ Report \/ Return \/ UNCHANGED vars
      => UNCHANGED <<counts, outcome>>
    BY DEF Collect, Begin, Open, FollowPointer, YieldHole, ReadData, Report, Return, vars
<1> QED
    BY <1>2, <1>4, <1>5, <1>6, <1>7, <1>8 DEF Next

-----------------------------------------------------------------------------
(* The bytes written are those of the members stored.                       *)
BytesKept == counts.written = SumTo(Kept, Len(zip))

BInv == PInv /\ CInv /\ BytesKept

(* What the members add is a sequence of numbers.                           *)
LEMMA KeptType ==
    ASSUME zip \in Seq(Members)
    PROVE  Kept \in Seq(Nat) /\ Len(Kept) = Len(zip)
<1>0. \A m \in DOMAIN zip : zip[m] \in Members
    OBVIOUS
<1>1. \A m \in DOMAIN zip : zip[m].says \in Nat
    BY <1>0 DEF Members
<1>2. Kept \in [1..Len(zip) -> Nat] /\ Len(zip) \in Nat
    BY <1>1 DEF Kept
<1> QED
    BY <1>2

(* An outcome more changes nothing of the members there are.                *)
LEMMA KeptStays ==
    ASSUME zip \in Seq(Members), outcome \in Seq(Outcomes), Told, zip' = zip,
           NEW o, outcome' = Append(outcome, o)
    PROVE  Kept' = Kept
    BY ToldGoesOn DEF Kept

(* A member more adds its bytes if its entry was stored.                    *)
LEMMA KeptAppend ==
    ASSUME zip \in Seq(Members), outcome \in Seq(Outcomes), Told,
           NEW m \in Members, zip' = Append(zip, m), m.entry = Len(outcome) + 1,
           NEW o, outcome' = Append(outcome, o)
    PROVE  Kept' = Append(Kept, IF o \in {"whole", "short"} THEN m.says ELSE 0)
<1> DEFINE n == Len(zip) + 1
           x == IF o \in {"whole", "short"} THEN m.says ELSE 0
<1>1. /\ \A i \in DOMAIN outcome : i \in DOMAIN outcome' /\ outcome'[i] = outcome[i]
      /\ m.entry \in DOMAIN outcome' /\ outcome'[m.entry] = o
    OBVIOUS
<1>2. /\ DOMAIN zip = 1..Len(zip) /\ Len(zip) \in Nat /\ DOMAIN zip' = 1..n
      /\ zip'[n] = m /\ \A i \in DOMAIN zip : zip'[i] = zip[i]
    OBVIOUS
<1>3. DOMAIN zip' = DOMAIN zip \cup {n} /\ n \notin DOMAIN zip
    BY <1>2
<1>5. Kept \in Seq(Nat) /\ Len(Kept) = Len(zip)
    BY KeptType
<1> HIDE DEF n
<1>6. /\ DOMAIN Kept' = 1..n /\ Kept'[n] = x
      /\ \A i \in DOMAIN zip : Kept'[i] = Kept[i]
      /\ Kept' = [i \in 1..n |-> Kept'[i]]
  <2>1. Kept' = [i \in 1..n |-> IF outcome'[zip'[i].entry] \in {"whole", "short"}
                                THEN zip'[i].says ELSE 0]
      BY <1>2 DEF Kept
  <2>2. n \in 1..n
      BY <1>2 DEF n
  <2>3. \A i \in DOMAIN zip : i \in 1..n /\ outcome'[zip'[i].entry] = outcome[zip[i].entry]
      BY <1>1, <1>2, <1>3 DEF Told
  <2> QED
      BY <1>1, <1>2, <2>1, <2>2, <2>3 DEF Kept
<1> HIDE DEF x
<1>7. /\ Append(Kept, x) = [i \in 1..n |-> Append(Kept, x)[i]]
      /\ Append(Kept, x)[n] = x /\ \A i \in 1..Len(zip) : Append(Kept, x)[i] = Kept[i]
  <2>1. x \in Nat
      BY DEF x, Members
  <2>2. Len(Append(Kept, x)) = n /\ Append(Kept, x) \in Seq(Nat)
      BY <1>5, <2>1 DEF n
  <2>3. Append(Kept, x)[n] = x
      BY <1>5, <2>1 DEF n
  <2>4. \A i \in 1..Len(zip) : Append(Kept, x)[i] = Kept[i]
      BY <1>5, <2>1
  <2>5. \A t \in Seq(Nat) : t = [i \in 1..Len(t) |-> t[i]]
      OBVIOUS
  <2>6. Append(Kept, x) = [i \in 1..n |-> Append(Kept, x)[i]]
      BY <2>2, <2>5
  <2> QED
      BY <2>3, <2>4, <2>6
<1>8. \A i \in 1..n : Kept'[i] = Append(Kept, x)[i]
    BY <1>2, <1>3, <1>6, <1>7
<1>9. Kept' = Append(Kept, x)
    BY <1>6, <1>7, <1>8, Zenon
<1> QED
    BY <1>9 DEF x

(* The sum of the bytes with those of a member more.                        *)
LEMMA SumAppend ==
    ASSUME NEW f \in Seq(Nat), NEW x \in Nat, NEW n \in Nat, Len(f) = n
    PROVE  SumTo(Append(f, x), n + 1) = SumTo(f, n) + x
<1> DEFINE e == Append(f, x)
<1>1. /\ \A j \in 1..n : e[j] = f[j] /\ f[j] \in Nat
      /\ e[n + 1] = x /\ \A j \in 1..(n + 1) : e[j] \in Nat
    OBVIOUS
<1> HIDE DEF e
<1>2. Numbered(e, n + 1) /\ Numbered(e, n) /\ SameUpTo(e, f, n)
    BY <1>1 DEF Numbered, SameUpTo
<1>3. SumTo(e, n + 1) = SumTo(e, n) + e[n + 1]
    BY <1>2, SumToNext
<1>4. SumTo(e, n) = SumTo(f, n)
    BY <1>2, SumToAlike
<1> QED
    BY <1>1, <1>3, <1>4 DEF e

(* Each step adds the bytes of the member it stores, and no other step      *)
(* adds any.                                                                *)
LEMMA BytesStep == BInv /\ [Next]_vars => BInv'
<1> SUFFICES ASSUME BInv, [Next]_vars PROVE BInv'
    OBVIOUS
<1>0. /\ PInv' /\ CInv' /\ TInv /\ Dealt /\ Told /\ BytesKept
      /\ zip \in Seq(Members) /\ outcome \in Seq(Outcomes) /\ counts \in Tallies
    BY PromiseStep, CountsStep DEF BInv, PInv, TInv, TypeOK
<1>1. CASE UNCHANGED <<counts, outcome, zip>>
    BY <1>0, <1>1 DEF BInv, BytesKept, Kept
<1>2. CASE Skip \/ ReadRaises
  <2>1. /\ zip' = zip /\ counts'.written = counts.written
        /\ outcome' = Append(outcome, "skipped") \/ outcome' = Append(outcome, "unread")
      BY <1>0, <1>2 DEF Skip, ReadRaises, Counted, Tallies
  <2>2. Kept' = Kept
      BY <1>0, <2>1, KeptStays
  <2> QED
      BY <1>0, <2>1, <2>2 DEF BInv, BytesKept
<1>3. ASSUME pc = "store"
      PROVE  /\ Says \in Nat /\ Says <= Size /\ Size \in Nat /\ spool \in Seq(Chunks)
             /\ k = Len(outcome) + 1
  <2>1. Node \in Nodes
      BY <1>0, <1>3 DEF TInv, TypeOK, Where, Node
  <2>2. Size \in Nat
      BY <2>1, LayoutType DEF Size
  <2>3. k \in Nat /\ Len(outcome) = k - 1 /\ spool \in Seq(Chunks) /\ TypeOK
      BY <1>0, <1>3 DEF Dealt, TInv, TypeOK
  <2> QED
      BY <2>2, <2>3, SaysType
<1>4. Kept \in Seq(Nat) /\ Len(Kept) = Len(zip) /\ Len(zip) \in Nat
    BY <1>0, KeptType
<1>5. ASSUME NEW chunks \in Seq(Chunks), NEW o, pc = "store",
             zip' = Append(zip, Member(Says, chunks)), outcome' = Append(outcome, o),
             counts'.written = counts.written
                                   + (IF o \in {"whole", "short"} THEN Says ELSE 0)
      PROVE  BInv'
  <2> DEFINE x == IF o \in {"whole", "short"} THEN Says ELSE 0
  <2>1. Member(Says, chunks) \in Members
      BY <1>0, <1>3, <1>5, MemberType DEF TInv
  <2>2. Member(Says, chunks).entry = Len(outcome) + 1 /\ Member(Says, chunks).says = Says
      BY <1>3, <1>5 DEF Member
  <2>3. Kept' = Append(Kept, x)
      BY <1>0, <1>5, <2>1, <2>2, KeptAppend
  <2>4. x \in Nat
      BY <1>3, <1>5
  <2> HIDE DEF x
  <2>5. SumTo(Append(Kept, x), Len(zip) + 1) = SumTo(Kept, Len(zip)) + x
      BY <1>4, <2>4, SumAppend
  <2>6. counts'.written = SumTo(Kept, Len(zip)) + x
      BY <1>0, <1>5 DEF BytesKept, x
  <2>7. Len(zip') = Len(zip) + 1
      BY <1>0, <1>5, <2>1
  <2>8. BytesKept'
      BY <2>3, <2>5, <2>6, <2>7 DEF BytesKept
  <2> QED
      BY <1>0, <2>3, <2>8 DEF BInv
<1>6. CASE Store
  <2>1. pc = "store" /\ zip' = Append(zip, Member(Says, spool))
      BY <1>6 DEF Store
  <2>2. CASE Says < Size
    <3>1. outcome' = Append(outcome, "short") /\ counts'.written = counts.written + Says
        BY <1>0, <1>6, <2>2 DEF Store, Counted, Tallies
    <3> QED
        BY <1>3, <1>5, <2>1, <3>1
  <2>3. CASE ~(Says < Size)
    <3>1. outcome' = Append(outcome, "whole") /\ counts'.written = counts.written + Size
        BY <1>0, <1>6, <2>3 DEF Store, Counted, Tallies
    <3>2. Size = Says
        BY <1>3, <2>1, <2>3
    <3> QED
        BY <1>3, <1>5, <2>1, <3>1, <3>2
  <2> QED
      BY <2>2, <2>3
<1>7. CASE StoreRaises
  <2>1. /\ pc = "store" /\ outcome' = Append(outcome, "unstored")
        /\ counts'.written = counts.written /\ counts.written \in Nat
      BY <1>0, <1>7 DEF StoreRaises, Counted, Tallies
  <2>2. CASE zip' = zip
    <3>1. Kept' = Kept
        BY <1>0, <2>1, <2>2, KeptStays
    <3> QED
        BY <1>0, <2>1, <2>2, <3>1 DEF BInv, BytesKept
  <2>3. ASSUME NEW n \in 0..Len(spool), zip' = Append(zip, Member(Says, SubSeq(spool, 1, n)))
        PROVE  BInv'
    <3>1. SubSeq(spool, 1, n) \in Seq(Chunks)
        BY <1>3, <2>1
    <3>2. counts'.written = counts.written + 0
        BY <2>1
    <3> QED
        BY <1>5, <2>1, <2>3, <3>1, <3>2
  <2> QED
      BY <1>7, <2>2, <2>3 DEF StoreRaises
<1>8. Collect \/ Begin \/ Open \/ FollowPointer \/ YieldHole \/ ReadData \/ Report \/ Return \/ UNCHANGED vars
      => UNCHANGED <<counts, outcome, zip>>
    BY DEF Collect, Begin, Open, FollowPointer, YieldHole, ReadData, Report, Return, vars
<1> QED
    BY <1>1, <1>2, <1>6, <1>7, <1>8 DEF Next

(* The tally extract_to_zip() returns is what became of the entries, and    *)
(* the bytes it counts are those of the members stored, whichever steps     *)
(* failed.                                                                  *)
THEOREM TallyIsWhatHappened == Spec => []Accounted
<1>1. Init => CInv
  <2> SUFFICES ASSUME Init PROVE CInv
      OBVIOUS
  <2>1. \A w : {i \in DOMAIN outcome : outcome[i] = w} = {}
      BY DEF Init
  <2>2. \A w : With(w) = 0
      BY <2>1, FS_EmptySet DEF With
  <2> QED
      BY <2>2, TypeInit DEF Init, CInv, CountsKept
<1>2. Init => BytesKept
  <2> SUFFICES ASSUME Init PROVE BytesKept
      OBVIOUS
  <2>1. zip = << >> /\ counts.written = 0
      BY DEF Init
  <2>2. SumTo(Kept, 0) = 0
      BY SumToZero
  <2> QED
      BY <2>1, <2>2 DEF BytesKept
<1>3. Init => BInv
    BY <1>1, <1>2, PromiseInit DEF BInv
<1>4. BInv => Accounted
    BY DEF BInv, CInv, CountsKept, BytesKept, Accounted
<1> QED
    BY <1>3, <1>4, BytesStep, PTL DEF Spec

-----------------------------------------------------------------------------
(***************************************************************************)
(* What the Report pane keeps for any number of runs, of pipes and of       *)
(* lines: no line of an earlier run, the lines of a stream in their order,  *)
(* and, once the window says how a run ended, all of them.  Once poll() has *)
(* raised the window no longer says how the run ended.                      *)
(*                                                                         *)
(* poll() finds the queue empty and only then looks at open_streams, and in *)
(* between a pump may put more.  What makes that right is that open_streams *)
(* counts the streams of which something may yet be taken: those whose pump *)
(* is reading or whose end is in the queue.  A line in the queue is of such *)
(* a stream, so when the count is zero the queue is empty after all.        *)
(***************************************************************************)

(* The items of q_out are of the current run; the end of a stream is put    *)
(* once, last, by its pump.                                                 *)
EndAt(s, i) == qOut[i][2] = s /\ qOut[i][3] = EOF
EndQueued(s) == \E i \in DOMAIN qOut : EndAt(s, i)
Pending == {s \in Streams : pump[run][s] = "reading" \/ EndQueued(s)}

QueueOwned == \A i \in DOMAIN qOut : qOut[i][1] = run
EndAfterPump == \A s \in Streams : EndQueued(s) => pump[run][s] = "ended"
EndIsOne ==
    \A i, j \in DOMAIN qOut :
        qOut[i][3] = EOF /\ qOut[j][3] = EOF /\ qOut[i][2] = qOut[j][2] => i = j
EndIsLast ==
    \A i \in DOMAIN qOut :
        \/ pump[run][qOut[i][2]] = "reading"
        \/ \E j \in DOMAIN qOut : i <= j /\ EndAt(qOut[i][2], j)
QueueInv == QueueOwned /\ EndAfterPump /\ EndIsOne /\ EndIsLast

CountInv == run > 0 => openStreams = Cardinality(Pending)

(* A pump that ended had taken all of a child that is gone; only the        *)
(* current run has a child or a pump at work; a later one has nothing.      *)
EndedPumps ==
    \A r \in Runs : \A s \in Streams :
        pump[r][s] = "ended" => ~Alive(r) /\ pumped[r][s] = wrote[r][s]
OneRun ==
    \A r \in Runs :
        /\ r # run => ~Alive(r) /\ \A s \in Streams : pump[r][s] # "reading"
        /\ r > run => \A s \in Streams : wrote[r][s] = 0 /\ pumped[r][s] = 0
        /\ r <= run => child[r] # "none" /\ \A s \in Streams : pump[r][s] # "none"

(* Between runs nothing is under way.                                       *)
AtRest ==
    /\ qOut = << >> /\ openStreams = 0 /\ ~pollDue /\ main = "idle"
    /\ \A r \in Runs : ~Alive(r) /\ \A s \in Streams : pump[r][s] # "reading"
RestInv ==
    /\ bRun => AtRest
    /\ ~bRun => run > 0
    /\ dialog = "start" => bRun /\ run < MaxRuns
    /\ main # "idle" => ~pollDue

ReportInv == QueueInv /\ CountInv /\ EndedPumps /\ OneRun /\ RestInv

-----------------------------------------------------------------------------
(* The streams can be counted.                                              *)
LEMMA StreamsFinite ==
    /\ IsFiniteSet(Streams)
    /\ Cardinality(Streams) \in Nat
    /\ \A S \in SUBSET Streams :
          IsFiniteSet(S) /\ Cardinality(S) \in Nat /\ Cardinality(S) <= Cardinality(Streams)
    BY WindowAssumption, FS_CardinalityType, FS_Subset

(* The empty sequence is one of any set.                                    *)
LEMMA EmptyFacts == \A S : << >> \in Seq(S)
    OBVIOUS

(* What appending an item does to a queue.                                  *)
LEMMA AppendFacts ==
    ASSUME NEW S, NEW q \in Seq(S), NEW e \in S
    PROVE  /\ Append(q, e) \in Seq(S)
           /\ DOMAIN q = 1..Len(q) /\ Len(q) \in Nat
           /\ DOMAIN Append(q, e) = 1..(Len(q) + 1)
           /\ \A i \in 1..Len(q) : Append(q, e)[i] = q[i]
           /\ Append(q, e)[Len(q) + 1] = e
    OBVIOUS

(* What taking the first item does to a queue.                              *)
LEMMA TailFacts ==
    ASSUME NEW S, NEW q \in Seq(S), q # << >>
    PROVE  /\ Tail(q) \in Seq(S) /\ Head(q) \in S
           /\ DOMAIN q = 1..Len(q) /\ Len(q) \in Nat \ {0}
           /\ DOMAIN Tail(q) = 1..(Len(q) - 1)
           /\ \A i \in 1..(Len(q) - 1) : Tail(q)[i] = q[i + 1]
           /\ Head(q) = q[1]
    OBVIOUS

(* The type of the variables the report and the contents panes keep, apart. *)
LEMMA PartsType ==
    ASSUME WindowTypeOK
    PROVE  /\ run \in 0..MaxRuns /\ MaxRuns \in Nat
           /\ run \in Nat /\ (run > 0 => run \in Runs) /\ \A r \in Runs : r \in Nat \ {0}
           /\ qOut \in Seq(Items) /\ text \in Seq(Items)
           /\ \A r \in Runs : \A s \in Streams : pumped[r][s] \in Nat /\ wrote[r][s] \in Nat
<1>1. run \in 0..MaxRuns /\ qOut \in Seq(Items) /\ text \in Seq(Items)
    BY DEF WindowTypeOK
<1>2. wrote \in [Runs -> [Streams -> Nat]] /\ pumped \in [Runs -> [Streams -> Nat]]
    BY DEF WindowTypeOK
<1>3. \A r \in Runs : r \in Nat \ {0}
    BY WindowAssumption DEF Runs
<1>4. MaxRuns \in Nat /\ run \in Nat /\ (run > 0 => run \in Runs)
    BY <1>1, WindowAssumption DEF Runs
<1> QED
    BY <1>1, <1>2, <1>3, <1>4

(* What the two kinds of step that touch q_out do to what is in it.         *)
LEMMA PumpLineStep ==
    ASSUME WindowTypeOK, ReportInv, NEW r \in Runs, NEW s \in Streams, PumpLine(r, s)
    PROVE  ReportInv'
<1>1. r = run /\ run > 0 /\ ~bRun
    BY DEF ReportInv, OneRun, RestInv, AtRest, PumpLine, Runs, WindowTypeOK
<1> DEFINE e == <<run, s, pumped[run][s] + 1>>
<1>2. /\ qOut' = Append(qOut, e) /\ qOut \in Seq(Items) /\ e \in Items
      /\ e[1] = run /\ e[2] = s /\ e[3] # EOF
  <2>1. pumped[run][s] + 1 \in Nat /\ pumped[run][s] + 1 # 0 /\ run \in Runs
    BY <1>1, PartsType
  <2> QED
    BY <1>1, <2>1, PartsType DEF PumpLine, Items, EOF
<1> HIDE DEF e
<1>3. /\ DOMAIN qOut = 1..Len(qOut) /\ Len(qOut) \in Nat
      /\ DOMAIN qOut' = 1..(Len(qOut) + 1)
      /\ \A i \in 1..Len(qOut) : qOut'[i] = qOut[i]
      /\ qOut'[Len(qOut) + 1] = e
    BY <1>2, AppendFacts
<1>4. UNCHANGED <<run, child, wrote, pump, openStreams, pollDue, bRun, main, dialog>>
      /\ pumped' = [pumped EXCEPT ![run][s] = @ + 1] /\ pump[run][s] = "reading"
    BY <1>1 DEF PumpLine, conVars
<1>5. \A x \in Streams : EndQueued(x)' <=> EndQueued(x)
    BY <1>2, <1>3, <1>4 DEF EndQueued, EndAt
<1>6. QueueInv'
  <2>1. QueueOwned'
    BY <1>2, <1>3, <1>4 DEF ReportInv, QueueInv, QueueOwned
  <2>2. EndAfterPump'
    BY <1>4, <1>5 DEF ReportInv, QueueInv, EndAfterPump
  <2>3. EndIsOne'
    BY <1>2, <1>3, <1>4 DEF ReportInv, QueueInv, EndIsOne
  <2>4. EndIsLast'
    BY <1>2, <1>3, <1>4 DEF ReportInv, QueueInv, EndIsLast, EndAt
  <2> QED
    BY <2>1, <2>2, <2>3, <2>4 DEF QueueInv
<1>7. Pending' = Pending
    BY <1>4, <1>5 DEF Pending
<1>8. CountInv'
    BY <1>4, <1>7 DEF ReportInv, CountInv
<1>9. EndedPumps' /\ OneRun'
  <2>1. \A q \in Runs : \A x \in Streams :
            ~(q = run /\ x = s) => pumped'[q][x] = pumped[q][x]
    BY <1>1, <1>4 DEF WindowTypeOK
  <2> QED
    BY <1>1, <1>4, <2>1, PartsType DEF ReportInv, EndedPumps, OneRun, Alive
<1>10. RestInv'
    BY <1>1, <1>4 DEF ReportInv, RestInv
<1> QED
    BY <1>6, <1>8, <1>9, <1>10 DEF ReportInv

(* The end of a stream: its pump still counts as open, until poll() takes   *)
(* the mark.                                                                *)
LEMMA PumpEndsStep ==
    ASSUME WindowTypeOK, ReportInv, NEW r \in Runs, NEW s \in Streams, PumpEnds(r, s)
    PROVE  ReportInv'
<1>1. r = run /\ run > 0 /\ ~bRun
    BY DEF ReportInv, OneRun, RestInv, AtRest, PumpEnds, Runs, WindowTypeOK
<1> DEFINE e == <<run, s, EOF>>
<1>2. /\ qOut' = Append(qOut, e) /\ qOut \in Seq(Items) /\ e \in Items
      /\ e[1] = run /\ e[2] = s /\ e[3] = EOF
    BY <1>1, PartsType DEF PumpEnds, Items, EOF
<1> HIDE DEF e
<1>3. /\ DOMAIN qOut = 1..Len(qOut) /\ Len(qOut) \in Nat
      /\ DOMAIN qOut' = 1..(Len(qOut) + 1)
      /\ \A i \in 1..Len(qOut) : qOut'[i] = qOut[i]
      /\ qOut'[Len(qOut) + 1] = e
    BY <1>2, AppendFacts
<1>4. /\ UNCHANGED <<run, child, wrote, pumped, openStreams, pollDue, bRun, main, dialog>>
      /\ pump' = [pump EXCEPT ![run][s] = "ended"]
      /\ pump[run][s] = "reading" /\ pumped[run][s] = wrote[run][s] /\ ~Alive(run)
    BY <1>1 DEF PumpEnds, conVars
<1>5. /\ pump'[run][s] = "ended"
      /\ \A x \in Streams \ {s} : pump'[run][x] = pump[run][x]
      /\ \A q \in Runs \ {run} : pump'[q] = pump[q]
    BY <1>1, <1>4 DEF WindowTypeOK
<1>6. ~EndQueued(s)
    BY <1>4 DEF ReportInv, QueueInv, EndAfterPump
<1>7. EndQueued(s)'
    BY <1>2, <1>3 DEF EndQueued, EndAt
<1>8. \A x \in Streams \ {s} : EndQueued(x)' <=> EndQueued(x)
    BY <1>2, <1>3 DEF EndQueued, EndAt
<1>9. QueueInv'
  <2>1. QueueOwned'
    BY <1>2, <1>3, <1>4 DEF ReportInv, QueueInv, QueueOwned
  <2>2. EndAfterPump'
    BY <1>4, <1>5, <1>8 DEF ReportInv, QueueInv, EndAfterPump
  <2>3. EndIsOne'
    BY <1>2, <1>3, <1>6 DEF ReportInv, QueueInv, EndIsOne, EndQueued, EndAt
  <2>4. EndIsLast'
    <3> SUFFICES ASSUME NEW i \in DOMAIN qOut',
                        ~(pump'[run][qOut'[i][2]] = "reading")
                 PROVE  \E j \in DOMAIN qOut' : i <= j /\ qOut'[j][2] = qOut'[i][2] /\ qOut'[j][3] = EOF
        BY <1>4 DEF EndIsLast, EndAt
    <3>1. CASE qOut'[i][2] = s
        BY <3>1, <1>2, <1>3 DEF EndAt
    <3>2. CASE qOut'[i][2] # s
      <4>1. i \in 1..Len(qOut) /\ qOut'[i] = qOut[i] /\ qOut[i][2] \in Streams \ {s}
        BY <3>2, <1>2, <1>3 DEF Items
      <4>2. PICK j \in DOMAIN qOut : i <= j /\ EndAt(qOut[i][2], j)
        BY <4>1, <1>3, <1>5 DEF ReportInv, QueueInv, EndIsLast
      <4> QED
        BY <4>1, <4>2, <1>3 DEF EndAt
    <3> QED
        BY <3>1, <3>2
  <2> QED
    BY <2>1, <2>2, <2>3, <2>4 DEF QueueInv
<1>10. Pending' = Pending
    BY <1>4, <1>5, <1>7, <1>8 DEF Pending
<1>11. CountInv'
    BY <1>4, <1>10 DEF ReportInv, CountInv
<1>12. EndedPumps' /\ OneRun'
    BY <1>1, <1>4, <1>5, PartsType DEF ReportInv, EndedPumps, OneRun, Alive
<1>13. RestInv'
    BY <1>1, <1>4 DEF ReportInv, RestInv
<1> QED
    BY <1>9, <1>11, <1>12, <1>13 DEF ReportInv

(* poll() takes an item: an end mark lowers the count as it leaves the      *)
(* queue, a line is of this run, whether poll() raises over it or not.      *)
LEMMA PollItemStep ==
    ASSUME WindowTypeOK, ReportInv, PollItem \/ PollRaises
    PROVE  ReportInv' /\ openStreams' \in 0..Cardinality(Streams)
<1>1. ~bRun /\ run > 0 /\ run \in Runs
    BY PartsType DEF ReportInv, RestInv, AtRest, PollItem, PollRaises
<1>s. PICK s : s = qOut[1][2]
    OBVIOUS
<1>2. /\ qOut' = Tail(qOut) /\ qOut \in Seq(Items) /\ qOut # << >>
    BY DEF PollItem, PollRaises, WindowTypeOK
<1>3. /\ DOMAIN qOut = 1..Len(qOut) /\ Len(qOut) \in Nat \ {0}
      /\ DOMAIN qOut' = 1..(Len(qOut) - 1)
      /\ \A i \in 1..(Len(qOut) - 1) : qOut'[i] = qOut[i + 1]
      /\ Head(qOut) = qOut[1]
      /\ \A i \in 1..Len(qOut) : qOut[i] \in Items
    BY <1>2, TailFacts
<1>4. /\ UNCHANGED <<run, child, wrote, pumped, pump, pollDue, bRun, dialog>>
      /\ main = "drain" /\ main' \in {"drain", "lost"}
      /\ openStreams' = IF qOut[1][3] = EOF THEN openStreams - 1 ELSE openStreams
    BY <1>3 DEF PollItem, PollRaises, conVars
<1>5. s \in Streams
    BY <1>s, <1>3 DEF Items
<1>6. \A x \in Streams : EndQueued(x)' => EndQueued(x)
    BY <1>3 DEF EndQueued, EndAt
<1>7. \A x \in Streams : EndQueued(x) /\ ~(qOut[1][3] = EOF /\ x = s) => EndQueued(x)'
  <2> SUFFICES ASSUME NEW x \in Streams, EndQueued(x), ~(qOut[1][3] = EOF /\ x = s)
               PROVE  EndQueued(x)'
    OBVIOUS
  <2>1. PICK i \in DOMAIN qOut : EndAt(x, i)
    BY DEF EndQueued
  <2>2. i # 1
    BY <1>s, <2>1 DEF EndAt
  <2>3. i - 1 \in DOMAIN qOut' /\ qOut'[i - 1] = qOut[i]
    BY <2>1, <2>2, <1>3
  <2> QED
    BY <2>1, <2>3 DEF EndQueued, EndAt
<1>8. QueueInv'
  <2>1. QueueOwned'
    BY <1>3, <1>4 DEF ReportInv, QueueInv, QueueOwned
  <2>2. EndAfterPump'
    BY <1>4, <1>6 DEF ReportInv, QueueInv, EndAfterPump
  <2>3. EndIsOne'
    <3> SUFFICES ASSUME NEW i \in DOMAIN qOut', NEW j \in DOMAIN qOut',
                        qOut'[i][3] = EOF, qOut'[j][3] = EOF, qOut'[i][2] = qOut'[j][2]
                 PROVE  i = j
        BY DEF EndIsOne
    <3>1. i + 1 \in DOMAIN qOut /\ j + 1 \in DOMAIN qOut /\ i \in Int /\ j \in Int
        BY <1>3
    <3>2. i + 1 = j + 1
        BY <1>3, <3>1 DEF ReportInv, QueueInv, EndIsOne
    <3> QED
        BY <3>1, <3>2
  <2>4. EndIsLast'
    <3> SUFFICES ASSUME NEW i \in DOMAIN qOut',
                        ~(pump[run][qOut'[i][2]] = "reading")
                 PROVE  \E j \in DOMAIN qOut' : i <= j /\ qOut'[j][2] = qOut'[i][2] /\ qOut'[j][3] = EOF
        BY <1>4 DEF EndIsLast, EndAt
    <3>1. i + 1 \in DOMAIN qOut /\ i \in Int /\ qOut'[i] = qOut[i + 1]
        BY <1>3
    <3>2. PICK later \in DOMAIN qOut : i + 1 <= later /\ EndAt(qOut[i + 1][2], later)
        BY <3>1 DEF ReportInv, QueueInv, EndIsLast
    <3>3. later - 1 \in DOMAIN qOut' /\ qOut'[later - 1] = qOut[later] /\ i <= later - 1
        BY <3>1, <3>2, <1>3
    <3> QED
        BY <3>1, <3>2, <3>3 DEF EndAt
  <2> QED
    BY <2>1, <2>2, <2>3, <2>4 DEF QueueInv
<1>9. /\ Pending \in SUBSET Streams /\ IsFiniteSet(Pending)
      /\ openStreams = Cardinality(Pending)
    BY <1>1, StreamsFinite DEF Pending, ReportInv, CountInv
<1>10. openStreams' = Cardinality(Pending') /\ openStreams' \in 0..Cardinality(Streams)
  <2>1. CASE qOut[1][3] = EOF
    <3>1. EndQueued(s)
        BY <1>s, <2>1, <1>3 DEF EndQueued, EndAt
    <3>2. ~EndQueued(s)'
      <4> SUFFICES ASSUME NEW i \in DOMAIN qOut', qOut'[i][2] = s, qOut'[i][3] = EOF
                   PROVE  FALSE
        BY DEF EndQueued, EndAt
      <4>1. i + 1 \in DOMAIN qOut /\ 1 \in DOMAIN qOut /\ qOut'[i] = qOut[i + 1] /\ i + 1 # 1
        BY <1>3
      <4> QED
        BY <1>s, <4>1, <2>1 DEF ReportInv, QueueInv, EndIsOne
    <3>3. pump[run][s] # "reading"
        BY <3>1, <1>5 DEF ReportInv, QueueInv, EndAfterPump
    <3>4. s \in Pending /\ Pending' = Pending \ {s}
      <4>1. \A x \in Streams : x # s => (EndQueued(x)' <=> EndQueued(x))
        BY <1>6, <1>7
      <4> QED
        BY <3>1, <3>2, <3>3, <4>1, <1>4, <1>5 DEF Pending
    <3>5. Cardinality(Pending') = Cardinality(Pending) - 1 /\ Pending' \in SUBSET Streams
        BY <3>4, <1>9, FS_RemoveElement
    <3> QED
        BY <3>5, <2>1, <1>4, <1>9, StreamsFinite
  <2>2. CASE qOut[1][3] # EOF
    <3>1. Pending' = Pending
        BY <2>2, <1>4, <1>6, <1>7 DEF Pending
    <3> QED
        BY <3>1, <2>2, <1>4, <1>9, StreamsFinite
  <2> QED
    BY <2>1, <2>2
<1>11. EndedPumps' /\ OneRun' /\ RestInv'
    BY <1>1, <1>4 DEF ReportInv, EndedPumps, OneRun, Alive, RestInv
<1> QED
    BY <1>4, <1>8, <1>10, <1>11 DEF ReportInv, CountInv
(* A run is launched: the queue is empty, and both of its pumps count as    *)
(* open.                                                                    *)
LEMMA LaunchStep ==
    ASSUME WindowTypeOK, ReportInv, Launch
    PROVE  ReportInv' /\ run' \in 1..MaxRuns
<1>1. bRun /\ AtRest /\ run \in Nat /\ run + 1 \in Runs /\ run \in 0..MaxRuns
  <2>1. bRun /\ run < MaxRuns /\ AtRest
    BY DEF Launch, Answerable, ReportInv, RestInv
  <2> QED
    BY <2>1, PartsType DEF Runs
<1>2. /\ run' = run + 1 /\ bRun' = FALSE /\ dialog' = "none"
      /\ openStreams' = Cardinality(Streams)
      /\ child' = [child EXCEPT ![run + 1] = "running"]
      /\ pump' = [pump EXCEPT ![run + 1] = [s \in Streams |-> "reading"]]
      /\ UNCHANGED <<wrote, pumped, qOut, main>>
    BY DEF Launch
<1>3. /\ child'[run + 1] = "running" /\ \A s \in Streams : pump'[run + 1][s] = "reading"
      /\ \A r \in Runs : r # run + 1 => child'[r] = child[r] /\ pump'[r] = pump[r]
    BY <1>1, <1>2 DEF WindowTypeOK
<1>4. qOut' = << >>
    BY <1>1, <1>2 DEF AtRest
<1>5. QueueInv'
    BY <1>4 DEF QueueInv, QueueOwned, EndAfterPump, EndIsOne, EndIsLast, EndQueued
<1>6. Pending' = Streams
    BY <1>2, <1>3 DEF Pending
<1>7. CountInv'
    BY <1>2, <1>6 DEF CountInv
<1>8. EndedPumps'
    BY <1>1, <1>2, <1>3 DEF EndedPumps, ReportInv, Alive
<1>9. OneRun'
    BY <1>1, <1>2, <1>3, PartsType DEF OneRun, AtRest, ReportInv, Alive
<1>10. RestInv'
    BY <1>1, <1>2 DEF RestInv, AtRest
<1> QED
    BY <1>1, <1>2, <1>5, <1>7, <1>8, <1>9, <1>10 DEF ReportInv, Runs

(* finish() is called when no stream is open: the queue is empty after all. *)
LEMMA NothingLeft ==
    ASSUME WindowTypeOK, ReportInv, openStreams = 0, run > 0
    PROVE  qOut = << >> /\ \A s \in Streams : pump[run][s] # "reading"
<1>1. Pending \in SUBSET Streams /\ Cardinality(Pending) = 0 /\ IsFiniteSet(Pending)
    BY StreamsFinite DEF Pending, ReportInv, CountInv
<1>2. Pending = {}
    BY <1>1, FS_EmptySet
<1>3. \A s \in Streams : pump[run][s] # "reading" /\ ~EndQueued(s)
    BY <1>2 DEF Pending
<1>4. qOut \in Seq(Items)
    BY PartsType
<1>5. \A i \in DOMAIN qOut : qOut[i][2] \in Streams
    BY <1>4 DEF Items
<1>6. \A i \in DOMAIN qOut : EndQueued(qOut[i][2])
    BY <1>3, <1>5 DEF ReportInv, QueueInv, EndIsLast, EndQueued
<1>7. DOMAIN qOut = {}
    BY <1>3, <1>5, <1>6
<1> QED
    BY <1>3, <1>4, <1>7

(* The run finishes: no stream is open, so its pumps have ended and the     *)
(* queue is empty.                                                          *)
LEMMA FinishStep ==
    ASSUME WindowTypeOK, ReportInv, Finish
    PROVE  ReportInv' /\ qOut = << >> /\ run > 0 /\ child[run] \in {"ok", "failed", "killed"}
<1>1. /\ ~bRun /\ run > 0 /\ ~pollDue /\ run \in Runs
      /\ openStreams = 0 /\ ~Alive(run)
    BY PartsType DEF Finish, ReportInv, RestInv, AtRest
<1>2. qOut = << >> /\ \A s \in Streams : pump[run][s] # "reading"
    BY <1>1, NothingLeft
<1>3. /\ UNCHANGED <<run, child, wrote, pumped, pump, qOut, openStreams, pollDue, dialog>>
      /\ bRun' = TRUE /\ main' = "idle"
    BY DEF Finish, conVars
<1>4. child[run] \in {"ok", "failed", "killed"}
  <2>1. child[run] \in {"none", "running", "ok", "failed", "killed"}
    BY <1>1 DEF WindowTypeOK
  <2> QED
    BY <1>1, <2>1, PartsType DEF ReportInv, OneRun, Alive
<1>5. QueueInv' /\ CountInv' /\ EndedPumps' /\ OneRun'
    BY <1>3 DEF ReportInv, QueueInv, QueueOwned, EndAfterPump, EndIsOne, EndIsLast, EndQueued,
                EndAt, CountInv, Pending, EndedPumps, OneRun, Alive
<1>6. \A r \in Runs : ~Alive(r) /\ \A s \in Streams : pump[r][s] # "reading"
    BY <1>1, <1>2 DEF ReportInv, OneRun
<1>7. AtRest'
    BY <1>1, <1>2, <1>3, <1>6 DEF AtRest, Alive
<1>8. dialog # "start"
    BY <1>1 DEF ReportInv, RestInv
<1>9. RestInv'
    BY <1>3, <1>7, <1>8 DEF RestInv
<1> QED
    BY <1>1, <1>2, <1>4, <1>5, <1>9 DEF ReportInv

(* The child and its end touch neither the queue nor the buttons.           *)
LEMMA ChildStep ==
    ASSUME WindowTypeOK, ReportInv, NEW r \in Runs, Child(r)
    PROVE  /\ ReportInv' /\ r = run /\ run > 0 /\ ~bRun
           /\ UNCHANGED <<run, pumped, pump, qOut, text, bRun, main, status>>
           /\ wrote' \in [Runs -> [Streams -> Nat]]
<1>1. /\ Alive(r)
      /\ UNCHANGED <<run, pumped, pump, qOut, openStreams, pollDue, bRun, main, dialog,
                     text, status>>
      /\ wrote' \in [Runs -> [Streams -> Nat]]
      /\ \A q \in Runs : q # r => wrote'[q] = wrote[q] /\ child'[q] = child[q]
      /\ child'[r] # "none"
  <2>1. CASE Exit(r) \/ Killed(r)
    BY <2>1 DEF Exit, Killed, WindowTypeOK, conVars, Alive
  <2>2. ASSUME NEW s \in Streams, Write(r, s)
        PROVE  /\ Alive(r)
               /\ UNCHANGED <<run, pumped, pump, qOut, openStreams, pollDue, bRun, main,
                              dialog, text, status>>
               /\ wrote' \in [Runs -> [Streams -> Nat]]
               /\ \A q \in Runs : q # r => wrote'[q] = wrote[q] /\ child'[q] = child[q]
               /\ child'[r] # "none"
    <3>1. /\ wrote \in [Runs -> [Streams -> Nat]] /\ Alive(r)
          /\ wrote' = [wrote EXCEPT ![r][s] = @ + 1]
          /\ UNCHANGED <<run, child, pumped, pump, qOut, openStreams, pollDue, bRun, main,
                         dialog, text, status>>
        BY <2>2 DEF Write, WindowTypeOK, conVars
    <3> QED
        BY <3>1 DEF Alive
  <2> QED
    BY <2>1, <2>2 DEF Child
<1>2. r = run /\ run > 0 /\ ~bRun
    BY <1>1, PartsType DEF ReportInv, OneRun, RestInv, AtRest
<1>3. QueueInv' /\ CountInv'
    BY <1>1 DEF ReportInv, QueueInv, QueueOwned, EndAfterPump, EndIsOne, EndIsLast, EndQueued,
                EndAt, CountInv, Pending
<1>4. EndedPumps'
  <2>1. \A s \in Streams : pump[r][s] # "ended"
    BY <1>1 DEF ReportInv, EndedPumps
  <2> QED
    BY <1>1, <2>1 DEF ReportInv, EndedPumps, Alive
<1>5. OneRun'
  <2>1. \A q \in Runs : q # run => ~Alive(q) /\ ~Alive(q)'
    BY <1>1, <1>2 DEF ReportInv, OneRun, Alive
  <2>2. \A q \in Runs : q > run => \A s \in Streams : wrote'[q][s] = 0 /\ pumped'[q][s] = 0
    <3> SUFFICES ASSUME NEW q \in Runs, q > run, NEW s \in Streams
                 PROVE  wrote'[q][s] = 0 /\ pumped'[q][s] = 0
        OBVIOUS
    <3>1. q # run /\ wrote[q][s] = 0 /\ pumped[q][s] = 0
        BY PartsType DEF ReportInv, OneRun
    <3> QED
        BY <3>1, <1>1, <1>2
  <2>3. \A q \in Runs : q <= run => child'[q] # "none"
    BY <1>1, <1>2 DEF ReportInv, OneRun
  <2> QED
    BY <1>1, <2>1, <2>2, <2>3 DEF ReportInv, OneRun
<1>6. RestInv'
    BY <1>1, <1>2 DEF ReportInv, RestInv
<1> QED
    BY <1>1, <1>2, <1>3, <1>4, <1>5, <1>6 DEF ReportInv

(* Every other step leaves the run alone, but for whether poll() is due or  *)
(* under way while the run lasts, and for which prompt is up.               *)
Quiet ==
    \/ StartRefused \/ LaunchFails \/ Start \/ Poll \/ PollEmpty \/ PollAgain
    \/ Cancel \/ Load \/ LoadRefused \/ LoadBegins \/ WorkerAnswers \/ PollContents
    \/ Dismiss \/ Close \/ UNCHANGED windowVars

QuietPart ==
    /\ UNCHANGED <<run, child, wrote, pumped, pump, qOut, openStreams>>
    /\ (bRun' = bRun /\ text' = text) \/ (bRun /\ bRun' = TRUE /\ text' = << >>)
    /\ (main' = main /\ pollDue' = pollDue) \/ (~bRun /\ (main' = "idle" \/ ~pollDue'))
    /\ dialog' = "start" => dialog = "start" \/ (bRun /\ run < MaxRuns)
    /\ status' = status \/ status' \in {"ready", "reading", "not started"}
    /\ text' = text \/ status' = "not started"
    /\ main' \in {"idle", "drain", "check", "lost"} /\ pollDue' \in BOOLEAN
    /\ main = "lost" => main' = "lost"

(* A step that leaves the queue, the pumps and the count alone.             *)
LEMMA QuietStep ==
    ASSUME WindowTypeOK, ReportInv, Quiet
    PROVE  QuietPart
<1> USE DEF runVars, reportVars, conVars, DoneLoading
<1>1. main \in {"idle", "drain", "check", "lost"} /\ pollDue \in BOOLEAN /\ bRun \in BOOLEAN
    BY DEF WindowTypeOK
<1>2. /\ pollDue \/ main # "idle" => ~bRun
      /\ dialog = "start" => bRun
      /\ main # "idle" => ~pollDue
    BY DEF ReportInv, RestInv, AtRest
<1>3. ASSUME Start \/ StartRefused \/ LoadRefused \/ LoadBegins \/ Load \/ Cancel \/ WorkerAnswers
             \/ PollContents \/ Dismiss \/ Close \/ UNCHANGED windowVars
      PROVE  QuietPart
  <2>1. UNCHANGED <<run, child, wrote, pumped, pump, qOut, openStreams, bRun, text, main, pollDue>>
    <3>1. CASE Start
        BY <3>1 DEF Start
    <3>2. CASE StartRefused
        BY <3>2 DEF StartRefused
    <3>3. CASE LoadRefused
        BY <3>3 DEF LoadRefused
    <3>4. CASE LoadBegins
        BY <3>4 DEF LoadBegins
    <3>5. CASE Load
        BY <3>5 DEF Load
    <3>6. CASE Cancel
        BY <3>6 DEF Cancel
    <3>7. CASE WorkerAnswers
        BY <3>7 DEF WorkerAnswers
    <3>8. CASE PollContents
        BY <3>8 DEF PollContents
    <3>9. CASE Dismiss
        BY <3>9 DEF Dismiss
    <3>10. CASE Close
        BY <3>10 DEF Close
    <3>11. CASE UNCHANGED windowVars
        BY <3>11 DEF windowVars
    <3> QED
        BY <1>3, <3>1, <3>2, <3>3, <3>4, <3>5, <3>6, <3>7, <3>8, <3>9, <3>10, <3>11
  <2>2. dialog' = "start" => dialog = "start" \/ (bRun /\ run < MaxRuns)
    BY <1>3 DEF Start, StartRefused, LoadRefused, LoadBegins, Load, Cancel, WorkerAnswers,
                PollContents, Dismiss, Close, windowVars
  <2>3. status' = status \/ status' \in {"ready", "reading", "not started"}
    BY <1>3 DEF Start, StartRefused, LoadRefused, LoadBegins, Load, Cancel, WorkerAnswers,
                PollContents, Dismiss, Close, windowVars
  <2>4. /\ UNCHANGED <<run, child, wrote, pumped, pump, qOut, openStreams>>
        /\ bRun' = bRun /\ text' = text /\ main' = main /\ pollDue' = pollDue
    BY <2>1
  <2> QED
    BY <1>1, <2>2, <2>3, <2>4 DEF QuietPart
<1>4. CASE LaunchFails
    BY <1>1, <1>2, <1>4 DEF QuietPart, LaunchFails, Answerable
<1>5. CASE Poll
    BY <1>1, <1>2, <1>5 DEF QuietPart, Poll, Callback
<1>6. CASE PollEmpty
    BY <1>1, <1>2, <1>6 DEF QuietPart, PollEmpty
<1>7. CASE PollAgain
    BY <1>1, <1>2, <1>7 DEF QuietPart, PollAgain
<1> QED
    BY <1>3, <1>4, <1>5, <1>6, <1>7 DEF Quiet

(* Such a step keeps the invariant of the report.                           *)
LEMMA QuietKeepsInv ==
    ASSUME WindowTypeOK, ReportInv, QuietPart
    PROVE  ReportInv'
<1>1. QueueInv' /\ CountInv' /\ EndedPumps' /\ OneRun'
    BY DEF QuietPart, ReportInv, QueueInv, QueueOwned, EndAfterPump, EndIsOne, EndIsLast,
           EndQueued, EndAt, CountInv, Pending, EndedPumps, OneRun, Alive
<1>2. bRun => AtRest'
    BY DEF QuietPart, ReportInv, RestInv, AtRest, Alive
<1>3. bRun' = bRun
    BY DEF QuietPart, WindowTypeOK
<1>4. RestInv'
  <2>1. ~bRun' => run' > 0
    BY <1>3 DEF QuietPart, ReportInv, RestInv
  <2>2. dialog' = "start" => bRun' /\ run' < MaxRuns
    BY <1>3 DEF QuietPart, ReportInv, RestInv
  <2>3. main' # "idle" => ~pollDue'
    BY DEF QuietPart, ReportInv, RestInv
  <2>4. bRun' => AtRest'
    BY <1>2, <1>3
  <2> QED
    BY <2>1, <2>2, <2>3, <2>4 DEF RestInv
<1> QED
    BY <1>1, <1>4 DEF ReportInv

-----------------------------------------------------------------------------
(* The invariant of the report holds when the window opens.                 *)
LEMMA ReportInit == WindowInit => WindowTypeOK /\ ReportInv
<1> SUFFICES ASSUME WindowInit PROVE WindowTypeOK /\ ReportInv
    OBVIOUS
<1> USE DEF WindowInit
<1>1. WindowTypeOK
  <2>1. run \in 0..MaxRuns /\ openStreams \in 0..Cardinality(Streams)
    BY StreamsFinite, WindowAssumption
  <2>2. /\ child \in [Runs -> {"none", "running", "ok", "failed", "killed"}]
        /\ signalled \in [Runs -> BOOLEAN]
        /\ pump \in [Runs -> [Streams -> {"none", "reading", "ended"}]]
        /\ wrote \in [Runs -> [Streams -> Nat]] /\ pumped \in [Runs -> [Streams -> Nat]]
    OBVIOUS
  <2>3. qOut \in Seq(Items) /\ text \in Seq(Items) /\ qCon \in Seq({"ok", "err"} \X Images)
    OBVIOUS
  <2> QED
    BY <2>1, <2>2, <2>3 DEF WindowTypeOK
<1>2. QueueInv
    BY DEF QueueInv, QueueOwned, EndAfterPump, EndIsOne, EndIsLast, EndQueued
<1>3. CountInv /\ EndedPumps
    BY DEF CountInv, EndedPumps
<1>4. OneRun
    BY WindowAssumption DEF OneRun, Alive, Runs
<1>5. RestInv
    BY DEF RestInv, AtRest, Alive
<1> QED
    BY <1>1, <1>2, <1>3, <1>4, <1>5 DEF ReportInv

(* A step is one of these.                                                  *)
LEMMA StepKinds ==
    ASSUME [WindowNext]_windowVars
    PROVE  \/ \E r \in Runs : Child(r)
           \/ \E r \in Runs : \E s \in Streams : PumpLine(r, s) \/ PumpEnds(r, s)
           \/ PollItem \/ PollRaises \/ Launch \/ Finish \/ Quiet
    BY DEF WindowNext, Click, Answer, Polling, Pump, Quiet

(* Every step keeps the invariant of the report.                            *)
LEMMA ReportStep ==
    ASSUME WindowTypeOK, ReportInv, [WindowNext]_windowVars
    PROVE  ReportInv'
<1>1. CASE \E r \in Runs : Child(r)
    BY <1>1, ChildStep
<1>2. CASE \E r \in Runs : \E s \in Streams : PumpLine(r, s) \/ PumpEnds(r, s)
    BY <1>2, PumpLineStep, PumpEndsStep
<1>3. CASE PollItem \/ PollRaises
    BY <1>3, PollItemStep
<1>4. CASE Launch
    BY <1>4, LaunchStep
<1>5. CASE Finish
    BY <1>5, FinishStep
<1>6. CASE Quiet
    BY <1>6, QuietStep, QuietKeepsInv
<1> QED
    BY <1>1, <1>2, <1>3, <1>4, <1>5, <1>6, StepKinds

(* The Contents pane keeps its type because one load is under way at most:  *)
(* the path the worker answers with is still the one that was captured.     *)
ContentsType ==
    /\ bLoad \in BOOLEAN /\ loading \in Images \cup {Nothing}
    /\ worker \in {"none", "reading"} /\ qCon \in Seq({"ok", "err"} \X Images)
    /\ conDue \in BOOLEAN
    /\ fh \in Images \cup {Nothing} /\ tree \in Images \cup {Nothing}
    /\ box \in BOOLEAN /\ dialog \in {"none", "start", "load"}

LoadInv ==
    /\ bLoad => dialog # "load" /\ worker = "none" /\ qCon = << >> /\ ~box
    /\ ~bLoad =>
        /\ fh = Nothing /\ tree = Nothing
        /\ \/ dialog = "load" /\ worker = "none" /\ qCon = << >> /\ ~box /\ loading \in Images
           \/ dialog # "load" /\ worker = "reading" /\ qCon = << >> /\ ~box /\ loading \in Images
           \/ dialog # "load" /\ worker = "none" /\ Len(qCon) = 1 /\ ~box
           \/ dialog # "load" /\ worker = "none" /\ qCon = << >> /\ box

(* The invariant of the contents pane says what OneLoad says.               *)
LEMMA LoadInvIsOneLoad ==
    ASSUME ContentsType, LoadInv
    PROVE  OneLoad
<1>1. /\ bLoad \in BOOLEAN /\ Len(qCon) \in Nat /\ (qCon = << >> => Len(qCon) = 0)
      /\ worker \in {"none", "reading"} /\ dialog \in {"none", "start", "load"}
      /\ box \in BOOLEAN
    BY DEF ContentsType
<1>2. CASE bLoad
    BY <1>1, <1>2 DEF LoadInv, OneLoad
<1>3. CASE ~bLoad
  <2>1. fh = Nothing /\ tree = Nothing
    BY <1>3 DEF LoadInv
  <2>2. (IF dialog = "load" THEN 1 ELSE 0) + (IF worker = "reading" THEN 1 ELSE 0)
           + Len(qCon) + (IF box THEN 1 ELSE 0) = 1
    <3>1. CASE dialog = "load"
        BY <1>1, <1>3, <3>1 DEF LoadInv
    <3>2. CASE dialog # "load" /\ worker = "reading"
        BY <1>1, <1>3, <3>2 DEF LoadInv
    <3>3. CASE dialog # "load" /\ worker = "none" /\ box
        BY <1>1, <1>3, <3>3 DEF LoadInv
    <3>4. CASE dialog # "load" /\ worker = "none" /\ ~box
        BY <1>1, <1>3, <3>4 DEF LoadInv
    <3> QED
        BY <1>1, <3>1, <3>2, <3>3, <3>4
  <2> QED
    BY <1>3, <2>1, <2>2 DEF OneLoad
<1> QED
    BY <1>2, <1>3

(* A step outside the contents pane keeps its invariant.                    *)
LEMMA ContentsUntouched ==
    ASSUME ContentsType, LoadInv, UNCHANGED conVars, UNCHANGED box,
           dialog' = dialog \/ (dialog # "load" /\ dialog' \in {"none", "start"})
    PROVE  ContentsType' /\ LoadInv'
    BY DEF ContentsType, LoadInv, conVars

(* Every step keeps the invariant of the contents pane.                     *)
LEMMA ContentsStep ==
    ASSUME ContentsType, LoadInv, [WindowNext]_windowVars
    PROVE  ContentsType' /\ LoadInv'
<1> USE DEF ContentsType, LoadInv, conVars, DoneLoading
<1>1. CASE Load
    BY <1>1 DEF Load, Clickable, Answerable
<1>2. CASE LoadRefused
    BY <1>2 DEF LoadRefused, Answerable
<1>3. CASE LoadBegins
    BY <1>3 DEF LoadBegins, Answerable
<1>4. CASE WorkerAnswers
  <2>1. PICK how \in {"ok", "err"} : qCon' = Append(qCon, <<how, loading>>)
    BY <1>4 DEF WorkerAnswers
  <2>2. qCon = << >> /\ loading \in Images
    BY <1>4 DEF WorkerAnswers
  <2>3. qCon' \in Seq({"ok", "err"} \X Images) /\ Len(qCon') = 1
    BY <2>1, <2>2
  <2> QED
    BY <1>4, <2>3 DEF WorkerAnswers
<1>5. CASE PollContents
  <2>1. Len(qCon) = 1 /\ qCon' = << >> /\ Head(qCon)[2] \in Images
    BY <1>5 DEF PollContents
  <2>2. /\ UNCHANGED <<worker, dialog>> /\ conDue' = FALSE /\ worker = "none"
        /\ dialog # "load" /\ ~bLoad /\ ~box
    BY <1>5, <2>1 DEF PollContents
  <2>3. \/ /\ fh' = Head(qCon)[2] /\ tree' = Head(qCon)[2] /\ bLoad' = TRUE
           /\ loading' = Nothing /\ box' = box
        \/ /\ fh' = fh /\ tree' = tree /\ bLoad' = bLoad /\ loading' = loading /\ box' = TRUE
    BY <1>5 DEF PollContents
  <2>4. bLoad' \in BOOLEAN /\ box' \in BOOLEAN /\ dialog' \in {"none", "start", "load"}
    BY <2>2, <2>3
  <2>5. ContentsType'
    <3>1. /\ fh' \in Images \cup {Nothing} /\ tree' \in Images \cup {Nothing}
          /\ loading' \in Images \cup {Nothing}
        BY <2>1, <2>3
    <3>2. qCon' \in Seq({"ok", "err"} \X Images) /\ worker' \in {"none", "reading"}
          /\ conDue' \in BOOLEAN
        BY <2>1, <2>2, EmptyFacts
    <3> QED
        BY <2>4, <3>1, <3>2
  <2>6. LoadInv'
    BY <2>1, <2>2, <2>3
  <2> QED
    BY <2>5, <2>6
<1>6. CASE Dismiss
    BY <1>6 DEF Dismiss
<1>7. CASE Close
    BY <1>7 DEF Close
<1>8. ASSUME \E r \in Runs : Child(r) \/ \E s \in Streams : Pump(r, s)
      PROVE  UNCHANGED <<conVars, box, dialog>>
    BY <1>8 DEF Child, Pump, Exit, Killed, Write, PumpLine, PumpEnds
<1>9. CASE Polling
    BY <1>9, ContentsUntouched DEF Polling, Poll, PollItem, PollRaises, PollEmpty, PollAgain, Finish
<1>10. CASE Start \/ StartRefused \/ Launch \/ LaunchFails \/ Cancel \/ UNCHANGED windowVars
    BY <1>10, ContentsUntouched
       DEF Start, StartRefused, Launch, LaunchFails, Cancel, Clickable, Answerable, windowVars
<1> QED
    BY <1>1, <1>2, <1>3, <1>4, <1>5, <1>6, <1>7, <1>8, <1>9, <1>10, ContentsUntouched
       DEF WindowNext, Click, Answer

-----------------------------------------------------------------------------
(* Every step keeps the type, given the invariants that bound the count and *)
(* the run.                                                                 *)
LEMMA WindowTypeStep ==
    ASSUME WindowTypeOK, ReportInv, ReportInv', LoadInv, [WindowNext]_windowVars
    PROVE  WindowTypeOK'
<1>1. ContentsType /\ ContentsType'
    BY ContentsStep DEF WindowTypeOK, ContentsType
<1> DEFINE ReportType ==
      /\ run \in 0..MaxRuns
      /\ child \in [Runs -> {"none", "running", "ok", "failed", "killed"}]
      /\ wrote \in [Runs -> [Streams -> Nat]]
      /\ pumped \in [Runs -> [Streams -> Nat]]
      /\ pump \in [Runs -> [Streams -> {"none", "reading", "ended"}]]
      /\ qOut \in Seq(Items)
      /\ openStreams \in 0..Cardinality(Streams)
      /\ main \in {"idle", "drain", "check", "lost"}
      /\ pollDue \in BOOLEAN /\ bRun \in BOOLEAN
      /\ text \in Seq(Items)
      DialType ==
      /\ signalled \in [Runs -> BOOLEAN]
      /\ bCancel \in BOOLEAN
      /\ status \in {"ready", "running", "reading", "not started", "done", "exited",
                     "cancelled"}
      /\ closed \in BOOLEAN
<1>2. ReportType /\ DialType
    BY DEF WindowTypeOK
<1>3. ReportType'
  <2>1. CASE \E r \in Runs : Child(r)
    <3>1. PICK r \in Runs : Child(r)
        BY <2>1
    <3>2. UNCHANGED <<run, pumped, pump, qOut, openStreams, main, pollDue, bRun, text>>
        BY <3>1 DEF Child, Exit, Killed, Write, conVars
    <3>3. wrote' \in [Runs -> [Streams -> Nat]]
        BY <3>1, ChildStep
    <3>4. child' \in [Runs -> {"none", "running", "ok", "failed", "killed"}]
        BY <3>1, <1>2 DEF Child, Exit, Killed, Write
    <3> QED
        BY <1>2, <3>2, <3>3, <3>4
  <2>2. ASSUME NEW r \in Runs, NEW s \in Streams, PumpLine(r, s)
        PROVE  ReportType'
    <3>1. UNCHANGED <<run, child, wrote, pump, openStreams, main, pollDue, bRun, text>>
        BY <2>2 DEF PumpLine, conVars
    <3>2. pumped[r][s] + 1 \in Nat /\ <<r, s, pumped[r][s] + 1>> \in Items
      <4>1. pumped[r][s] \in Nat
        BY PartsType
      <4> QED
        BY <4>1 DEF Items
    <3>3. pumped' \in [Runs -> [Streams -> Nat]]
        BY <2>2, <1>2, <3>2 DEF PumpLine
    <3>4. qOut' \in Seq(Items)
        BY <2>2, <1>2, <3>2, AppendFacts DEF PumpLine
    <3> QED
        BY <1>2, <3>1, <3>3, <3>4
  <2>3. ASSUME NEW r \in Runs, NEW s \in Streams, PumpEnds(r, s)
        PROVE  ReportType'
    BY <2>3, <1>2, AppendFacts DEF PumpEnds, Items, EOF
  <2>4. CASE PollItem \/ PollRaises
    <3>1. /\ UNCHANGED <<run, child, wrote, pumped, pump, pollDue, bRun>>
          /\ main' \in {"drain", "lost"}
        BY <2>4 DEF PollItem, PollRaises, conVars
    <3>2. qOut' \in Seq(Items) /\ Head(qOut) \in Items
      <4>1. qOut # << >> /\ qOut' = Tail(qOut)
        BY <2>4 DEF PollItem, PollRaises
      <4> QED
        BY <4>1, <1>2, TailFacts
    <3>3. text' = text \/ text' = Append(text, Head(qOut))
        BY <2>4 DEF PollItem, PollRaises
    <3>4. text' \in Seq(Items)
        BY PartsType, <3>2, <3>3, AppendFacts
    <3> QED
        BY <2>4, <1>2, <3>1, <3>2, <3>4, PollItemStep
  <2>5. CASE Launch
    <3>1. UNCHANGED <<wrote, pumped, qOut, main>>
        BY <2>5 DEF Launch, conVars
    <3>2. /\ run' \in 0..MaxRuns /\ openStreams' \in 0..Cardinality(Streams)
          /\ text' = << >> /\ bRun' = FALSE /\ pollDue' = TRUE
      <4>1. run' \in 1..MaxRuns /\ MaxRuns \in Nat
        BY <2>5, LaunchStep, PartsType
      <4> QED
        BY <2>5, <4>1, StreamsFinite DEF Launch
    <3>3. /\ child' \in [Runs -> {"none", "running", "ok", "failed", "killed"}]
          /\ pump' \in [Runs -> [Streams -> {"none", "reading", "ended"}]]
        BY <2>5, <1>2 DEF Launch
    <3> QED
      <4>1. << >> \in Seq(Items) /\ pollDue' \in BOOLEAN /\ bRun' \in BOOLEAN
        BY <3>2, EmptyFacts
      <4> QED
        BY <1>2, <3>1, <3>2, <3>3, <4>1
  <2>6. CASE Finish
    BY <2>6, <1>2 DEF Finish
  <2>7. CASE Quiet
    <3>1. QuietPart
        BY <2>7, QuietStep
    <3>2. text' \in Seq(Items)
      <4>1. text' = text \/ text' = << >>
        BY <3>1 DEF QuietPart
      <4> QED
        BY <4>1, PartsType, EmptyFacts
    <3>3. bRun' \in BOOLEAN
        BY <1>2, <3>1 DEF QuietPart
    <3> QED
        BY <1>2, <3>1, <3>2, <3>3 DEF QuietPart
  <2> QED
    BY <2>1, <2>2, <2>3, <2>4, <2>5, <2>6, <2>7, StepKinds
<1>4. DialType'
  <2>1. CASE \E r \in Runs : Child(r) \/ \E s \in Streams : Pump(r, s)
    <3>1. UNCHANGED <<signalled, bCancel, status, closed>>
        BY <2>1 DEF Child, Pump, Exit, Killed, Write, PumpLine, PumpEnds
    <3> QED
        BY <1>2, <3>1
  <2>2. CASE Finish
    <3>1. status' \in {"done", "exited", "cancelled"}
        BY <2>2, FinishStep DEF Finish, Outcome
    <3> QED
        BY <2>2, <1>2, <3>1 DEF Finish
  <2>3. CASE Poll \/ PollItem \/ PollRaises \/ PollEmpty \/ PollAgain
    BY <2>3, <1>2 DEF Poll, PollItem, PollRaises, PollEmpty, PollAgain, runVars, reportVars
  <2>4. CASE Launch \/ LaunchFails \/ Start \/ StartRefused
    BY <2>4, <1>2 DEF Launch, LaunchFails, Start, StartRefused, runVars, reportVars
  <2>5. CASE Cancel \/ Close
    BY <2>5, <1>2 DEF Cancel, Close
  <2>6. CASE Load \/ LoadRefused \/ LoadBegins
    BY <2>6, <1>2 DEF Load, LoadRefused, LoadBegins, DoneLoading, runVars, reportVars
  <2>7. CASE WorkerAnswers \/ PollContents \/ Dismiss
    BY <2>7, <1>2 DEF WorkerAnswers, PollContents, Dismiss, DoneLoading, runVars, reportVars
  <2>8. CASE UNCHANGED windowVars
    BY <2>8, <1>2 DEF windowVars, runVars, reportVars
  <2> QED
    BY <2>1, <2>2, <2>3, <2>4, <2>5, <2>6, <2>7, <2>8 DEF WindowNext, Click, Answer, Polling
<1> QED
    BY <1>1, <1>2, <1>3, <1>4 DEF WindowTypeOK, ContentsType

-----------------------------------------------------------------------------
(* What becomes of a line: a pumped line of the run that is under way is in *)
(* the queue or was taken, unless poll() raised over it, those of a stream  *)
(* in their order.                                                          *)
Taken(s, n) == \E i \in DOMAIN text : text[i] = <<run, s, n>>
Queued(s, n) == \E i \in DOMAIN qOut : qOut[i] = <<run, s, n>>

QueueOrder ==
    \A i, j \in DOMAIN qOut :
        i < j /\ qOut[i][2] = qOut[j][2] /\ qOut[j][3] # EOF => qOut[i][3] < qOut[j][3]
TakenFirst ==
    \A i \in DOMAIN text : \A j \in DOMAIN qOut :
        text[i][2] = qOut[j][2] /\ qOut[j][3] # EOF => text[i][3] < qOut[j][3]
Bounded ==
    /\ \A i \in DOMAIN text : text[i][3] <= pumped[run][text[i][2]]
    /\ \A j \in DOMAIN qOut : qOut[j][3] <= pumped[run][qOut[j][2]]
OrderInv == NothingStale /\ InOrder /\ QueueOrder /\ TakenFirst /\ Bounded

Finished == {"done", "exited", "cancelled"}
NothingLost ==
    ~bRun /\ main # "lost" =>
        \A s \in Streams : \A n \in 1..pumped[run][s] : Taken(s, n) \/ Queued(s, n)
EndInv == status \in Finished => bRun /\ run > 0 /\ AllTaken
LineInv == OrderInv /\ NothingLost /\ EndInv

(* An item of a sequence is in its set.                                     *)
LEMMA SeqIndex ==
    ASSUME NEW S, NEW q \in Seq(S)
    PROVE  /\ DOMAIN q = 1..Len(q) /\ Len(q) \in Nat
           /\ \A i \in DOMAIN q : q[i] \in S /\ i \in Nat
    OBVIOUS

(* A pump takes a line: it is the next of its stream, behind all that are   *)
(* in the queue.                                                            *)
LEMMA LinesOfPumpLine ==
    ASSUME WindowTypeOK, ReportInv, LineInv, NEW r \in Runs, NEW s \in Streams, PumpLine(r, s)
    PROVE  LineInv'
<1>1. r = run /\ run > 0 /\ ~bRun
    BY PartsType DEF ReportInv, OneRun, RestInv, AtRest, PumpLine
<1>2. PICK n : n = pumped[run][s] + 1
    OBVIOUS
<1>3. n \in Nat /\ n # EOF /\ n = pumped[run][s] + 1 /\ pumped[run][s] \in Nat
    BY <1>1, <1>2, PartsType DEF EOF
<1>4. PICK e : e = <<run, s, n>>
    OBVIOUS
<1>5. e \in Items /\ e[1] = run /\ e[2] = s /\ e[3] = n
    BY <1>1, <1>3, <1>4 DEF Items
<1>6. /\ DOMAIN qOut = 1..Len(qOut) /\ Len(qOut) \in Nat
      /\ DOMAIN qOut' = 1..(Len(qOut) + 1)
      /\ \A i \in 1..Len(qOut) : qOut'[i] = qOut[i]
      /\ qOut'[Len(qOut) + 1] = e
    BY <1>1, <1>2, <1>4, <1>5, PartsType, AppendFacts DEF PumpLine
<1>7. /\ UNCHANGED <<run, text, wrote, bRun, main, status>>
      /\ pumped'[run][s] = n
      /\ \A x \in Streams : x # s => pumped'[run][x] = pumped[run][x]
    BY <1>1, <1>2 DEF PumpLine, conVars, WindowTypeOK
<1>8. /\ \A i \in DOMAIN text : text[i][2] \in Streams /\ text[i][3] \in Nat
      /\ \A i \in DOMAIN qOut : qOut[i][2] \in Streams /\ qOut[i][3] \in Nat
    BY PartsType, SeqIndex DEF Items
<1>9. /\ \A i \in DOMAIN text : text[i][2] = s => text[i][3] < n
      /\ \A i \in DOMAIN qOut : qOut[i][2] = s => qOut[i][3] < n
    BY <1>3, <1>8 DEF LineInv, OrderInv, Bounded
<1>10. OrderInv'
  <2>1. NothingStale' /\ InOrder'
    BY <1>7 DEF LineInv, OrderInv, NothingStale, InOrder
  <2>2. QueueOrder'
    BY <1>5, <1>6, <1>9 DEF LineInv, OrderInv, QueueOrder
  <2>3. TakenFirst'
    BY <1>5, <1>6, <1>7, <1>9 DEF LineInv, OrderInv, TakenFirst
  <2>4. Bounded'
    <3>1. \A x \in Streams : pumped[run][x] \in Nat /\ pumped[run][x] <= pumped'[run][x]
        BY <1>1, <1>3, <1>7, PartsType
    <3>2. \A i \in DOMAIN text : text[i][3] <= pumped'[run][text[i][2]]
      <4> SUFFICES ASSUME NEW i \in DOMAIN text PROVE text[i][3] <= pumped'[run][text[i][2]]
        OBVIOUS
      <4> QED
        BY <3>1, <1>3, <1>7, <1>8 DEF LineInv, OrderInv, Bounded
    <3>3. ASSUME NEW j \in DOMAIN qOut' PROVE qOut'[j][3] <= pumped'[run][qOut'[j][2]]
      <4>1. CASE j = Len(qOut) + 1
        BY <4>1, <1>3, <1>5, <1>6, <1>7
      <4>2. CASE j \in 1..Len(qOut)
        <5>1. qOut[j][3] <= pumped[run][qOut[j][2]]
            BY <4>2, <1>6 DEF LineInv, OrderInv, Bounded
        <5>2. /\ qOut[j][3] \in Nat /\ qOut[j][2] \in Streams
              /\ pumped[run][qOut[j][2]] \in Nat /\ pumped'[run][qOut[j][2]] \in Nat
              /\ pumped[run][qOut[j][2]] <= pumped'[run][qOut[j][2]]
            BY <4>2, <1>3, <1>6, <1>7, <1>8, <3>1
        <5> QED
            BY <5>1, <5>2, <4>2, <1>6
      <4> QED
        BY <4>1, <4>2, <1>6
    <3> QED
        BY <3>2, <3>3, <1>7 DEF Bounded
  <2> QED
    BY <2>1, <2>2, <2>3, <2>4 DEF OrderInv
<1>11. NothingLost'
  <2> SUFFICES ASSUME main # "lost", NEW x \in Streams, NEW m \in 1..pumped'[run][x]
               PROVE  Taken(x, m)' \/ Queued(x, m)'
    BY <1>7 DEF NothingLost
  <2>1. CASE x = s /\ m = n
    BY <2>1, <1>4, <1>6, <1>7 DEF Queued
  <2>2. CASE ~(x = s /\ m = n)
    <3>1. m \in 1..pumped[run][x]
        BY <2>2, <1>3, <1>7
    <3>2. Taken(x, m) \/ Queued(x, m)
        BY <3>1, <1>1 DEF LineInv, NothingLost
    <3> QED
        BY <3>2, <1>6, <1>7 DEF Taken, Queued
  <2> QED
    BY <2>1, <2>2
<1>12. EndInv'
    BY <1>1, <1>7 DEF LineInv, EndInv
<1> QED
    BY <1>10, <1>11, <1>12 DEF LineInv

(* A pump ends: no line of its stream is left in the pipe.                  *)
LEMMA LinesOfPumpEnds ==
    ASSUME WindowTypeOK, ReportInv, LineInv, NEW r \in Runs, NEW s \in Streams, PumpEnds(r, s)
    PROVE  LineInv'
<1>1. r = run /\ run > 0 /\ ~bRun
    BY PartsType DEF ReportInv, OneRun, RestInv, AtRest, PumpEnds
<1>2. PICK e : e = <<run, s, EOF>>
    OBVIOUS
<1>3. e \in Items /\ e[1] = run /\ e[2] = s /\ e[3] = EOF
    BY <1>1, <1>2 DEF Items, EOF
<1>4. /\ DOMAIN qOut = 1..Len(qOut) /\ Len(qOut) \in Nat
      /\ DOMAIN qOut' = 1..(Len(qOut) + 1)
      /\ \A i \in 1..Len(qOut) : qOut'[i] = qOut[i]
      /\ qOut'[Len(qOut) + 1] = e
    BY <1>1, <1>2, <1>3, PartsType, AppendFacts DEF PumpEnds
<1>5. UNCHANGED <<run, text, wrote, pumped, bRun, main, status>>
    BY DEF PumpEnds, conVars
<1>6. OrderInv'
  <2>1. NothingStale' /\ InOrder'
    BY <1>5 DEF LineInv, OrderInv, NothingStale, InOrder
  <2>2. QueueOrder'
    BY <1>3, <1>4 DEF LineInv, OrderInv, QueueOrder
  <2>3. TakenFirst'
    BY <1>3, <1>4, <1>5 DEF LineInv, OrderInv, TakenFirst
  <2>4. EOF <= pumped[run][s]
    BY <1>1, PartsType DEF EOF
  <2>5. Bounded'
    BY <1>3, <1>4, <1>5, <2>4 DEF LineInv, OrderInv, Bounded
  <2> QED
    BY <2>1, <2>2, <2>3, <2>5 DEF OrderInv
<1>7. NothingLost'
  <2> SUFFICES ASSUME main # "lost", NEW x \in Streams, NEW m \in 1..pumped[run][x]
               PROVE  Taken(x, m)' \/ Queued(x, m)'
    BY <1>5 DEF NothingLost
  <2>1. Taken(x, m) \/ Queued(x, m)
    BY <1>1 DEF LineInv, NothingLost
  <2> QED
    BY <2>1, <1>4, <1>5 DEF Taken, Queued
<1>8. EndInv'
    BY <1>1, <1>5 DEF LineInv, EndInv
<1> QED
    BY <1>6, <1>7, <1>8 DEF LineInv

(* poll() takes an item: the text grows by what the queue loses, in the     *)
(* same order, unless poll() raises.                                        *)
LEMMA LinesOfPollItem ==
    ASSUME WindowTypeOK, ReportInv, LineInv, PollItem \/ PollRaises
    PROVE  LineInv'
<1>1. ~bRun /\ run > 0 /\ run \in Runs
    BY PartsType DEF ReportInv, RestInv, AtRest, PollItem, PollRaises
<1>2. /\ DOMAIN qOut = 1..Len(qOut) /\ Len(qOut) \in Nat \ {0}
      /\ DOMAIN qOut' = 1..(Len(qOut) - 1)
      /\ \A i \in 1..(Len(qOut) - 1) : qOut'[i] = qOut[i + 1]
      /\ Head(qOut) = qOut[1] /\ Head(qOut) \in Items
    BY PartsType, TailFacts DEF PollItem, PollRaises
<1>3. UNCHANGED <<run, wrote, pumped, bRun, status>> /\ main = "drain"
    BY DEF PollItem, PollRaises, conVars
<1>4. /\ \A i \in DOMAIN text : text[i][2] \in Streams /\ text[i][3] \in Nat /\ i \in Nat
      /\ \A i \in DOMAIN qOut : qOut[i][2] \in Streams /\ qOut[i][3] \in Nat /\ i \in Nat
    BY PartsType, SeqIndex DEF Items
<1>5. EndInv'
    BY <1>1, <1>3 DEF LineInv, EndInv
<1>6. QueueOrder'
  <2> SUFFICES ASSUME NEW i \in DOMAIN qOut', NEW j \in DOMAIN qOut',
                      i < j, qOut'[i][2] = qOut'[j][2], qOut'[j][3] # EOF
               PROVE  qOut'[i][3] < qOut'[j][3]
    BY DEF QueueOrder
  <2>1. /\ i + 1 \in DOMAIN qOut /\ j + 1 \in DOMAIN qOut /\ i + 1 < j + 1
        /\ qOut'[i] = qOut[i + 1] /\ qOut'[j] = qOut[j + 1]
    BY <1>2
  <2> QED
    BY <2>1 DEF LineInv, OrderInv, QueueOrder
<1>7. \A j \in DOMAIN qOut' : j + 1 \in DOMAIN qOut /\ qOut'[j] = qOut[j + 1]
    BY <1>2
<1>8. \A j \in DOMAIN qOut' : qOut'[j][3] <= pumped[run][qOut'[j][2]]
    BY <1>7 DEF LineInv, OrderInv, Bounded
<1>9. CASE qOut[1][3] = EOF \/ PollRaises
  <2>1. text' = text /\ (qOut[1][3] = EOF \/ main' = "lost")
    BY <1>2, <1>9 DEF PollItem, PollRaises
  <2>2. NothingStale' /\ InOrder'
    BY <1>3, <2>1 DEF LineInv, OrderInv, NothingStale, InOrder
  <2>3. TakenFirst'
    BY <1>7, <2>1 DEF LineInv, OrderInv, TakenFirst
  <2>4. Bounded'
    BY <1>3, <1>8, <2>1 DEF LineInv, OrderInv, Bounded
  <2>5. NothingLost'
    <3> SUFFICES ASSUME qOut[1][3] = EOF, NEW x \in Streams, NEW m \in 1..pumped[run][x]
                 PROVE  Taken(x, m)' \/ Queued(x, m)'
        BY <1>3, <2>1 DEF NothingLost
    <3>1. CASE Taken(x, m)
        BY <3>1, <1>3, <2>1 DEF Taken
    <3>2. CASE Queued(x, m)
      <4>1. PICK i \in DOMAIN qOut : qOut[i] = <<run, x, m>>
        BY <3>2 DEF Queued
      <4>2. m # EOF
        BY DEF EOF
      <4>3. i # 1 /\ i \in Nat
        BY <4>1, <4>2, <1>4
      <4>4. i - 1 \in DOMAIN qOut' /\ qOut'[i - 1] = <<run, x, m>>
        BY <4>1, <4>3, <1>2
      <4> QED
        BY <4>4, <1>3 DEF Queued
    <3> QED
        BY <3>1, <3>2, <1>1, <1>3 DEF LineInv, NothingLost
  <2> QED
    BY <2>2, <2>3, <2>4, <2>5, <1>5, <1>6 DEF LineInv, OrderInv
<1>10. CASE qOut[1][3] # EOF /\ PollItem
  <2>1. text' = Append(text, qOut[1])
    BY <1>2, <1>10 DEF PollItem
  <2>2. /\ DOMAIN text = 1..Len(text) /\ Len(text) \in Nat
        /\ DOMAIN text' = 1..(Len(text) + 1)
        /\ \A i \in 1..Len(text) : text'[i] = text[i]
        /\ text'[Len(text) + 1] = qOut[1]
    BY <1>2, <2>1, PartsType, AppendFacts
  <2>3. /\ 1 \in DOMAIN qOut /\ qOut[1][1] = run
        /\ qOut[1][3] <= pumped[run][qOut[1][2]]
        /\ \A i \in DOMAIN text : text[i][2] = qOut[1][2] => text[i][3] < qOut[1][3]
        /\ \A j \in 2..Len(qOut) :
              qOut[1][2] = qOut[j][2] /\ qOut[j][3] # EOF => qOut[1][3] < qOut[j][3]
    BY <1>2, <1>10 DEF LineInv, OrderInv, TakenFirst, QueueOrder, Bounded, ReportInv, QueueInv,
                      QueueOwned
  <2>4. NothingStale'
    BY <1>3, <2>2, <2>3 DEF LineInv, OrderInv, NothingStale
  <2>5. InOrder'
    BY <2>2, <2>3 DEF LineInv, OrderInv, InOrder
  <2>7. TakenFirst'
    <3> SUFFICES ASSUME NEW i \in DOMAIN text', NEW j \in DOMAIN qOut',
                        text'[i][2] = qOut'[j][2], qOut'[j][3] # EOF
                 PROVE  text'[i][3] < qOut'[j][3]
        BY DEF TakenFirst
    <3>1. j + 1 \in 2..Len(qOut) /\ qOut'[j] = qOut[j + 1] /\ j + 1 \in DOMAIN qOut
        BY <1>2
    <3>2. CASE i = Len(text) + 1
        BY <3>1, <3>2, <2>2, <2>3
    <3>3. CASE i \in 1..Len(text)
        BY <3>1, <3>3, <2>2 DEF LineInv, OrderInv, TakenFirst
    <3> QED
        BY <3>2, <3>3, <2>2
  <2>8. Bounded'
    <3>1. \A i \in DOMAIN text' : text'[i][3] <= pumped[run][text'[i][2]]
        BY <2>2, <2>3 DEF LineInv, OrderInv, Bounded
    <3> QED
        BY <1>3, <1>8, <3>1 DEF Bounded
  <2>9. NothingLost'
    <3> SUFFICES ASSUME NEW x \in Streams, NEW m \in 1..pumped[run][x]
                 PROVE  Taken(x, m)' \/ Queued(x, m)'
        BY <1>3 DEF NothingLost
    <3>1. CASE Taken(x, m)
        BY <3>1, <1>3, <2>2 DEF Taken
    <3>2. CASE Queued(x, m)
      <4>1. PICK i \in DOMAIN qOut : qOut[i] = <<run, x, m>>
        BY <3>2 DEF Queued
      <4>2. CASE i = 1
        BY <4>1, <4>2, <1>3, <2>2 DEF Taken
      <4>3. CASE i # 1
        <5>1. i - 1 \in DOMAIN qOut' /\ qOut'[i - 1] = <<run, x, m>>
            BY <4>1, <4>3, <1>2
        <5> QED
            BY <5>1, <1>3 DEF Queued
      <4> QED
        BY <4>2, <4>3
    <3> QED
        BY <3>1, <3>2, <1>1, <1>3 DEF LineInv, NothingLost
  <2> QED
    BY <2>4, <2>5, <2>7, <2>8, <2>9, <1>5, <1>6 DEF LineInv, OrderInv
<1> QED
    BY <1>9, <1>10

(* A run is launched: text and queue are empty, and nothing of it was       *)
(* written yet.                                                             *)
LEMMA LinesOfLaunch ==
    ASSUME WindowTypeOK, ReportInv, LineInv, Launch
    PROVE  LineInv'
<1>1. /\ text' = << >> /\ qOut' = << >> /\ status' = "running" /\ pumped' = pumped
      /\ run' = run + 1 /\ bRun' = FALSE
    BY DEF Launch, Answerable, ReportInv, RestInv, AtRest
<1>2. \A s \in Streams : pumped[run + 1][s] = 0
  <2>1. run' \in 1..MaxRuns /\ run \in Nat /\ run + 1 > run
    BY LaunchStep, PartsType
  <2> QED
    BY <2>1, <1>1 DEF ReportInv, OneRun, Runs
<1>3. OrderInv'
    BY <1>1 DEF OrderInv, NothingStale, InOrder, QueueOrder, TakenFirst, Bounded
<1>4. NothingLost' /\ EndInv'
    BY <1>1, <1>2 DEF NothingLost, EndInv, Finished
<1> QED
    BY <1>3, <1>4 DEF LineInv

(* The run finishes: the queue is empty and the pipes are, so every line is *)
(* in the text.                                                             *)
LEMMA LinesOfFinish ==
    ASSUME WindowTypeOK, ReportInv, LineInv, Finish
    PROVE  LineInv'
<1>1. /\ UNCHANGED <<run, wrote, pumped, qOut, text, pump, child>> /\ bRun' = TRUE
      /\ ~bRun /\ ~Alive(run) /\ main # "lost"
    BY DEF Finish, conVars, ReportInv, RestInv, AtRest
<1>2. qOut = << >> /\ run > 0 /\ run \in Runs
    BY FinishStep, PartsType
<1>3. \A s \in Streams : pump[run][s] = "ended"
  <2>1. pump \in [Runs -> [Streams -> {"none", "reading", "ended"}]]
    BY DEF WindowTypeOK
  <2>2. \A s \in Streams : pump[run][s] # "reading"
    BY <1>2, NothingLeft DEF Finish
  <2>3. \A s \in Streams : pump[run][s] # "none"
    BY <1>2, PartsType DEF ReportInv, OneRun
  <2> QED
    BY <1>2, <2>1, <2>2, <2>3
<1>4. \A s \in Streams : pumped[run][s] = wrote[run][s]
    BY <1>2, <1>3 DEF ReportInv, EndedPumps
<1>5. AllTaken
    BY <1>1, <1>2, <1>4 DEF LineInv, NothingLost, AllTaken, Taken, Queued
<1>6. OrderInv'
    BY <1>1 DEF LineInv, OrderInv, NothingStale, InOrder, QueueOrder, TakenFirst, Bounded
<1>7. NothingLost' /\ EndInv'
    BY <1>1, <1>2, <1>5 DEF NothingLost, EndInv, AllTaken
<1> QED
    BY <1>6, <1>7 DEF LineInv

(* A step that is none of these changes text only by clearing it, when no   *)
(* run is under way.                                                        *)
LEMMA LinesOfQuiet ==
    ASSUME WindowTypeOK, ReportInv, LineInv, QuietPart
    PROVE  LineInv'
<1>1. /\ UNCHANGED <<run, child, wrote, pumped, pump, qOut>> /\ bRun' = bRun
      /\ main' # "lost" => main # "lost"
    BY DEF QuietPart, WindowTypeOK
<1>2. CASE text' = text
  <2>1. OrderInv' /\ NothingLost'
    BY <1>1, <1>2 DEF LineInv, OrderInv, NothingStale, InOrder, QueueOrder, TakenFirst, Bounded,
                      NothingLost, Taken, Queued
  <2>2. status' \in Finished => status \in Finished
    BY DEF QuietPart, Finished
  <2>3. EndInv'
    BY <1>1, <1>2, <2>2 DEF LineInv, EndInv, AllTaken
  <2> QED
    BY <2>1, <2>3 DEF LineInv
<1>3. CASE text' # text
  <2>1. text' = << >> /\ bRun /\ status' = "not started"
    BY <1>3 DEF QuietPart
  <2>2. OrderInv'
    <3>1. DOMAIN text' = {}
      <4>1. DOMAIN << >> = 1..Len(<< >>) /\ Len(<< >>) = 0
        BY EmptyFacts, SeqIndex
      <4>2. DOMAIN << >> = {}
        BY <4>1
      <4> QED
        BY <2>1, <4>2, Zenon
    <3>2. NothingStale' /\ InOrder' /\ TakenFirst'
        BY <3>1 DEF NothingStale, InOrder, TakenFirst
    <3>3. QueueOrder'
        BY <1>1 DEF LineInv, OrderInv, QueueOrder
    <3>4. Bounded'
        BY <1>1, <3>1 DEF LineInv, OrderInv, Bounded
    <3> QED
        BY <3>2, <3>3, <3>4 DEF OrderInv
  <2>3. NothingLost' /\ EndInv'
    BY <1>1, <2>1 DEF NothingLost, EndInv, Finished
  <2> QED
    BY <2>2, <2>3 DEF LineInv
<1> QED
    BY <1>2, <1>3

(* Every step keeps the invariant of the lines.                             *)
LEMMA LineStep ==
    ASSUME WindowTypeOK, ReportInv, LineInv, [WindowNext]_windowVars
    PROVE  LineInv'
<1>1. CASE \E r \in Runs : Child(r)
  <2>1. UNCHANGED <<run, pumped, pump, qOut, text, bRun, main, status>> /\ ~bRun
    BY <1>1, ChildStep
  <2>2. OrderInv' /\ NothingLost'
    BY <2>1 DEF LineInv, OrderInv, NothingStale, InOrder, QueueOrder, TakenFirst, Bounded,
                NothingLost, Taken, Queued
  <2>3. EndInv'
    BY <2>1 DEF LineInv, EndInv
  <2> QED
    BY <2>2, <2>3 DEF LineInv
<1>2. CASE \E r \in Runs : \E s \in Streams : PumpLine(r, s) \/ PumpEnds(r, s)
    BY <1>2, LinesOfPumpLine, LinesOfPumpEnds
<1>3. CASE PollItem \/ PollRaises
    BY <1>3, LinesOfPollItem
<1>4. CASE Launch
    BY <1>4, LinesOfLaunch
<1>5. CASE Finish
    BY <1>5, LinesOfFinish
<1>6. CASE Quiet
    BY <1>6, QuietStep, LinesOfQuiet
<1> QED
    BY <1>1, <1>2, <1>3, <1>4, <1>5, <1>6, StepKinds

-----------------------------------------------------------------------------
WindowInv == WindowTypeOK /\ ReportInv /\ LoadInv /\ LineInv

(* The inductive invariant.                                                 *)
LEMMA WindowInvHolds == WindowSpec => []WindowInv
<1>1. WindowInit => WindowInv
  <2> SUFFICES ASSUME WindowInit PROVE WindowInv
    OBVIOUS
  <2>1. WindowTypeOK /\ ReportInv
    BY ReportInit
  <2>2. LoadInv
    BY DEF WindowInit, LoadInv
  <2>3. OrderInv
    BY DEF WindowInit, OrderInv, NothingStale, InOrder, QueueOrder, TakenFirst, Bounded
  <2>4. NothingLost /\ EndInv
    BY DEF WindowInit, NothingLost, EndInv, Finished
  <2> QED
    BY <2>1, <2>2, <2>3, <2>4 DEF WindowInv, LineInv
<1>2. WindowInv /\ [WindowNext]_windowVars => WindowInv'
  <2> SUFFICES ASSUME WindowInv, [WindowNext]_windowVars PROVE WindowInv'
    OBVIOUS
  <2>1. WindowTypeOK /\ ReportInv /\ LoadInv /\ LineInv /\ ContentsType
    BY DEF WindowInv, WindowTypeOK, ContentsType
  <2>2. ReportInv' /\ LoadInv' /\ LineInv'
    BY <2>1, ReportStep, ContentsStep, LineStep
  <2>3. WindowTypeOK'
    BY <2>1, <2>2, WindowTypeStep
  <2> QED
    BY <2>2, <2>3 DEF WindowInv
<1> QED
    BY <1>1, <1>2, PTL DEF WindowSpec

(* The state of the window is well formed: among the rest, open_streams     *)
(* never counts below zero (poll(), 500).                                   *)
THEOREM WindowTypeCorrect == WindowSpec => []WindowTypeOK
<1>1. WindowInv => WindowTypeOK
    BY DEF WindowInv
<1> QED
    BY <1>1, WindowInvHolds, PTL

(* No line of an earlier run is ever shown with those of the current one,   *)
(* whatever the child, its pumps and the examiner do.                       *)
THEOREM NeverStale == WindowSpec => []NothingStale
<1>1. WindowInv => NothingStale
    BY DEF WindowInv, LineInv, OrderInv
<1> QED
    BY <1>1, WindowInvHolds, PTL

(* The lines of a stream are taken in the order they were written.          *)
THEOREM AlwaysInOrder == WindowSpec => []InOrder
<1>1. WindowInv => InOrder
    BY DEF WindowInv, LineInv, OrderInv
<1> QED
    BY <1>1, WindowInvHolds, PTL

(* When the window says how a run ended, every line the child wrote to      *)
(* either pipe has been taken: poll() and its count of open streams lose    *)
(* none (README 119-120).                                                   *)
THEOREM ReportIsComplete == WindowSpec => []CompleteWhenFinished
<1>1. WindowInv => CompleteWhenFinished
  <2> SUFFICES ASSUME WindowInv, status \in Finished PROVE ~Alive(run) /\ AllTaken
    BY DEF CompleteWhenFinished, Finished
  <2>1. bRun /\ run > 0 /\ AllTaken
    BY DEF WindowInv, LineInv, EndInv
  <2>2. ~Alive(run)
    BY <2>1, PartsType DEF WindowInv, ReportInv, RestInv, AtRest
  <2> QED
    BY <2>1, <2>2
<1> QED
    BY <1>1, WindowInvHolds, PTL

(* One image at most is being loaded, and while it is nothing of another is *)
(* held open or shown (load_contents(), poll_contents(), 560-607).          *)
THEOREM LoadsOneAtATime == WindowSpec => []OneLoad
<1>1. WindowInv => OneLoad
  <2> SUFFICES ASSUME WindowInv PROVE OneLoad
    OBVIOUS
  <2>1. ContentsType /\ LoadInv
    BY DEF WindowInv, WindowTypeOK, ContentsType
  <2> QED
    BY <2>1, LoadInvIsOneLoad
<1> QED
    BY <1>1, WindowInvHolds, PTL
===============================================================================
