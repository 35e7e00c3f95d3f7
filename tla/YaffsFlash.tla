------------------------------ MODULE YaffsFlash -----------------------------
(***************************************************************************)
(* A flash that YAFFS2 writes, which is what qnxprobe.py is given.  The     *)
(* driver is not part of the program: it is modelled from what YaffsWalker  *)
(* takes for granted of it and from the places of YAFFS2 it cites.          *)
(*                                                                         *)
(* One object id stands for all.  It is the id of a file, is given up when  *)
(* the file is deleted, and is used again for the next: a life.  A chunk's  *)
(* content is the life and the number of the write that put it there, and   *)
(* sizes are counted in chunks, so every chunk of data is full.             *)
(***************************************************************************)
EXTENDS Integers, Sequences, FiniteSets, FiniteSetsExt

CONSTANTS
    Blocks,     \* how many erase blocks the flash has, by place from 1
    BlockPages, \* pages of a block
    FilePages,  \* bound on the pages of a file
    MaxSeq,     \* bound on the blocks ever taken into use
    MaxLives,   \* bound on the files that have had the object id
    MaxWrites   \* bound on the pages written by the device's user

ASSUME FlashBounds ==
    /\ Blocks \in Nat \ {0} /\ BlockPages \in Nat \ {0} /\ FilePages \in Nat \ {0}
    /\ MaxSeq \in Nat /\ MaxLives \in Nat /\ MaxWrites \in Nat

VARIABLES
    chip,       \* each block: its sequence number, 0 when erased, and its pages
    now,        \* the block being filled, 0 for none
    file,       \* what the driver knows of the object: its state, life, size and chunks
    writes,     \* the number of the last write of the user
    deleted     \* of each life that has ended, what the file held, and where

flash == <<chip, now, file, writes, deleted>>

Pages == 1..FilePages
Nowhere == <<0, 0>>                \* a page that has no chunk
Zeros == <<0, 0>>                  \* what reads from such a page

Data(p, v) == [page |-> p, val |-> v, size |-> 0, shrink |-> FALSE, gone |-> FALSE, ok |-> TRUE]
Header(l, n, shrink, gone) ==
    [page |-> 0, val |-> <<l, 0>>, size |-> n, shrink |-> shrink, gone |-> gone, ok |-> TRUE]

(* A place is a block and a page of it.                                     *)
Used == {b \in 1..Blocks : chip[b].seq # 0}
Places == UNION {{b} \X (1..Len(chip[b].pages)) : b \in Used}
At(x) == chip[x[1]].pages[x[2]]
Live == {file.at[p] : p \in 0..FilePages} \ {Nowhere}

LastSeq == Max({chip[b].seq : b \in 1..Blocks} \cup {deleted.seq})
Full(b) == Len(chip[b].pages) = BlockPages

(* Where the next page goes: on in the block being filled, or at the start  *)
(* of the next erased one around the flash, under the next sequence number. *)
Around(b) == (b + Blocks - (now + 1)) % Blocks
Open == IF now # 0 /\ ~Full(now) THEN {now}
        ELSE IF LastSeq < MaxSeq
        THEN {b \in (1..Blocks) \ Used : \A c \in (1..Blocks) \ Used : Around(b) <= Around(c)}
        ELSE {}

Put(b, c) ==
    /\ chip' = [chip EXCEPT ![b] = [seq |-> IF @.seq = 0 THEN LastSeq + 1 ELSE @.seq,
                                    pages |-> Append(@.pages, c)]]
    /\ now' = b
PutAt(b) == <<b, Len(chip[b].pages) + 1>>

Held == [size |-> file.size,
         pages |-> [p \in Pages |-> IF file.at[p] = Nowhere THEN Zeros ELSE At(file.at[p]).val]]

FlashInit ==
    /\ chip = [b \in 1..Blocks |-> [seq |-> 0, pages |-> <<>>]]
    /\ now = 0
    /\ file = [state |-> "none", life |-> 0, size |-> 0, hole |-> FALSE,
               at |-> [p \in 0..FilePages |-> Nowhere]]
    /\ writes = 0
    /\ deleted = [seq |-> 0, lives |-> <<>>]

(* A file is made with a header of size 0.                                  *)
Create ==
    /\ file.state = "none" /\ file.life < MaxLives
    /\ \E b \in Open :
        /\ Put(b, Header(file.life + 1, 0, FALSE, FALSE))
        /\ file' = [state |-> "dir", life |-> file.life + 1, size |-> 0, hole |-> FALSE,
                    at |-> [p \in 0..FilePages |-> IF p = 0 THEN PutAt(b) ELSE Nowhere]]
    /\ UNCHANGED <<writes, deleted>>

(* A page is written to a new chunk.  One that leaves a hole behind the end *)
(* of the file comes after the header that HoleHeader wrote.                *)
WritePage(p) ==
    /\ file.state = "dir" /\ writes < MaxWrites
    /\ IF p > file.size + 1 THEN file.hole ELSE ~file.hole
    /\ \E b \in Open :
        /\ Put(b, Data(p, <<file.life, writes + 1>>))
        /\ file' = [file EXCEPT !.at[p] = PutAt(b), !.size = Max({@, p}), !.hole = FALSE]
    /\ writes' = writes + 1
    /\ UNCHANGED deleted

(* A hole starts with a header that shrinks the file to what it is, so that *)
(* chunks of what it was before do not show in the hole.                    *)
HoleHeader ==
    /\ file.state = "dir" /\ ~file.hole /\ file.size + 2 <= FilePages /\ writes < MaxWrites
    /\ \E b \in Open :
        /\ Put(b, Header(file.life, file.size, TRUE, FALSE))
        /\ file' = [file EXCEPT !.at[0] = PutAt(b), !.hole = TRUE]
    /\ UNCHANGED <<writes, deleted>>

(* The header is written when the file is closed, which may be long after   *)
(* its pages.                                                               *)
Flush ==
    /\ file.state = "dir" /\ ~file.hole /\ At(file.at[0]).size # file.size
    /\ \E b \in Open :
        /\ Put(b, Header(file.life, file.size, FALSE, FALSE))
        /\ file' = [file EXCEPT !.at[0] = PutAt(b)]
    /\ UNCHANGED <<writes, deleted>>

Cut(n) == [p \in 0..FilePages |-> IF p > n THEN Nowhere ELSE file.at[p]]

Truncate(n) ==
    /\ file.state = "dir" /\ ~file.hole /\ n < file.size
    /\ \E b \in Open :
        /\ Put(b, Header(file.life, n, FALSE, FALSE))
        /\ file' = [file EXCEPT !.at = [Cut(n) EXCEPT ![0] = PutAt(b)], !.size = n]
    /\ UNCHANGED <<writes, deleted>>

(* Deleting a file in its directory cuts it to 0 first, unless it is empty, *)
(* and then files it under the deleted directory.  Its size is told by the  *)
(* header before those two, unless that was of a file still empty, or the   *)
(* header that cut it was copied before the other was written.              *)
Remember == deleted' = [deleted EXCEPT !.lives =
    Append(@, [held |-> Held, at |-> {<<chip[x[1]].seq, x[2]>> : x \in Live},
               told |-> At(file.at[0]).size > 0])]

DeleteCut ==
    /\ file.state = "dir" /\ ~file.hole /\ file.size > 0
    /\ Remember
    /\ \E b \in Open :
        /\ Put(b, Header(file.life, 0, FALSE, FALSE))
        /\ file' = [file EXCEPT !.state = "cut", !.at = [Cut(0) EXCEPT ![0] = PutAt(b)],
                                !.size = 0]
    /\ UNCHANGED writes

(* A file that is still open when it is deleted is filed under the unlinked *)
(* directory as it is, and under the deleted one when it is closed.         *)
Unlink ==
    /\ file.state = "dir" /\ ~file.hole
    /\ Remember
    /\ \E b \in Open :
        /\ Put(b, Header(file.life, file.size, TRUE, TRUE))
        /\ file' = [file EXCEPT !.state = "unlinked", !.at[0] = PutAt(b)]
    /\ UNCHANGED writes

Delete ==
    /\ \/ /\ file.state \in {"cut", "unlinked"}
          /\ UNCHANGED deleted
       \/ /\ file.state = "dir" /\ ~file.hole /\ file.size = 0
          /\ Remember
    /\ \E b \in Open : Put(b, Header(file.life, 0, TRUE, TRUE))
    /\ file' = [file EXCEPT !.state = "none", !.size = 0,
                            !.at = [p \in 0..FilePages |-> Nowhere]]
    /\ UNCHANGED writes

(* A block that holds a header that shrinks its file may be collected only  *)
(* when no block before it holds a page that is no longer in use.           *)
Collectable(b) ==
    /\ Full(b) /\ b # now
    /\ (\E i \in 1..BlockPages : chip[b].pages[i].shrink) =>
           \A c \in Used \ {b} : chip[c].seq < chip[b].seq =>
               \A i \in 1..Len(chip[c].pages) : <<c, i>> \in Live

(* Collecting a block copies what is in use of it, one page at a time.  The *)
(* copy of a header has the size the file has by then; its work of          *)
(* shrinking is done, and the copy does not say it.                         *)
Copy(p) ==
    LET x == file.at[p] IN
    /\ x # Nowhere /\ Collectable(x[1])
    /\ \E b \in Open :
        /\ Put(b, IF p = 0 THEN Header(file.life, file.size, FALSE, At(x).gone) ELSE At(x))
        /\ file' = [file EXCEPT !.at[p] = PutAt(b)]
    /\ deleted' = IF p = 0 /\ file.state = "cut"
                  THEN [deleted EXCEPT !.lives[file.life].told = FALSE]
                  ELSE deleted
    /\ UNCHANGED writes

Erase(b) ==
    /\ b \in Used /\ Collectable(b)
    /\ \A i \in 1..BlockPages : <<b, i>> \notin Live
    /\ chip' = [chip EXCEPT ![b] = [seq |-> 0, pages |-> <<>>]]
    /\ deleted' = [deleted EXCEPT !.seq = LastSeq]
    /\ UNCHANGED <<now, file, writes>>

(* The page that was to delete the file is cut short: its tags or its       *)
(* header do not hold, and it is written again further on.                  *)
Torn ==
    /\ file.state \in {"cut", "unlinked"}
    /\ \A x \in Places : At(x).ok
    /\ \E b \in Open : Put(b, [Header(file.life, 0, FALSE, TRUE) EXCEPT !.ok = FALSE])
    /\ UNCHANGED <<file, writes, deleted>>

FlashNext ==
    \/ Create
    \/ \E p \in Pages : WritePage(p)
    \/ HoleHeader
    \/ Flush
    \/ \E n \in 0..(FilePages - 1) : Truncate(n)
    \/ DeleteCut
    \/ Unlink
    \/ Delete
    \/ \E p \in 0..FilePages : Copy(p)
    \/ \E b \in 1..Blocks : Erase(b)
    \/ Torn
==============================================================================
