------------------------------ MODULE Jffs2Flash -----------------------------
(***************************************************************************)
(* A flash that JFFS2 writes, which is what qnxprobe.py is given.  The      *)
(* driver is not part of the program: it is modelled from what Jffs2Walker  *)
(* takes for granted of it and from the places of Linux it cites.           *)
(*                                                                         *)
(* Every node is in an erase block of its own, by the order of writing.     *)
(* There is one inode number, which is given to the next file when none of  *)
(* its nodes are left that a mount would see: a life.  A node's content is  *)
(* the life and the number of the write that put it there, and sizes are    *)
(* counted in the ranges that nodes cover.                                  *)
(***************************************************************************)
EXTENDS Integers, Sequences, FiniteSets, FiniteSetsExt

CONSTANTS
    Names,      \* the names of the directory
    FilePages,  \* bound on the ranges of a file
    MaxNodes,   \* bound on the nodes ever written
    MaxLives    \* bound on the files that have had the inode number

ASSUME FlashBounds == FilePages \in Nat \ {0} /\ MaxNodes \in Nat /\ MaxLives \in Nat

VARIABLES
    nor,        \* whether the flash lets a node be marked obsolete
    chip,       \* every node ever written, in order, with what became of it
    file,       \* what the driver knows of the file
    names,      \* for each name, the node that says what it names
    dead        \* of each life that has ended, what the file held, and where

flash == <<nor, chip, file, names, dead>>

Ino == 2
Pages == 1..FilePages
Nowhere == 0
Zeros == <<0, 0>>
Written == 1..Len(chip)

(* A node of the inode, which holds one range or only the size; and a node  *)
(* of the directory, which gives a name to the inode or takes it away.      *)
Inode(ver, size, page, val) ==
    [kind |-> "inode", ver |-> ver, life |-> file.life, size |-> size, page |-> page,
     val |-> val, name |-> "", ino |-> Ino, state |-> "valid"]
Dirent(ver, name, ino) ==
    [kind |-> "dirent", ver |-> ver, life |-> file.life, size |-> 0, page |-> 0,
     val |-> Zeros, name |-> name, ino |-> ino, state |-> "valid"]

On(state) == {x \in Written : chip[x].state \in state}
Valid == On({"valid"})
Dirents == {x \in Valid : chip[x].kind = "dirent"}

Put(n) == Len(chip) < MaxNodes /\ chip' = Append(chip, n)
Here == Len(chip) + 1
NextVersion == file.ver + 1
NextName == 1 + Max({chip[x].ver : x \in {y \in Written : chip[y].kind = "dirent"}} \cup {0})

(* What the driver needs: the nodes of the file's ranges, the one of its    *)
(* size until the next write, and for each name the node that says what it  *)
(* names.  One that takes a name away is needed for as long as an older one *)
(* that gives it is there for a mount to see.                               *)
Needed ==
    ({file.at[p] : p \in 0..FilePages} \ {Nowhere}) \cup
    {x \in {names[n] : n \in Names} \ {Nowhere} :
        chip[x].ino # 0 \/ \E y \in Dirents : chip[y].name = chip[x].name /\ chip[y].ver < chip[x].ver}

Held == [size |-> file.size,
         pages |-> [p \in Pages |-> IF file.at[p] = Nowhere THEN Zeros ELSE chip[file.at[p]].val]]
Named == {n \in Names : names[n] # Nowhere /\ chip[names[n]].ino = Ino}

NoFile(life) == [life |-> life, ver |-> 0, size |-> 0, at |-> [p \in 0..FilePages |-> Nowhere]]

FlashInit ==
    /\ nor \in BOOLEAN
    /\ chip = <<>> /\ file = NoFile(0) /\ dead = <<>>
    /\ names = [n \in Names |-> Nowhere]

(* A file starts with an inode node, and then gets its name.                *)
Create ==
    /\ file.ver = 0 /\ file.life < MaxLives
    /\ \A x \in Valid : chip[x].kind = "dirent"
    /\ Put([Inode(1, 0, 0, Zeros) EXCEPT !.life = file.life + 1])
    /\ file' = [NoFile(file.life + 1) EXCEPT !.ver = 1, !.at[0] = Here]
    /\ UNCHANGED <<nor, names, dead>>

Name(n) ==
    /\ file.ver > 0 /\ n \notin Named
    /\ Put(Dirent(NextName, n, Ino))
    /\ names' = [names EXCEPT ![n] = Here]
    /\ UNCHANGED <<nor, file, dead>>

(* A range is written; past the end of the file, the hole between is a node *)
(* too, written first.                                                      *)
WritePage(p, v) ==
    /\ Named # {}
    /\ p <= file.size + 1
    /\ Put(Inode(NextVersion, Max({file.size, p}), p, v))
    /\ file' = [file EXCEPT !.ver = NextVersion, !.size = Max({@, p}),
                            !.at = [@ EXCEPT ![0] = Nowhere, ![p] = Here]]
    /\ UNCHANGED <<nor, names, dead>>

Truncate(n) ==
    /\ Named # {} /\ n < file.size
    /\ Put(Inode(NextVersion, n, 0, Zeros))
    /\ file' = [file EXCEPT !.ver = NextVersion, !.size = n,
                            !.at = [p \in 0..FilePages |-> IF p = 0 THEN Here
                                    ELSE IF p > n THEN Nowhere ELSE file.at[p]]]
    /\ UNCHANGED <<nor, names, dead>>

(* With its last name the file goes: its nodes are not needed any more.     *)
Unlink(n) ==
    /\ n \in Named
    /\ Put(Dirent(NextName, n, 0))
    /\ names' = [names EXCEPT ![n] = Here]
    /\ IF Named = {n}
       THEN /\ file' = NoFile(file.life)
            /\ dead' = Append(dead, [held |-> Held, at |-> {file.at[p] : p \in 0..FilePages} \ {Nowhere}])
       ELSE UNCHANGED <<file, dead>>
    /\ UNCHANGED nor

(* Collecting a node that is needed copies it as it is, or writes what it   *)
(* holds anew.                                                              *)
Copy(p) ==
    LET x == file.at[p] IN
    /\ x # Nowhere
    /\ \/ Put(chip[x]) /\ file' = [file EXCEPT !.at[p] = Here]
       \/ /\ Put(Inode(NextVersion, file.size, p, chip[x].val))
          /\ file' = [file EXCEPT !.at[p] = Here, !.ver = NextVersion]
    /\ UNCHANGED <<nor, names, dead>>

CopyName(n) ==
    /\ names[n] \in Needed
    /\ Put([chip[names[n]] EXCEPT !.ver = NextName])
    /\ names' = [names EXCEPT ![n] = Here]
    /\ UNCHANGED <<nor, file, dead>>

(* A node that is not needed is marked, where that can be done, and goes    *)
(* when its block is erased.                                                *)
Mark(x) ==
    /\ nor /\ x \in Valid \ Needed
    /\ chip' = [chip EXCEPT ![x].state = "obsolete"]
    /\ UNCHANGED <<nor, file, names, dead>>

Erase(x) ==
    /\ x \in On({"valid", "obsolete"}) \ Needed
    /\ chip' = [chip EXCEPT ![x].state = "erased"]
    /\ names' = [n \in Names |-> IF names[n] = x THEN Nowhere ELSE names[n]]
    /\ UNCHANGED <<nor, file, dead>>

(* A node whose checksum does not hold, and is written again.               *)
Torn ==
    /\ file.ver > 0 /\ On({"torn"}) = {}
    /\ \/ file.size > 0 /\ Put([Inode(NextVersion, 0, 0, Zeros) EXCEPT !.state = "torn"])
       \/ \E n \in Named : Put([Dirent(NextName, n, 0) EXCEPT !.state = "torn"])
    /\ UNCHANGED <<nor, file, names, dead>>

FlashNext ==
    \/ Create
    \/ \E n \in Names : Name(n)
    \/ \E p \in Pages : WritePage(p, <<file.life, Here>>)
    \/ WritePage(file.size + 1, Zeros) /\ file.size + 2 <= FilePages
    \/ \E n \in 0..(FilePages - 1) : Truncate(n)
    \/ \E n \in Names : Unlink(n)
    \/ \E p \in 0..FilePages : Copy(p)
    \/ \E n \in Names : CopyName(n)
    \/ \E x \in Written : Mark(x)
    \/ \E x \in Written : Erase(x)
    \/ Torn
==============================================================================
