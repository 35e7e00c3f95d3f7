-------------------------------- MODULE Jffs2 --------------------------------
(***************************************************************************)
(* Jffs2Walker of qnxprobe.py: which nodes of a flash make its directory    *)
(* and its files, and which files that were deleted can be given back.  The *)
(* flash may be taken after any step of its driver, so what the walker      *)
(* reads is a function of the chip, looked at in every state.               *)
(***************************************************************************)
EXTENDS Jffs2Flash

(* _scan(): nodes of which a checksum fails are dropped, and ones marked    *)
(* obsolete are kept for recover_deleted() only.                            *)
InodeNodes == {x \in Valid : chip[x].kind = "inode"}
DirentNodes == {x \in Valid : chip[x].kind = "dirent"}
ObsoleteInodes == {x \in On({"obsolete"}) : chip[x].kind = "inode"}

(* The newest node by version; of two with one version the later for the    *)
(* ranges of a file, the first for a name.                                  *)
Supersedes(x, y) == chip[x].ver > chip[y].ver \/ (chip[x].ver = chip[y].ver /\ x > y)
Newest(S) == CHOOSE x \in S : \A y \in S \ {x} : Supersedes(x, y)

OfName(n) == {x \in DirentNodes : chip[x].name = n}

(* _dirent() and listdir(): the newest node of a name says what it names.   *)
Target(n) ==
    IF OfName(n) = {} THEN 0
    ELSE chip[CHOOSE x \in OfName(n) : \A y \in OfName(n) : chip[x].ver >= chip[y].ver].ino

Listed == {n \in Names : Target(n) # 0}

(* Mutant: the size is the greatest any node tells.                         *)
GreatestSize(S) == Max({chip[x].size : x \in S})

(* read_file(): cut to the size of the newest node, every range from the    *)
(* newest node that covers it.                                              *)
Size(S) == chip[Newest(S)].size

Covering(S, p) == {x \in S : chip[x].page = p}
Content(S) ==
    [size |-> Size(S),
     pages |-> [p \in Pages |->
         IF p > Size(S) \/ Covering(S, p) = {} THEN Zeros ELSE chip[Newest(Covering(S, p))].val]]

------------------------------------------------------------------------------
Reached == \E n \in Names : Target(n) = Ino

(* Mutant: nodes marked obsolete are left out.                              *)
LeftValid == IF Reached THEN {} ELSE InodeNodes

(* recover_deleted(): all nodes of a number no live name reaches, obsolete  *)
(* or not.                                                                  *)
Left == IF Reached THEN {} ELSE InodeNodes \cup ObsoleteInodes

(* It is given back when its nodes cover all of its size, and no two have   *)
(* one version.                                                             *)
Gap(S) == \E p \in 1..Size(S) : Covering(S, p) = {}

(* Mutant: only versions of nodes not marked obsolete are compared.         *)
TwiceInValid(S) == \E x, y \in S \cap Valid : x # y /\ chip[x].ver = chip[y].ver

Twice(S) == \E x, y \in S : x # y /\ chip[x].ver = chip[y].ver
GivenBack == Left # {} /\ ~Gap(Left) /\ ~Twice(Left)

------------------------------------------------------------------------------
Spec == FlashInit /\ [][FlashNext]_flash

Contents == [size : 0..FilePages, pages : [Pages -> (0..MaxLives) \X (0..MaxNodes)]]

TypeOK ==
    /\ \A x \in Written : chip[x].state \in {"valid", "obsolete", "torn", "erased"}
    /\ file.life \in 0..MaxLives /\ file.size \in 0..FilePages
    /\ Needed \subseteq Valid
    /\ InodeNodes # {} => Content(InodeNodes) \in Contents

(* The directory and the file are read as the device had them, whichever    *)
(* step it stopped at: a name taken away or moved does not come back,       *)
(* whatever was copied or erased since.                                     *)
ReadsAsHeld == Listed = Named /\ (Named # {} => Content(InodeNodes) = Held)

(* A deleted file is given back as it was when what it was made of is still *)
(* there, nothing twice, and its number has served no other file.           *)
OnFlash == {x \in On({"valid", "obsolete"}) : chip[x].kind = "inode"}
WholeIsGivenBack ==
    \A l \in 1..Len(dead) :
        /\ dead[l].at \subseteq OnFlash /\ ~Twice(OnFlash)
        /\ \A x \in OnFlash : chip[x].life = l
        => GivenBack /\ Content(Left) = dead[l].held

(* What is given back is one file, as it was when it was deleted, or as it  *)
(* is now if it has no name yet, until a node of it is erased: however many *)
(* files have had the number and left their nodes beside each other, marked *)
(* on NOR, copied or torn, no two are put together, and no range is older   *)
(* than the file (recover_deleted).  Once nodes have been erased, none of   *)
(* the versions that are left need be twice, and two files can be mixed.    *)
OneFileEach ==
    LET lives == {chip[x].life : x \in Left}
        erased == {x \in On({"erased"}) : chip[x].kind = "inode" /\ chip[x].life \in lives}
    IN GivenBack /\ erased = {} =>
          \E l \in 1..file.life :
             /\ lives = {l}
             /\ Content(Left) = IF l <= Len(dead) THEN dead[l].held ELSE Held
==============================================================================
