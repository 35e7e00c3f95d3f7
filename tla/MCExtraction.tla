----------------------------- MODULE MCExtraction -----------------------------
(***************************************************************************)
(* A volume of seven two-byte blocks: the inodes of a, b and the symlink s  *)
(* in blocks 0, 1 and 2, that of c in block 2 too; a, three bytes in blocks *)
(* 3 and 4, listed twice (a hard link); b, four bytes behind the pointer    *)
(* block 5: block 6 and a hole; c, two bytes that are a hole.  The image    *)
(* may be cut at any byte and any set of blocks may be unreadable.          *)
(***************************************************************************)
EXTENDS Extraction, TLC

CONSTANTS a, b, c, s

MCLayout ==
    a :> [regular |-> TRUE, inode |-> 0, upto |-> 1, size |-> 3,
          blocks |-> << [ptrs |-> << >>, data |-> 3], [ptrs |-> << >>, data |-> 4] >>]
    @@ b :> [regular |-> TRUE, inode |-> 1, upto |-> 2, size |-> 4,
             blocks |-> << [ptrs |-> <<5>>, data |-> 6], [ptrs |-> <<5>>, data |-> Hole] >>]
    @@ c :> [regular |-> TRUE, inode |-> 2, upto |-> 2, size |-> 2,
             blocks |-> << [ptrs |-> << >>, data |-> Hole] >>]
    @@ s :> [regular |-> FALSE, inode |-> 2, upto |-> 1, size |-> 0, blocks |-> << >>]

MCListing == <<a, s, b, c, a>>
===============================================================================
