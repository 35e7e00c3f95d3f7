---------------------------- MODULE MCVirtualDisks ----------------------------
(***************************************************************************)
(* A disk over a disk over a disk, of blocks of two sectors, which are      *)
(* alike; and a VHDX file of two blocks with a log of four sectors, in      *)
(* which the four entries, of one or two sectors, wrap round, opened for    *)
(* writing twice, so that the second log lies over what is left of the      *)
(* first.  Nothing of one is shared with the other: a behaviour is of the   *)
(* one or of the other, from where both begin.                              *)
(***************************************************************************)
EXTENDS DiskChain, VhdxLog

Alike == Permutations(Sectors)

LogRests == Init /\ UNCHANGED vars
ChainRests == HostInit /\ kind = "VHDX" /\ ~flat /\ UNCHANGED host

EitherInit == HostInit /\ Init

EitherSpec ==
    EitherInit /\ [][(HostNext /\ LogRests) \/ (Next /\ ChainRests)]_<<host, vars>>
===============================================================================
