-------------------------------- MODULE Yaffs --------------------------------
(***************************************************************************)
(* YaffsWalker of qnxprobe.py on a YAFFS2 flash: which chunks make a file,  *)
(* and which files that were deleted can be given back.  The flash may be   *)
(* taken after any step of its driver, so what the walker reads is a        *)
(* function of the chip, looked at in every state.                          *)
(***************************************************************************)
EXTENDS YaffsFlash

(* Mutant: chunks are ordered by their place on the flash alone.            *)
OlderByPlace(x, y) == x[1] < y[1] \/ (x[1] = y[1] /\ x[2] < y[2])

(* _scan2() sorts the chunks by their block's sequence number and, in one   *)
(* block, by their place on the flash.                                      *)
Older(x, y) ==
    \/ chip[x[1]].seq < chip[y[1]].seq
    \/ chip[x[1]].seq = chip[y[1]].seq /\ x[2] < y[2]

Newest(S) == CHOOSE x \in S : \A y \in S \ {x} : Older(y, x)
Before(S, y) == {x \in S : Older(x, y)}

(* The chunks _scan2() passes to _take2(): those whose tags and header hold.*)
Entries == {x \in Places : At(x).ok}

Headers(S) == {x \in S : At(x).page = 0}
Copies(S, p) == {x \in S : At(x).page = p}

(* Mutant: an older header never cuts the file.                             *)
NewestCuts(S, h) == h = Newest(Headers(S))

(* The size a header cuts the file to, for the chunks older than it: the    *)
(* newest header always does, an older one when it shrinks the file or      *)
(* files it as deleted.                                                     *)
CutsTo(h) == IF At(h).gone THEN 0 ELSE At(h).size
Cuts(S, h) == h = Newest(Headers(S)) \/ At(h).shrink \/ At(h).gone

(* _take2() over the chunks S, newest first.  A chunk of data that a newer  *)
(* header cut off is not taken, nor is any chunk older than one for the     *)
(* same page; data newer than the newest header make the file longer.       *)
CutOff(S, x) ==
    \E h \in Headers(S) :
        /\ Older(x, h) /\ Cuts(S, h)
        /\ At(x).page > (IF h = Newest(Headers(S)) THEN At(h).size ELSE CutsTo(h))

Chunk(S, p) ==
    IF Copies(S, p) = {} \/ CutOff(S, Newest(Copies(S, p))) THEN Nowhere
    ELSE Newest(Copies(S, p))

(* Mutant: chunks from before the newest header are counted again.          *)
StoredTwice(S) == At(Newest(Headers(S))).size + Cardinality(S \ Headers(S))

Stored(S) ==
    LET hdr == Newest(Headers(S)) IN
    Max({At(hdr).size} \cup {At(x).page : x \in {y \in S \ Headers(S) : Older(hdr, y)}})

(* read_file(): a page no chunk was taken for is a hole.                    *)
Content(S) ==
    [size |-> Stored(S),
     pages |-> [p \in Pages |->
         IF p > Stored(S) \/ Chunk(S, p) = Nowhere THEN Zeros ELSE At(Chunk(S, p)).val]]

(* A file whose newest header files it as deleted is not listed.            *)
Listed(S) == Headers(S) # {} /\ ~At(Newest(Headers(S))).gone

------------------------------------------------------------------------------
(* recover_deleted(): the headers of the object, oldest first, cut at every *)
(* one that files it as deleted.                                            *)
Ends == {d \in Headers(Entries) : At(d).gone}
Life(d) == {h \in Headers(Entries) :
                /\ Older(h, d) /\ ~At(h).gone
                /\ \A e \in Ends : Older(e, d) => Older(e, h)}

(* Mutant: the header deleting wrote is taken for the file's own.           *)
NeverCutByDelete(d) == FALSE

(* The header of size 0 that deleting wrote is the deletion's own, and the  *)
(* one before it describes the file.                                        *)
CutByDelete(d) ==
    LET last == Newest(Life(d)) IN
    /\ Cardinality(Life(d)) > 1
    /\ At(last).size = 0 /\ ~At(last).shrink

EndOf(d) == IF CutByDelete(d) THEN Newest(Life(d)) ELSE d

(* _deleted2(): the file is what _take2() makes of the chunks before that,  *)
(* and is given back when none of its pages is missing.                     *)
Whole(S) == \A p \in 1..Stored(S) : Chunk(S, p) # Nowhere

Recovered ==
    {[held |-> Content(Before(Entries, EndOf(d))), life |-> At(d).val[1]] :
        d \in {e \in Ends : Life(e) # {} /\ Whole(Before(Entries, EndOf(e)))}}

------------------------------------------------------------------------------
Spec == FlashInit /\ [][FlashNext]_flash

TypeOK ==
    /\ \A b \in Used : Len(chip[b].pages) \in 1..BlockPages
    /\ file.state \in {"none", "dir", "cut", "unlinked"} /\ file.size \in 0..FilePages
    /\ Live \subseteq Entries
    /\ Listed(Entries) => Content(Entries) \in
           [size : 0..FilePages, pages : [Pages -> (0..MaxLives) \X (0..MaxWrites)]]

(* The directory and the file are read as the device had them, whichever    *)
(* step it stopped at: no page comes from before it was overwritten, cut    *)
(* off or moved, the size is right when the header is still to be written,  *)
(* and a file that was deleted is not listed again when blocks of its later *)
(* headers have been erased.                                                *)
ReadsAsHeld ==
    /\ Listed(Entries) <=> file.state \in {"dir", "cut"}
    /\ file.state \in {"dir", "cut"} => Content(Entries) = Held

(* A file that is given back is one file: when its id was used before or    *)
(* since, none of its data is another's.                                    *)
OneLifeEach ==
    \A r \in Recovered : \A p \in 1..r.held.size : r.held.pages[p][1] = r.life

(* A deleted file with no holes, whose size a header tells and whose chunks *)
(* are all still there, is given back as it was, however much was written,  *)
(* moved and deleted since.                                                 *)
WholeIsGivenBack ==
    \A l \in 1..Len(deleted.lives) :
        LET d == deleted.lives[l] IN
        /\ d.at \subseteq {<<chip[x[1]].seq, x[2]>> : x \in Places}
        /\ (l < file.life \/ file.state = "none")
        /\ d.told
        /\ \A p \in 1..d.held.size : d.held.pages[p] # Zeros
        => \E r \in Recovered : r.held = d.held
==============================================================================
