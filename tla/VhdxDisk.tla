------------------------------ MODULE VhdxDisk ------------------------------
(***************************************************************************)
(* A VHDX file and the program that writes it, stopped at any moment: what  *)
(* ewfprobe.py is given.  None of it is code of this repository; it is what *)
(* _vhdx_replay() and _index_vhdx() take a writer to do.                    *)
(*                                                                          *)
(* A disk of Blocks has one sector of the block allocation table for each.  *)
(* A change of the table goes through the log: an entry is written to the   *)
(* ring and flushed, then the table is written in place, and only then may  *)
(* a later entry name a tail past it, so that its sectors can be used       *)
(* again.  What is not flushed reaches the medium in any order, or not at   *)
(* all; a header that is being written has no valid checksum.               *)
(***************************************************************************)
EXTENDS Naturals, Sequences, SequencesExt, FiniteSets, FiniteSetsExt, Functions

CONSTANTS
    Blocks,         \* blocks of the disk
    LogSectors,     \* sectors of the log
    MaxPlaces,      \* bound: payload blocks the file is given
    MaxEntries,     \* bound: log entries written
    MaxSessions     \* bound: times the file is opened for writing

ASSUME VhdxAssumption ==
    /\ IsFiniteSet(Blocks)
    /\ LogSectors \in Nat \ {0, 1}
    /\ {MaxPlaces, MaxEntries, MaxSessions} \subseteq Nat

Blank == [kind |-> "blank"]

VARIABLES
    ring,       \* the log: its sectors
    bat,        \* the table: the place of each block, 0 where it has none
    size,       \* the file's size, in places
    headers,    \* the two headers
    pending,    \* writes not yet on the medium
    entries,    \* the entries of this session, oldest first; each begins `from' sectors into what was logged
    session,    \* the session's number, which stands for the log's GUID
    phase,      \* "closed", "opening", "open", "closing"
    places,     \* places given out
    extended,   \* the size the file has been extended to, flushed or not
    stable,     \* the size known to be on the medium
    hist,       \* the tables the writer went through
    safe        \* how many of them are known to be on the medium

disk == <<ring, bat, size, headers, pending, entries, session, phase, places,
          extended, stable, hist, safe>>

Ring == 0..(LogSectors - 1)
At(x) == x % LogSectors

DiskInit ==
    /\ ring = [x \in Ring |-> Blank]
    /\ bat = [b \in Blocks |-> 0]
    /\ size = 0 /\ extended = 0 /\ stable = 0 /\ places = 0
    /\ headers = <<[seq |-> 1, guid |-> 0, ok |-> TRUE], [seq |-> 0, guid |-> 0, ok |-> TRUE]>>
    /\ pending = {}
    /\ entries = <<>>
    /\ session = 0
    /\ phase = "closed"
    /\ hist = <<bat>>
    /\ safe = 1

-----------------------------------------------------------------------------
(* The header that is not the current one is written over.                  *)
WriteHeader(guid) ==
    LET seq == Max({headers[h].seq : h \in 1..2})
        h == CHOOSE i \in 1..2 : headers[i].seq # seq
    IN pending' = {[to |-> "header", at |-> h, what |-> [seq |-> seq + 1, guid |-> guid, ok |-> TRUE]]}

OpenToWrite ==
    /\ phase = "closed" /\ session < MaxSessions
    /\ phase' = "opening"
    /\ session' = session + 1
    /\ WriteHeader(session')
    /\ entries' = <<>>
    /\ UNCHANGED <<ring, bat, size, headers, places, extended, stable, hist, safe>>

(* Only when the table has all that the log has.                            *)
Close ==
    /\ phase = "open" /\ pending = {}
    /\ \A i \in 1..Len(entries) : entries[i].state = "done"
    /\ phase' = "closing"
    /\ WriteHeader(0)
    /\ UNCHANGED <<ring, bat, size, headers, entries, session, places, extended, stable, hist, safe>>

-----------------------------------------------------------------------------
(* The sectors that must stay: those from the tail of the last entry that   *)
(* is on the medium to the end of the log.  The tail an entry names is the  *)
(* oldest entry the table may not have.                                     *)
Kept ==
    LET flushed == {i \in 1..Len(entries) : entries[i].state # "issued"}
    IN IF flushed = {} THEN 1 ELSE entries[Max(flushed)].first

NeededFrom ==
    LET open == {i \in 1..Len(entries) : entries[i].state # "done"}
    IN IF open = {} THEN Len(entries) + 1 ELSE Min(open)

Logged == IF entries = <<>> THEN 0 ELSE Last(entries).from + Last(entries).head.len
Used == IF entries = <<>> THEN 0 ELSE Logged - entries[Kept].from

(* An entry for a change of the table: each block is given a new place or   *)
(* loses the one it had.  Each makes a table that was not there before, so  *)
(* that a table tells how far the log has been read.                        *)
Changed(blocks, new) ==
    [b \in Blocks |-> IF b \notin blocks THEN Last(hist)[b] ELSE IF b = new THEN places + 1 ELSE 0]

Log(blocks, new) ==
    LET table == Changed(blocks, new)
        len == IF new \in blocks THEN 2 ELSE 1
        seq == Len(entries) + 1
        first == NeededFrom
        data == IF new \in blocks THEN <<[kind |-> "data", seq |-> seq, place |-> places + 1]>> ELSE <<>>
        head == [kind |-> "loge", guid |-> session, seq |-> seq, len |-> len,
                 tail |-> At(IF first > Len(entries) THEN Logged ELSE entries[first].from),
                 flushed |-> stable, last |-> Max({places + len - 1, stable}),
                 zero |-> blocks \ {new}, desc |-> blocks \cap {new}, sum |-> data]
    IN /\ phase = "open"
       /\ Len(hist) <= MaxEntries
       /\ table \notin Range(hist)
       /\ Used + len <= LogSectors
       /\ places + len - 1 <= MaxPlaces
       /\ pending' = pending \cup
             {[to |-> "ring", at |-> At(Logged + i), what |-> (<<head>> \o data)[i + 1]] : i \in 0..(len - 1)}
       /\ entries' = Append(entries, [from |-> Logged, head |-> head, first |-> first,
                                      table |-> table, state |-> "issued"])
       /\ places' = places + len - 1
       /\ hist' = Append(hist, table)
       /\ UNCHANGED <<ring, bat, size, headers, session, phase, extended, stable, safe>>

(* The file is extended for a place given out, or for the next one.         *)
Extend ==
    /\ phase = "open"
    /\ extended <= places /\ extended < MaxPlaces
    /\ extended' = extended + 1
    /\ pending' = pending \cup {[to |-> "size", at |-> 0, what |-> extended + 1]}
    /\ UNCHANGED <<ring, bat, size, headers, entries, session, phase, places, stable, hist, safe>>

(* The oldest flushed entry is put into the table.                          *)
Apply ==
    \E i \in 1..Len(entries) :
        /\ entries[i].state = "flushed"
        /\ \A j \in 1..(i - 1) : entries[j].state = "done"
        /\ extended >= entries[i].head.last
        /\ pending' = pending \cup
              {[to |-> "bat", at |-> b, what |-> entries[i].table[b]] :
                  b \in {b \in Blocks : entries[i].table[b] # bat[b]}}
        /\ entries' = [entries EXCEPT ![i].state = "applied"]
        /\ UNCHANGED <<ring, bat, size, headers, session, phase, places, extended, stable, hist, safe>>

-----------------------------------------------------------------------------
(* A write reaches the medium; a header is without a valid checksum first.  *)
Land ==
    \E w \in pending :
        /\ pending' = pending \ {w}
        /\ ring' = IF w.to = "ring" THEN [ring EXCEPT ![w.at] = w.what] ELSE ring
        /\ bat' = IF w.to = "bat" THEN [bat EXCEPT ![w.at] = w.what] ELSE bat
        /\ size' = IF w.to = "size" THEN Max({size, w.what}) ELSE size
        /\ headers' = IF w.to = "header" THEN [headers EXCEPT ![w.at] = w.what] ELSE headers
        /\ w.to = "header" => ~headers[w.at].ok
        /\ UNCHANGED <<entries, session, phase, places, extended, stable, hist, safe>>

HeaderTorn ==
    \E w \in pending :
        /\ w.to = "header" /\ headers[w.at].ok
        /\ headers' = [headers EXCEPT ![w.at].ok = FALSE]
        /\ UNCHANGED <<ring, bat, size, pending, entries, session, phase, places, extended, stable, hist, safe>>

(* The medium says that all it was given is there.                          *)
Flush ==
    /\ pending = {}
    /\ \/ phase \in {"opening", "closing"}
       \/ stable # extended
       \/ \E i \in 1..Len(entries) : entries[i].state \in {"issued", "applied"}
    /\ phase' = CASE phase = "opening" -> "open" [] phase = "closing" -> "closed" [] OTHER -> phase
    /\ entries' = [i \in 1..Len(entries) |->
                      [entries[i] EXCEPT !.state =
                          CASE @ = "issued" -> "flushed" [] @ = "applied" -> "done" [] OTHER -> @]]
    /\ stable' = extended
    /\ safe' = Len(hist)
    /\ UNCHANGED <<ring, bat, size, headers, pending, session, places, extended, hist>>

DiskNext ==
    \/ OpenToWrite \/ Close \/ Extend \/ Apply \/ Land \/ HeaderTorn \/ Flush
    \/ \E blocks \in SUBSET Blocks \ {{}} : \E new \in blocks \cup {0} : Log(blocks, new)
=============================================================================
