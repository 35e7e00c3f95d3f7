----------------------------- MODULE CopyWriter -----------------------------
(***************************************************************************)
(* The programs that write what qnxprobe.py takes the newest copy of, and   *)
(* the medium they leave when power fails.  None of it is code of this      *)
(* repository; it is what each reader takes its writer to do.               *)
(*                                                                          *)
(* A state is written as steps: the writes of a step reach the medium in    *)
(* any order, and the next step begins when all have.  A write that is      *)
(* under way may leave its block torn, with the version number of the old   *)
(* contents or of the new.  After a power failure the writer goes on from   *)
(* the copy it takes for the newest whole one.                              *)
(***************************************************************************)
EXTENDS Naturals, Sequences, SequencesExt, FiniteSets, FiniteSetsExt

CONSTANTS
    Formats,        \* of those named below
    Untorn,         \* those taken to be on media that write a block whole or not at all
    MaxStates,      \* bound: states a writer begins to make
    MaxCrashes      \* bound: power failures

Alternating == {"QNX6", "ReFS", "F2FS", "APFS"}     \* a state is written over the older copy
Mirrored == {"Btrfs", "LUKS2", "GPT", "UBItable"}  \* a state is written over every copy

ASSUME WriterAssumption ==
    /\ Formats \subseteq Alternating \cup Mirrored \cup {"LVM", "UBI", "UBIFS"}
    /\ Untorn \subseteq Formats
    /\ {MaxStates, MaxCrashes} \subseteq Nat

VARIABLES
    fmt,        \* the format
    medium,     \* what each place holds: a part of a state, its number, and whether it is torn
    steps,      \* the steps to come
    flying,     \* the writes of this step not yet on the medium
    making,     \* the state that is being made, or 0
    current,    \* the part that the writer made last, or found
    issued,     \* states begun
    safe,       \* the last known to be on the medium
    crashes

writer == <<fmt, medium, steps, flying, making, current, issued, safe, crashes>>

Zero == 0       \* APFS's block zero, which has a copy of a superblock of the ring

Copies == CASE fmt = "APFS" -> {Zero, 1, 2} [] fmt = "Btrfs" -> 1..3 [] OTHER -> 1..2

Parts ==
    CASE fmt = "F2FS" -> {"head", "body", "tail"}
      [] fmt = "LVM" -> {"head", "text1", "text2"}
      [] fmt = "GPT" -> {"head", "array"}
      [] fmt = "UBI" -> {"vid", "data"}
      [] fmt = "UBIFS" -> {"node1", "node2"}
      [] OTHER -> {"block"}

Blank == [id |-> 0, stamp |-> 0, whole |-> FALSE]
First == [id |-> 1, stamp |-> 1, whole |-> TRUE]

WriterInit ==
    /\ fmt \in Formats
    /\ medium = [at \in Copies \X Parts |->
                    IF \/ fmt \in Alternating \cup {"UBI"} /\ at[1] = 2
                       \/ at[2] \in {"text2", "node2"} THEN Blank ELSE First]
    /\ steps = <<>> /\ flying = {} /\ making = 0
    /\ current = First
    /\ issued = 1 /\ safe = 1 /\ crashes = 0

-----------------------------------------------------------------------------
(* What a copy holds whole: a part of that state, or Blank.                 *)
Content(c) ==
    LET part(p) == medium[<<c, p>>]
        nodes == {p \in Parts : part(p).whole}
        texts == {p \in {"text1", "text2"} : part(p).whole /\ part(p).id = part("head").id}
        found == CASE fmt = "LVM" -> IF part("head").whole THEN {part(p) : p \in texts} ELSE {}
                   [] fmt = "UBIFS" -> {part(p) : p \in {q \in nodes : \A r \in nodes : part(r).id <= part(q).id}}
                   [] OTHER -> IF nodes = Parts /\ Cardinality({part(p).id : p \in Parts}) = 1
                               THEN {part(p) : p \in Parts} ELSE {}
    IN IF found = {} THEN Blank ELSE CHOOSE x \in found : TRUE

(* What the writer finds when it starts again.                              *)
Found ==
    IF fmt \in {"GPT", "Btrfs", "UBItable"} /\ Content(1) # Blank THEN Content(1)
    ELSE LET whole == {Content(c) : c \in Copies}
         IN CHOOSE x \in whole : \A y \in whole : y.stamp <= x.stamp

-----------------------------------------------------------------------------
Put(c, p, x) == [at |-> {<<c, p>>}, part |-> x]
All(c, x) == {Put(c, p, x) : p \in Parts}
Erase(c) == {[at |-> {c} \X Parts, part |-> Blank]}

(* A log-structured pair of blocks of UBIFS: a node goes after the last, or *)
(* into a block that is erased because it is full or ends in a torn node.   *)
Appending(c, x) ==
    IF medium[<<c, "node1">>].whole /\ medium[<<c, "node2">>] = Blank THEN <<{Put(c, "node2", x)}>>
    ELSE <<Erase(c), {Put(c, "node1", x)}>>

Plan(x) ==
    LET other == CHOOSE c \in Copies \ {Zero} : Content(c) # current
        unused(c) == CHOOSE p \in {"text1", "text2"} :
                        medium[<<c, p>>].id # medium[<<c, "head">>].id
    IN CASE fmt \in {"QNX6", "ReFS"} -> <<All(other, x)>>
         [] fmt = "F2FS" -> <<{Put(other, "head", x), Put(other, "body", x)}, {Put(other, "tail", x)}>>
         [] fmt = "APFS" -> <<All(other, x), All(Zero, x)>>
         [] fmt = "Btrfs" -> <<UNION {All(c, x) : c \in Copies}>>
         [] fmt = "LUKS2" -> <<All(1, x), All(2, x)>>
         [] fmt = "UBItable" -> <<Erase(1), All(1, x), Erase(2), All(2, x)>>
         [] fmt = "GPT" -> <<All(2, x), All(1, x)>>
         [] fmt = "LVM" -> <<{Put(c, unused(c), x) : c \in Copies}, {Put(1, "head", x)}, {Put(2, "head", x)}>>
         [] fmt = "UBI" -> <<Erase(other), {Put(other, "vid", x)}, {Put(other, "data", x)}, Erase(3 - other)>>
         [] fmt = "UBIFS" -> Appending(1, x) \o Appending(2, x)

(* Copies of which each is to hold the state, and which do not hold what    *)
(* was found, are made anew first.                                          *)
Mending(x) ==
    LET stale == {c \in Copies : Content(c) # x}
    IN CASE fmt = "UBIFS" -> (IF 1 \in stale THEN Appending(1, x) ELSE <<>>)
                                \o (IF 2 \in stale THEN Appending(2, x) ELSE <<>>)
         [] fmt \in Mirrored /\ stale # {} -> <<UNION {All(c, x) : c \in stale}>>
         [] OTHER -> <<>>

-----------------------------------------------------------------------------
Start(plan) ==
    /\ flying' = IF plan = <<>> THEN {} ELSE Head(plan)
    /\ steps' = IF plan = <<>> THEN <<>> ELSE Tail(plan)

Begin ==
    LET x == [id |-> issued + 1, stamp |-> current.stamp + 1, whole |-> TRUE]
    IN /\ making = 0 /\ issued < MaxStates
       /\ issued' = issued + 1
       /\ making' = x.id
       /\ current' = x
       /\ Start(Plan(x))
       /\ UNCHANGED <<fmt, medium, safe, crashes>>

(* A sector is written whole or not at all, and so is a block erased; other *)
(* blocks are only where the medium sees to it.                             *)
AtOnce(w) ==
    fmt \in Untorn \/ w.part = Blank \/ (fmt = "LVM" /\ \E at \in w.at : at[2] = "head") \/ <<Zero, "block">> \in w.at

Torn(at) == medium[at].id = 0 /\ medium[at] # Blank

Written(w, x) == [at \in DOMAIN medium |-> IF at \in w.at THEN x ELSE medium[at]]

(* A device writes one block at a time.                                     *)
Tear(w) ==
    /\ ~AtOnce(w)
    /\ \A v \in flying \ {w} : \A at \in v.at : ~Torn(at)
    /\ \E stamp \in {medium[at].stamp : at \in w.at} \cup {w.part.stamp} :
          medium' = Written(w, [id |-> 0, stamp |-> stamp, whole |-> FALSE])
    /\ UNCHANGED <<fmt, steps, flying, making, current, issued, safe, crashes>>

Land(w) ==
    /\ medium' = Written(w, w.part)
    /\ flying' = flying \ {w}
    /\ UNCHANGED <<fmt, steps, making, current, issued, safe, crashes>>

Flush ==
    /\ making # 0 /\ flying = {} /\ steps # <<>>
    /\ Start(steps)
    /\ UNCHANGED <<fmt, medium, making, current, issued, safe, crashes>>

Finish ==
    /\ making # 0 /\ flying = {} /\ steps = <<>>
    /\ safe' = making /\ making' = 0
    /\ UNCHANGED <<fmt, medium, steps, flying, current, issued, crashes>>

Crash ==
    /\ making # 0 /\ crashes < MaxCrashes
    /\ crashes' = crashes + 1
    /\ current' = Found /\ making' = Found.id
    /\ Start(Mending(Found))
    /\ UNCHANGED <<fmt, medium, issued, safe>>

WriterNext ==
    \/ Begin \/ Flush \/ Finish \/ Crash
    \/ \E w \in flying : Land(w) \/ Tear(w)
=============================================================================
