------------------------------- MODULE MdArray -------------------------------
(***************************************************************************)
(* How qnxprobe.py puts an md array together from images of its members and *)
(* reads it: _md_assemble(), _md_roles(), _md_judge(), and RaidReader over   *)
(* the members it settles on.  The md driver (MdMembers) runs until the     *)
(* machine stops, at any step; some of its members are then given to the    *)
(* program, some cut short, some with places that do not read.  They are    *)
(* given in any order, which only counts where two superblocks are equal.   *)
(***************************************************************************)
EXTENDS MdMembers

CONSTANTS
    MaxFaults   \* bound on the images that are cut short or do not read

VARIABLES
    given,      \* the members given; none while the driver runs
    cut,        \* those whose image is too short
    failing,    \* those that do not read at the stripe
    arr,        \* the array as put together (MdArray)
    got         \* what was read of each chunk

program == <<given, cut, failing, arr, got>>
vars == <<drive, program>>

Short == -1     \* a read that stops before the chunk
Garbage == -2   \* bytes that no write ever put there
NotYet == -3

NotAssembled == [made |-> FALSE, refused |-> FALSE, incomplete |-> FALSE, clean |-> TRUE,
                 members |-> << >>]

-----------------------------------------------------------------------------
Own(d) == sb[d].roles[d]
Latest(S) == {d \in S : \A e \in S : sb[e].events <= sb[d].events}

(* _md_assemble(): the freshest superblock of those with a role.            *)
Freshest ==
    LET active == {d \in given : Own(d) # Spare}
    IN Latest(IF active # {} THEN active ELSE given)

(* Mutant: a member one event behind keeps the role it gives itself.        *)
RoleByItself(d, fresh) == Own(d)

(* _md_roles(): the role of one given.                                      *)
Role(d, fresh) ==
    IF d # fresh /\ Own(d) # Spare /\ sb[d].events + 1 = sb[fresh].events
    THEN sb[fresh].roles[d] ELSE Own(d)

(* Mutant: one without a role is not told from one with a role.            *)
TakenSpares(d, fresh) ==
    /\ Role(d, fresh) # FaultyRole /\ Role(d, fresh) < a.n
    /\ sb[d].events + 1 >= sb[fresh].events
    /\ d \notin sb[d].recovering
    /\ d \notin cut

(* It is taken if it has a role, is not stale, faulty, being rebuilt or cut. *)
Taken(d, fresh) ==
    /\ Role(d, fresh) \notin {Spare, FaultyRole} /\ Role(d, fresh) < a.n
    /\ sb[d].events + 1 >= sb[fresh].events
    /\ d \notin sb[d].recovering
    /\ d \notin cut

(* The member of each role: of two the one with more events.                *)
Fillings(fresh) ==
    LET taken == {d \in given : Taken(d, fresh)}
        claim(r) == {d \in taken : Role(d, fresh) = r}
        filled == {Role(d, fresh) : d \in taken}
    IN {m \in [filled -> taken] : \A r \in filled : m[r] \in Latest(claim(r))}

(* The roles that some image given claims, taken or not.                    *)
Claimed(fresh) ==
    LET role(d) == IF Own(d) \in Roles THEN Own(d) ELSE sb[fresh].roles[d]
    IN {role(d) : d \in given} \cap Roles

(* Mutant: as many as the level can lose are too many.                      *)
IncompleteAtLimit(fresh) == Cardinality(Roles \ Claimed(fresh)) >= Allowed

Incomplete(fresh) == Cardinality(Roles \ Claimed(fresh)) > Allowed

-----------------------------------------------------------------------------
(* RaidReader over members m, of an array that was stopped clean or not.    *)
Usable(m, r) == r \in DOMAIN m /\ m[r] \notin sb[m[r]].bad   \* _has()
Reads(m, r) == Usable(m, r) /\ m[r] \notin failing           \* _member()

P == a.n - Cardinality(Parity)
Q == a.n - 1
Data == Roles \ Parity

(* What the parity and the other chunks give for c: what was there when the *)
(* parity was made, if they have not changed since.                         *)
InStep(m, parity, c, known) ==
    IF \A e \in known : disk[m[e]][e] = disk[m[parity]][e]
    THEN disk[m[parity]][c] ELSE Garbage

(* Mutant: Q is never used.                                                 *)
RebuiltByPOnly(m, c) ==
    LET here == {r \in Roles \ {c} : Reads(m, r)}
        lost == Data \ here
    IN CASE a.level = 5 /\ Roles \ {c} \subseteq here -> InStep(m, P, c, Data \ {c})
         [] a.level = 6 /\ lost = {c} /\ P \in here -> InStep(m, P, c, Data \ {c})
         [] OTHER -> Short

(* _rebuild(): chunk c from the other members that read, by XOR with P or   *)
(* from Q.                                                                  *)
Rebuilt(m, c) ==
    LET here == {r \in Roles \ {c} : Reads(m, r)}
        lost == Data \ here
    IN CASE a.level = 5 /\ Roles \ {c} \subseteq here -> InStep(m, P, c, Data \ {c})
         [] a.level = 6 /\ lost = {c} /\ P \in here -> InStep(m, P, c, Data \ {c})
         [] a.level = 6 /\ lost = {c} /\ P \notin here /\ Q \in here -> InStep(m, Q, c, Data \ {c})
         [] a.level = 6 /\ Cardinality(lost) = 2 /\ {P, Q} \subseteq here ->
              IF \A e \in lost : disk[m[P]][e] = disk[m[Q]][e]
              THEN LET p == InStep(m, P, c, Data \ lost)
                       q == InStep(m, Q, c, Data \ lost)
                   IN IF p = q THEN p ELSE Garbage
              ELSE Garbage
         [] OTHER -> Short

(* Mutant: a failed read of a member is rebuilt, stopped clean or not.      *)
ContentAlwaysRebuilt(m, clean, c) ==
    LET mirrors == {r \in DOMAIN m : Reads(m, r)}
    IN CASE a.level = 0 -> IF Reads(m, c) THEN disk[m[c]][c] ELSE Short
         [] a.level = 1 -> IF mirrors # {} THEN disk[m[Min(mirrors)]][c] ELSE Short
         [] OTHER -> IF Reads(m, c) THEN disk[m[c]][c] ELSE Rebuilt(m, c)

(* _read() of chunk c.                                                      *)
Content(m, clean, c) ==
    LET mirrors == {r \in DOMAIN m : Reads(m, r)}
    IN CASE a.level = 0 -> IF Reads(m, c) THEN disk[m[c]][c] ELSE Short
         [] a.level = 1 -> IF mirrors # {} THEN disk[m[Min(mirrors)]][c] ELSE Short
         [] OTHER -> IF Reads(m, c) THEN disk[m[c]][c]
                     ELSE IF Usable(m, c) /\ ~clean THEN Short
                     ELSE Rebuilt(m, c)

-----------------------------------------------------------------------------
(* _md_judge(): whether the array is refused.                               *)
Refused(m, clean) ==
    LET lost == Roles \ DOMAIN m
        bad == {r \in DOMAIN m : ~Usable(m, r)}
    IN \/ Cardinality(lost) > Allowed
       \/ lost # {} /\ Parity # {} /\ ~clean
       \/ bad # {} /\ (a.level = 0 \/ (Parity # {} /\ ~clean))
       \/ bad # {} /\ \E c \in Chunks : Content(m, clean, c) = Short    \* unreadable()

Init ==
    /\ DriveInit
    /\ given = {}
    /\ cut = {}
    /\ failing = {}
    /\ arr = NotAssembled
    /\ got = [c \in Chunks |-> NotYet]

Driven == given = {} /\ Drive /\ UNCHANGED program

(* The machine stops, and images of some members are made.                  *)
Stop ==
    /\ given = {}
    /\ given' \in (SUBSET Devices) \ {{}}
    /\ \E c, f \in SUBSET given' :
          /\ Cardinality(c) + Cardinality(f) <= MaxFaults
          /\ cut' = c
          /\ failing' = f
    /\ UNCHANGED <<drive, arr, got>>

Assemble ==
    /\ given # {} /\ ~arr.made
    /\ \E fresh \in Freshest :
          \E members \in Fillings(fresh) :
             arr' = [made |-> TRUE, clean |-> sb[fresh].clean, members |-> members,
                     refused |-> Refused(members, sb[fresh].clean),
                     incomplete |-> Incomplete(fresh)]
    /\ UNCHANGED <<drive, given, cut, failing, got>>

Read ==
    /\ arr.made /\ ~arr.refused
    /\ \E c \in Chunks :
          /\ got[c] = NotYet
          /\ got' = [got EXCEPT ![c] = Content(arr.members, arr.clean, c)]
    /\ UNCHANGED <<drive, given, cut, failing, arr>>

Next == Driven \/ Stop \/ Assemble \/ Read

Spec == Init /\ [][Next]_vars

-----------------------------------------------------------------------------
TypeOK ==
    /\ a \in Arrays
    /\ cut \subseteq given /\ failing \subseteq given /\ given \subseteq Devices
    /\ \A d \in Devices :
          /\ sb[d].events \in 1..mem.events
          /\ Own(d) \in Roles \cup {Spare}
    /\ \A r \in DOMAIN arr.members : r \in Roles /\ arr.members[r] \in given
    /\ \A c \in Chunks : got[c] \in {Short, Garbage, NotYet} \cup (Blank..(Made + MaxWrites))

(* The members in sync when the machine stopped, of those given; what a     *)
(* chunk may be read as: its last write that was reported done, or the one  *)
(* that was under way.                                                      *)
Live == InSync \cap given
Current(c) == {acked[c]} \cup (IF writing.chunk = c THEN {writing.number} ELSE {})

(* Given one member that was in sync when the machine stopped, no chunk is  *)
(* read as it was before its last write, whatever others are given with it: *)
(* members that failed, spares, spares that were being rebuilt              *)
(* (_md_roles).                                                             *)
NothingStale ==
    Live # {} => \A c \in Chunks : got[c] \in {NotYet, Short, Garbage} \cup Current(c)

(* No chunk is read as bytes no write ever put there, which is what a       *)
(* rebuild from parity out of step would give (_md_judge, _read).           *)
NothingMadeUp == \A c \in Chunks : got[c] # Garbage

(* An array whose superblocks are all written, and clean if it has parity,  *)
(* is read in full when the members that are not there, cut short, or do not *)
(* read or list the place as bad are no more than its level allows.         *)
Settled == todo = {} /\ (mem.clean \/ Parity = {})
Good == Live \ (mem.bad \cup cut \cup failing)

AllThereIsIsRead ==
    Settled /\ arr.made /\ Cardinality(Roles \ {mem.roles[d] : d \in Good}) <= Allowed =>
        ~arr.refused /\ Short \notin {got[c] : c \in Chunks}

(* An array that says too few members were given is one that is not read:   *)
(* looking for more of them loses nothing.                                  *)
IncompleteIsRefused == arr.incomplete => arr.refused
=============================================================================
