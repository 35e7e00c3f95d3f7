----------------------------- MODULE RaidStripe -----------------------------
(***************************************************************************)
(* RaidGeometry.stripe() and _raid6_slots() of qnxprobe.py: which member of *)
(* a RAID4, RAID5 or RAID6 array holds a byte, and which hold the P and Q   *)
(* of its stripe, for every layout md defines.                              *)
(***************************************************************************)
EXTENDS Integers, FiniteSets

(* g.layout is md's number of the layout; s is the number of the stripe, k  *)
(* of the data chunk in it.                                                 *)
Parities(g) == IF g.level = "6" THEN 2 ELSE 1
DataDisks(g) == g.n - Parities(g)

LeftOf(m, s) == (m - 1) - (s % m)   \* parity from the last member to the first
RightOf(m, s) == s % m              \* and from the first to the last
Past(k, pd) == IF k >= pd THEN k + 1 ELSE k
After(k, pd, m) == (pd + 1 + k) % m

P5(g, s) ==
    CASE g.level = "4" -> g.n - 1
      [] g.level = "5" /\ g.layout = 5 -> g.n - 1
      [] g.level = "5" /\ g.layout = 4 -> 0
      [] g.level = "5" /\ g.layout \in {0, 2} -> LeftOf(g.n, s)
      [] g.level = "5" /\ g.layout \in {1, 3} -> RightOf(g.n, s)

D5(g, s, k) == IF g.level = "5" /\ g.layout \in {2, 3}
               THEN After(k, P5(g, s), g.n) ELSE Past(k, P5(g, s))

P6(g, s) ==
    CASE g.layout = 9 -> LeftOf(g.n, s + 1)
      [] g.layout \in {0, 2, 10} -> LeftOf(g.n, s)
      [] g.layout \in {1, 3, 8} -> RightOf(g.n, s)
      [] g.layout \in {4, 20} -> 0
      [] g.layout = 5 -> g.n - 2
      [] g.layout \in {16, 18} -> LeftOf(g.n - 1, s)
      [] g.layout \in {17, 19} -> RightOf(g.n - 1, s)

Q6(g, s) ==
    CASE g.layout \in {0, 1, 2, 3, 4, 5, 8, 9} -> (P6(g, s) + 1) % g.n
      [] g.layout = 10 -> (P6(g, s) + g.n - 1) % g.n
      [] g.layout \in {16, 17, 18, 19, 20} -> g.n - 1

(* Mutant: a P on the last member, whose Q is on the first, is as any other. *)
D6NotRound(g, s, k) ==
    LET pd == P6(g, s)
    IN CASE g.layout \in {0, 1, 8, 9} -> IF k >= pd THEN k + 2 ELSE k
         [] g.layout \in {2, 3} -> (pd + 2 + k) % g.n
         [] g.layout = 4 -> k + 2
         [] g.layout = 5 -> k
         [] g.layout = 10 -> After(k, pd, g.n)
         [] g.layout \in {16, 17, 20} -> Past(k, pd)
         [] g.layout \in {18, 19} -> After(k, pd, g.n - 1)

D6(g, s, k) ==
    LET pd == P6(g, s)
    IN CASE g.layout \in {0, 1, 8, 9} ->
              IF pd = g.n - 1 THEN k + 1 ELSE IF k >= pd THEN k + 2 ELSE k
         [] g.layout \in {2, 3} -> (pd + 2 + k) % g.n
         [] g.layout = 4 -> k + 2
         [] g.layout = 5 -> k
         [] g.layout = 10 -> After(k, pd, g.n)
         [] g.layout \in {16, 17, 20} -> Past(k, pd)
         [] g.layout \in {18, 19} -> After(k, pd, g.n - 1)

Ddf(g) == g.level = "6" /\ g.layout \in {8, 9, 10}

NoQ == -1

Stripe(g, off) ==
    LET within == off % g.chunk
        cnum == off \div g.chunk
        s == cnum \div DataDisks(g)
        k == cnum % DataDisks(g)
    IN [role |-> IF g.level = "6" THEN D6(g, s, k) ELSE D5(g, s, k),
        pd |-> IF g.level = "6" THEN P6(g, s) ELSE P5(g, s),
        qd |-> IF g.level = "6" THEN Q6(g, s) ELSE NoQ,
        at |-> s * g.chunk + within,
        run |-> g.chunk - within]

(* _raid6_slots(): the place of each data member in the Q syndrome.         *)
Slots6(g, pd, qd) ==
    LET d0 == IF Ddf(g) \/ qd = g.n - 1 THEN 0 ELSE qd + 1
        member(i) == (d0 + i) % g.n
        data(i) == member(i) \notin {pd, qd}
        slot(i) == IF Ddf(g) THEN i ELSE Cardinality({j \in 0..(i - 1) : data(j)})
    IN {<<member(i), slot(i)>> : i \in {j \in 0..(g.n - 1) : data(j)}}
=============================================================================
