------------------------------ MODULE Recursion ------------------------------
(***************************************************************************)
(* What recursive functions and induction over data rest on: a function    *)
(* defined by recursion over a ranked set satisfies its defining equation, *)
(* and what holds of an element once it holds of all of lower rank holds   *)
(* of every element.                                                       *)
(*                                                                         *)
(* Def is a constant of this module and not a parameter of its theorems,   *)
(* so that a module that instantiates it, with the body of a definition    *)
(* for Def, can cite them by name.                                         *)
(***************************************************************************)
EXTENDS WellFoundedInduction, Integers, TLAPS

CONSTANTS
    S,              \* the domain of the recursive function
    Rank(_),        \* what decreases from a call to the calls it makes
    Def(_, _, _)    \* Def(p, f, y): the value at y, given f below y; p is a
                    \* parameter that stays the same

LessNat == {p \in Nat \X Nat : p[1] < p[2]}

\* A set of natural numbers has a least element.
LEMMA NatMin ==
    ASSUME NEW T \in SUBSET Nat, T # {}
    PROVE  \E m \in T : \A n \in T : m <= n
<1>1. IsWellFoundedOn(LessNat, Nat)
    <2>1. OpToRel(<, Nat) = LessNat
        BY DEF OpToRel, LessNat
    <2> QED BY <2>1, NatLessThanWellFounded
<1>2. PICK m \in T : \A n \in T : <<n, m>> \notin LessNat
    BY <1>1, WFMin
<1>3. ASSUME NEW n \in T PROVE m <= n
    <2>1. m \in Nat /\ n \in Nat
        OBVIOUS
    <2>2. <<n, m>> \in Nat \X Nat
        BY <2>1
    <2>3. ~(n < m)
        BY <1>2, <2>2 DEF LessNat
    <2> QED BY <2>1, <2>3
<1> QED BY <1>3

\* Induction over a ranked set.
THEOREM Induction ==
    ASSUME NEW D, NEW rank, NEW T,
           \A y \in D : rank[y] \in Nat,
           \A y \in D : (\A z \in D : rank[z] < rank[y] => z \in T) => y \in T
    PROVE  D \subseteq T
<1> SUFFICES ASSUME \E y \in D : y \notin T PROVE FALSE
    OBVIOUS
<1> DEFINE R == {rank[y] : y \in {z \in D : z \notin T}}
<1>1. R \in SUBSET Nat /\ R # {}
    OBVIOUS
<1> HIDE DEF R
<1>2. PICK m \in R : \A n \in R : m <= n
    BY <1>1, NatMin
<1>3. PICK y \in D : y \notin T /\ m = rank[y]
    BY <1>2 DEF R
<1>4. \A z \in D : z \notin T => m <= rank[z]
    BY <1>2 DEF R
<1>5. \A z \in D : rank[z] < rank[y] => z \in T
    BY <1>3, <1>4
<1> QED BY <1>3, <1>5

\* Induction over the natural numbers.
THEOREM NatInduct ==
    ASSUME NEW T, 0 \in T, \A n \in Nat : n \in T => n + 1 \in T
    PROVE  Nat \subseteq T
<1> SUFFICES ASSUME \E n \in Nat : n \notin T PROVE FALSE
    OBVIOUS
<1>1. PICK m \in Nat \ T : \A n \in Nat \ T : m <= n
    BY NatMin
<1>2. m - 1 \in Nat /\ m - 1 \in T
    BY <1>1
<1> QED BY <1>1, <1>2

-----------------------------------------------------------------------------
Below(n) == {y \in S : Rank(y) <= n}
Approx(p, n, f) == f = [y \in Below(n) |-> Def(p, f, y)]
Local(p) == \A y \in S : \A f, h :
                (\A z \in S : Rank(z) < Rank(y) => f[z] = h[z])
                    => Def(p, f, y) = Def(p, h, y)
Ranked == \A y \in S : Rank(y) \in Nat

\* The recursion can be followed up to any rank.
LEMMA ApproxExists ==
    ASSUME NEW p, Ranked, Local(p)
    PROVE  \A n \in Nat : \E f : Approx(p, n, f)
<1> DEFINE T == {n \in Nat : \E f : Approx(p, n, f)}
<1>1. 0 \in T
    <2> DEFINE f == [y \in Below(0) |-> Def(p, <<>>, y)]
    <2>1. ASSUME NEW y \in Below(0) PROVE Def(p, f, y) = Def(p, <<>>, y)
        <3>1. y \in S /\ \A z \in S : ~(Rank(z) < Rank(y))
            BY DEF Below, Ranked
        <3> HIDE DEF f
        <3> QED BY <3>1 DEF Local
    <2>2. f = [y \in Below(0) |-> Def(p, f, y)]
        BY <2>1
    <2> QED BY <2>2 DEF Approx
<1>2. ASSUME NEW n \in Nat, n \in T PROVE n + 1 \in T
    <2>1. PICK h : Approx(p, n, h)
        BY <1>2
    <2> DEFINE f == [y \in Below(n + 1) |-> Def(p, h, y)]
    <2>2. ASSUME NEW z \in Below(n) PROVE f[z] = h[z]
        <3>1. z \in Below(n + 1)
            BY DEF Below, Ranked
        <3> QED BY <2>1, <3>1 DEF Approx
    <2>3. ASSUME NEW y \in Below(n + 1) PROVE Def(p, f, y) = Def(p, h, y)
        <3>1. y \in S /\ \A z \in S : Rank(z) < Rank(y) => z \in Below(n)
            BY DEF Below, Ranked
        <3> HIDE DEF f
        <3> QED BY <2>2, <3>1 DEF Local
    <2>4. f = [y \in Below(n + 1) |-> Def(p, f, y)]
        BY <2>3
    <2> HIDE DEF f
    <2>5. Approx(p, n + 1, f)
        BY <2>4 DEF Approx
    <2> QED BY <2>5
<1> HIDE DEF T
<1>3. Nat \subseteq T
    BY <1>1, <1>2, NatInduct
<1> QED BY <1>3 DEF T

\* Two approximations agree where both are defined.
LEMMA ApproxAgree ==
    ASSUME NEW p, Ranked, Local(p), NEW m \in Nat, NEW n \in Nat, NEW f, NEW h,
           Approx(p, m, f), Approx(p, n, h)
    PROVE  \A y \in S : Rank(y) <= m /\ Rank(y) <= n => f[y] = h[y]
<1> DEFINE rank == [y \in S |-> Rank(y)]
           T == {y \in S : Rank(y) <= m /\ Rank(y) <= n => f[y] = h[y]}
<1>1. \A y \in S : rank[y] \in Nat
    BY DEF Ranked
<1>2. ASSUME NEW y \in S, \A z \in S : rank[z] < rank[y] => z \in T
      PROVE  y \in T
    <2> SUFFICES ASSUME Rank(y) <= m, Rank(y) <= n PROVE f[y] = h[y]
        OBVIOUS
    <2>1. \A z \in S : Rank(z) < Rank(y) => f[z] = h[z]
        BY <1>2 DEF Ranked
    <2>2. Def(p, f, y) = Def(p, h, y)
        BY <2>1 DEF Local
    <2> QED BY <2>2 DEF Approx, Below
<1> HIDE DEF T, rank
<1>3. S \subseteq T
    BY <1>1, <1>2, Induction
<1> QED BY <1>3 DEF T

\* A definition by recursion has a solution.
THEOREM Recursive ==
    ASSUME NEW p, Ranked, Local(p)
    PROVE  \E r : r = [y \in S |-> Def(p, r, y)]
<1> DEFINE a(n) == CHOOSE f : Approx(p, n, f)
           r == [y \in S |-> a(Rank(y))[y]]
<1>1. \A n \in Nat : Approx(p, n, a(n))
    BY ApproxExists
<1>2. ASSUME NEW y \in S PROVE a(Rank(y))[y] = Def(p, r, y)
    <2>1. Rank(y) \in Nat /\ Approx(p, Rank(y), a(Rank(y)))
        BY <1>1 DEF Ranked
    <2>2. a(Rank(y))[y] = Def(p, a(Rank(y)), y)
        <3>1. y \in Below(Rank(y))
            BY <2>1 DEF Below
        <3> HIDE DEF a
        <3> QED BY <2>1, <3>1 DEF Approx
    <2>3. ASSUME NEW z \in S, Rank(z) < Rank(y) PROVE r[z] = a(Rank(y))[z]
        <3>1. Rank(z) \in Nat /\ Approx(p, Rank(z), a(Rank(z)))
            BY <1>1 DEF Ranked
        <3> HIDE DEF a
        <3>2. a(Rank(z))[z] = a(Rank(y))[z]
            BY <2>1, <2>3, <3>1, ApproxAgree
        <3> QED BY <3>2
    <2> HIDE DEF r, a
    <2>4. Def(p, r, y) = Def(p, a(Rank(y)), y)
        BY <2>3 DEF Local
    <2> QED BY <2>2, <2>4
<1>3. r = [y \in S |-> Def(p, r, y)]
    BY <1>2
<1> QED BY <1>3
=============================================================================
