---------------------------- MODULE Codec_proofs ----------------------------
(***************************************************************************)
(* Theorems about Codec, for every set of objects whose lists are finitely *)
(* deep, every size of the nested buffer and every width of an integer.    *)
(*                                                                         *)
(* The operators ...Def are the bodies of the recursive definitions, with  *)
(* r for the function that is defined; the lemmas ...Eq say that those     *)
(* definitions satisfy their equations (module Recursion).                 *)
(***************************************************************************)
EXTENDS Codec, TLAPS

-----------------------------------------------------------------------------
(* Loops: recursion over the natural numbers.                              *)

SumDef(s, r, i) == IF i = 0 THEN 0 ELSE r[i - 1] + s[i]
SumIs == INSTANCE Recursion WITH S <- Nat, Rank <- LAMBDA i : i, Def <- SumDef

\* The sum of the first i elements.
LEMMA SumEq ==
    ASSUME NEW s
    PROVE  /\ Sum(s)[0] = 0
           /\ \A i \in Nat : Sum(s)[i + 1] = Sum(s)[i] + s[i + 1]
<1>1. SumIs!Ranked /\ SumIs!Local(s)
    BY DEF SumIs!Ranked, SumIs!Local, SumDef
<1>2. \E r : r = [i \in Nat |-> SumDef(s, r, i)]
    BY <1>1, SumIs!Recursive
<1>3. Sum(s) = CHOOSE r : r = [i \in Nat |-> SumDef(s, r, i)]
    BY DEF Sum, SumDef
<1>4. Sum(s) = [i \in Nat |-> SumDef(s, Sum(s), i)]
    BY <1>2, <1>3
<1>5. \A i \in Nat : i + 1 \in Nat /\ i + 1 # 0 /\ (i + 1) - 1 = i
    OBVIOUS
<1> QED BY <1>4, <1>5 DEF SumDef

RemainsDef(forms, r, i) ==
    IF i = 0 THEN {<<>>}
    ELSE r[i - 1] \cup Longer(r[i - 1], forms[i])
RemainsIs == INSTANCE Recursion WITH S <- Nat, Rank <- LAMBDA i : i, Def <- RemainsDef

\* Of the first i forms, the last is left out or at the end.
LEMMA RemainsEq ==
    ASSUME NEW forms
    PROVE  /\ Remains(forms)[0] = {<<>>}
           /\ \A i \in Nat :
                 Remains(forms)[i + 1] = Remains(forms)[i]
                                         \cup Longer(Remains(forms)[i], forms[i + 1])
<1>1. RemainsIs!Ranked /\ RemainsIs!Local(forms)
    <2>1. ASSUME NEW i \in Nat, NEW f, NEW h, \A z \in Nat : z < i => f[z] = h[z]
          PROVE  RemainsDef(forms, f, i) = RemainsDef(forms, h, i)
        <3>1. i # 0 => f[i - 1] = h[i - 1]
            BY <2>1
        <3> QED BY <3>1 DEF RemainsDef
    <2> QED BY <2>1 DEF RemainsIs!Ranked, RemainsIs!Local
<1>2. \E r : r = [i \in Nat |-> RemainsDef(forms, r, i)]
    BY <1>1, RemainsIs!Recursive
<1>3. Remains(forms) = CHOOSE r : r = [i \in Nat |-> RemainsDef(forms, r, i)]
    BY DEF Remains, RemainsDef
<1>4. Remains(forms) = [i \in Nat |-> RemainsDef(forms, Remains(forms), i)]
    BY <1>2, <1>3
<1>5. ASSUME NEW i \in Nat
      PROVE  Remains(forms)[i] = RemainsDef(forms, Remains(forms), i)
    BY <1>4, Zenon
<1>6. \A i \in Nat : i + 1 \in Nat /\ i + 1 # 0 /\ (i + 1) - 1 = i
    OBVIOUS
<1> QED BY <1>5, <1>6 DEF RemainsDef

VectorDef(p, r, i) ==
    IF i = 0 THEN [rc |-> OK, c |-> p.c] ELSE VectorRound(r[i - 1], p.y.t, p.y.vs[i])
VectorIs == INSTANCE Recursion WITH S <- Nat, Rank <- LAMBDA i : i, Def <- VectorDef

\* The loop over a vector, round by round.
LEMMA VectorEq ==
    ASSUME NEW c, NEW y
    PROVE  /\ VectorLoop(c, y)[0] = [rc |-> OK, c |-> c]
           /\ \A i \in Nat :
                 VectorLoop(c, y)[i + 1] = VectorRound(VectorLoop(c, y)[i], y.t, y.vs[i + 1])
<1> DEFINE p == [c |-> c, y |-> y]
<1>1. VectorIs!Ranked /\ VectorIs!Local(p)
    BY DEF VectorIs!Ranked, VectorIs!Local, VectorDef
<1>2. \E r : r = [i \in Nat |-> VectorDef(p, r, i)]
    BY <1>1, VectorIs!Recursive
<1>3. VectorLoop(c, y) = CHOOSE r : r = [i \in Nat |-> VectorDef(p, r, i)]
    BY DEF VectorLoop, VectorDef
<1>4. VectorLoop(c, y) = [i \in Nat |-> VectorDef(p, VectorLoop(c, y), i)]
    BY <1>2, <1>3
<1>5. \A i \in Nat : i + 1 \in Nat /\ i + 1 # 0 /\ (i + 1) - 1 = i
    OBVIOUS
<1> QED BY <1>4, <1>5 DEF VectorDef

DictionaryDef(p, r, i) ==
    IF i = 0 THEN [rc |-> p.g, c |-> p.c]
    ELSE IF p.d.vals.t = 0 THEN Atom(r[i - 1].c, p.d.keys.vs[i], p.d.vals.xs[i])
    ELSE Element(r[i - 1].c, p.d.keys.vs[i], p.d.vals.t, p.d.vals.vs[i])
DictionaryIs == INSTANCE Recursion WITH S <- Nat, Rank <- LAMBDA i : i,
                                        Def <- DictionaryDef

\* The loop over a dictionary, key by key.
LEMMA DictionaryEq ==
    ASSUME NEW c, NEW d, NEW g
    PROVE  /\ DictionaryLoop(c, d, g)[0] = [rc |-> g, c |-> c]
           /\ \A i \in Nat :
                 DictionaryLoop(c, d, g)[i + 1] =
                     IF d.vals.t = 0
                     THEN Atom(DictionaryLoop(c, d, g)[i].c, d.keys.vs[i + 1],
                               d.vals.xs[i + 1])
                     ELSE Element(DictionaryLoop(c, d, g)[i].c, d.keys.vs[i + 1],
                                  d.vals.t, d.vals.vs[i + 1])
<1> DEFINE p == [c |-> c, d |-> d, g |-> g]
<1>1. DictionaryIs!Ranked /\ DictionaryIs!Local(p)
    BY DEF DictionaryIs!Ranked, DictionaryIs!Local, DictionaryDef
<1>2. \E r : r = [i \in Nat |-> DictionaryDef(p, r, i)]
    BY <1>1, DictionaryIs!Recursive
<1>3. DictionaryLoop(c, d, g) = CHOOSE r : r = [i \in Nat |-> DictionaryDef(p, r, i)]
    BY DEF DictionaryLoop, DictionaryDef
<1>4. DictionaryLoop(c, d, g) = [i \in Nat |-> DictionaryDef(p, DictionaryLoop(c, d, g), i)]
    BY <1>2, <1>3
<1>5. \A i \in Nat : i + 1 \in Nat /\ i + 1 # 0 /\ (i + 1) - 1 = i
    OBVIOUS
<1> QED BY <1>4, <1>5 DEF DictionaryDef

ListDef(p, r, i) ==
    IF i = 0 THEN [rc |-> FAIL, c |-> p.c, g |-> p.g]
    ELSE ListRound(p.lists, r[i - 1], p.y.xs[i])
ListIs == INSTANCE Recursion WITH S <- Nat, Rank <- LAMBDA i : i, Def <- ListDef

\* The loop over a list, round by round.
LEMMA ListEq ==
    ASSUME NEW lists, NEW c, NEW y, NEW g
    PROVE  /\ ListLoop(lists, c, y, g)[0] = [rc |-> FAIL, c |-> c, g |-> g]
           /\ \A i \in Nat :
                 ListLoop(lists, c, y, g)[i + 1] =
                     ListRound(lists, ListLoop(lists, c, y, g)[i], y.xs[i + 1])
<1> DEFINE p == [lists |-> lists, c |-> c, y |-> y, g |-> g]
<1>1. ListIs!Ranked /\ ListIs!Local(p)
    BY DEF ListIs!Ranked, ListIs!Local, ListDef
<1>2. \E r : r = [i \in Nat |-> ListDef(p, r, i)]
    BY <1>1, ListIs!Recursive
<1>3. ListLoop(lists, c, y, g) = CHOOSE r : r = [i \in Nat |-> ListDef(p, r, i)]
    BY DEF ListLoop, ListDef
<1>4. ListLoop(lists, c, y, g) = [i \in Nat |-> ListDef(p, ListLoop(lists, c, y, g), i)]
    BY <1>2, <1>3
<1>5. \A i \in Nat : i + 1 \in Nat /\ i + 1 # 0 /\ (i + 1) - 1 = i
    OBVIOUS
<1> QED BY <1>4, <1>5 DEF ListDef

-----------------------------------------------------------------------------
(* Fields and the functions on them.                                       *)

Leaf == [sdt : Kinds, v : Int]
Container(n) == [sdt : Nested, names : Seq(Int), fs : Seq(fields[n]),
                 used : Nat, room : Int]

FieldsDef(p, r, n) ==
    [sdt : Kinds, v : Int]
    \cup (IF n = 0 THEN {}
          ELSE [sdt : Nested, names : Seq(Int), fs : Seq(r[n - 1]),
                used : Nat, room : Int])
FieldsIs == INSTANCE Recursion WITH S <- Nat, Rank <- LAMBDA i : i, Def <- FieldsDef

\* The fields of one more level are the leaves and the containers of fields.
LEMMA FieldsEq ==
    /\ fields[0] = Leaf
    /\ \A n \in Nat : fields[n + 1] = Leaf \cup Container(n)
<1>1. FieldsIs!Ranked /\ FieldsIs!Local(0)
    BY DEF FieldsIs!Ranked, FieldsIs!Local, FieldsDef
<1>2. \E r : r = [n \in Nat |-> FieldsDef(0, r, n)]
    BY <1>1, FieldsIs!Recursive
<1>3. fields = CHOOSE r : r = [n \in Nat |-> FieldsDef(0, r, n)]
    BY DEF fields, FieldsDef
<1>4. fields = [n \in Nat |-> FieldsDef(0, fields, n)]
    BY <1>2, <1>3
<1>5. \A n \in Nat : fields[n] = FieldsDef(0, fields, n)
    BY <1>4, Zenon
<1>6. fields[0] = Leaf
    BY <1>5 DEF FieldsDef, Leaf
<1>7. ASSUME NEW n \in Nat PROVE fields[n + 1] = Leaf \cup Container(n)
    <2>1. n + 1 \in Nat /\ n + 1 # 0 /\ (n + 1) - 1 = n
        OBVIOUS
    <2> QED BY <1>5, <2>1 DEF FieldsDef, Leaf, Container
<1> QED BY <1>6, <1>7

\* A leaf is no container.
LEMMA LeafOrContainer ==
    ASSUME NEW n \in Nat, NEW f \in fields[n]
    PROVE  /\ f.sdt \notin Nested => f \in Leaf
           /\ f.sdt \in Nested => n - 1 \in Nat /\ f \in Container(n - 1)
<1>1. CASE n = 0
    BY <1>1, FieldsEq DEF Leaf, Kinds, Nested
<1>2. CASE n # 0
    <2>1. n - 1 \in Nat /\ (n - 1) + 1 = n
        BY <1>2
    <2>2. f \in Leaf \/ f \in Container(n - 1)
        BY <2>1, FieldsEq
    <2> QED BY <2>1, <2>2 DEF Leaf, Container, Kinds, Nested
<1> QED BY <1>1, <1>2

\* What is nested less deep is a field of every deeper level.
LEMMA FieldsGrow ==
    ASSUME NEW m \in Nat, NEW n \in Nat, m <= n
    PROVE  fields[m] \subseteq fields[n]
<1> DEFINE T == {k \in Nat : fields[k] \subseteq fields[k + 1]}
<1>1. 0 \in T
    BY FieldsEq
<1>2. ASSUME NEW k \in Nat, k \in T PROVE k + 1 \in T
    <2>1. Container(k) \subseteq Container(k + 1)
        <3>1. Seq(fields[k]) \subseteq Seq(fields[k + 1])
            BY <1>2
        <3> QED BY <3>1 DEF Container
    <2>2. fields[k + 1] = Leaf \cup Container(k)
          /\ fields[(k + 1) + 1] = Leaf \cup Container(k + 1)
        BY FieldsEq
    <2> QED BY <2>1, <2>2
<1> HIDE DEF T
<1>3. Nat \subseteq T
    BY <1>1, <1>2, SumIs!NatInduct
<1>4. \A k \in Nat : fields[k] \subseteq fields[k + 1]
    BY <1>3 DEF T
<1> DEFINE U == {d \in Nat : fields[m] \subseteq fields[m + d]}
<1>5. 0 \in U
    OBVIOUS
<1>6. ASSUME NEW d \in Nat, d \in U PROVE d + 1 \in U
    <2>1. m + d \in Nat /\ m + (d + 1) = (m + d) + 1
        OBVIOUS
    <2> QED BY <1>4, <1>6, <2>1
<1> HIDE DEF U
<1>7. Nat \subseteq U
    BY <1>5, <1>6, SumIs!NatInduct
<1>8. n - m \in U /\ m + (n - m) = n
    BY <1>7
<1> QED BY <1>8 DEF U

\* How deep a field is nested.
FieldRank(f) ==
    CHOOSE n \in Nat : f \in fields[n] /\ \A m \in Nat : f \in fields[m] => n <= m

\* What is in a container is a field of lower rank.
LEMMA FieldRanks ==
    \A f \in Fields :
        /\ FieldRank(f) \in Nat
        /\ f.sdt \in Nested =>
              /\ f.fs \in Seq(Fields)
              /\ \A i \in DOMAIN f.fs :
                    f.fs[i] \in Fields /\ FieldRank(f.fs[i]) < FieldRank(f)
<1>1. ASSUME NEW f, NEW k \in Nat, f \in fields[k]
      PROVE  /\ FieldRank(f) \in Nat
             /\ f \in fields[FieldRank(f)]
             /\ \A m \in Nat : f \in fields[m] => FieldRank(f) <= m
    <2> DEFINE T == {m \in Nat : f \in fields[m]}
    <2>1. T \in SUBSET Nat /\ T # {}
        BY <1>1
    <2> HIDE DEF T
    <2>2. \E n \in T : \A m \in T : n <= m
        BY <2>1, SumIs!NatMin
    <2>3. \E n \in Nat : f \in fields[n] /\ \A m \in Nat : f \in fields[m] => n <= m
        BY <2>2 DEF T
    <2> QED BY <2>3 DEF FieldRank
<1>2. ASSUME NEW f \in Fields
      PROVE  /\ FieldRank(f) \in Nat
             /\ f.sdt \in Nested =>
                  /\ f.fs \in Seq(Fields)
                  /\ \A i \in DOMAIN f.fs :
                        f.fs[i] \in Fields /\ FieldRank(f.fs[i]) < FieldRank(f)
    <2>1. MaxDepth + 2 \in Nat /\ f \in fields[MaxDepth + 2]
        BY SizeAssumption DEF Fields
    <2>2. /\ FieldRank(f) \in Nat /\ f \in fields[FieldRank(f)]
          /\ FieldRank(f) <= MaxDepth + 2
        BY <1>1, <2>1
    <2>3. ASSUME f.sdt \in Nested
          PROVE  /\ f.fs \in Seq(Fields)
                 /\ \A i \in DOMAIN f.fs :
                       f.fs[i] \in Fields /\ FieldRank(f.fs[i]) < FieldRank(f)
        <3>1. FieldRank(f) - 1 \in Nat /\ f \in Container(FieldRank(f) - 1)
            BY <2>2, <2>3, LeafOrContainer
        <3>2. f.fs \in Seq(fields[FieldRank(f) - 1])
            BY <3>1 DEF Container
        <3>3. fields[FieldRank(f) - 1] \subseteq Fields
            BY <2>1, <2>2, <3>1, FieldsGrow DEF Fields
        <3>4. \A i \in DOMAIN f.fs : f.fs[i] \in fields[FieldRank(f) - 1]
            BY <3>2
        <3>5. \A i \in DOMAIN f.fs : FieldRank(f.fs[i]) \in Nat
                                     /\ FieldRank(f.fs[i]) <= FieldRank(f) - 1
            BY <1>1, <3>1, <3>4
        <3> QED BY <2>2, <3>2, <3>3, <3>4, <3>5
    <2> QED BY <2>2, <2>3
<1> QED BY <1>2

DecodeDef(p, r, f) ==
    CASE f.sdt = "stream" -> [t |-> 0, xs |-> Each(r, f.fs)]
      [] f.sdt = "map" ->
            [t |-> 99, keys |-> [t |-> 11, vs |-> f.names],
             vals |-> [t |-> 0, xs |-> Each(r, f.fs)]]
      [] f.sdt \in {"string", "unknown"} -> [t |-> 10, s |-> f.v]
      [] f.sdt \in DOMAIN DecodedTypes ->
            [t |-> DecodedTypes[f.sdt], v |-> DecodedValue(f.sdt, f.v)]
      [] OTHER -> NullPtr
DecodeIs == INSTANCE Recursion WITH S <- Fields, Rank <- FieldRank, Def <- DecodeDef

\* Decoding a field decodes what is in it.
LEMMA DecodeEq == \A f \in Fields : decode[f] = DecodeDef(0, decode, f)
<1>1. DecodeIs!Ranked /\ DecodeIs!Local(0)
    <2>1. ASSUME NEW f \in Fields, NEW r, NEW q,
                 \A z \in Fields : FieldRank(z) < FieldRank(f) => r[z] = q[z]
          PROVE  DecodeDef(0, r, f) = DecodeDef(0, q, f)
        <3>1. CASE f.sdt \in Nested
            <4>1. Each(r, f.fs) = Each(q, f.fs)
                BY <2>1, <3>1, FieldRanks DEF Each
            <4> QED BY <3>1, <4>1 DEF DecodeDef, Nested
        <3>2. CASE f.sdt \notin Nested
            BY <3>2 DEF DecodeDef, Nested
        <3> QED BY <3>1, <3>2
    <2> QED BY <2>1, FieldRanks DEF DecodeIs!Ranked, DecodeIs!Local
<1>2. \E r : r = [f \in Fields |-> DecodeDef(0, r, f)]
    BY <1>1, DecodeIs!Recursive
<1>3. decode = CHOOSE r : r = [f \in Fields |-> DecodeDef(0, r, f)]
    BY DEF decode, DecodeDef
<1> QED BY <1>2, <1>3

HollowDef(p, r, f) ==
    IF f.sdt \in Nested THEN \E i \in DOMAIN f.fs : r[f.fs[i]] ELSE decode[f] = NullPtr
HollowIs == INSTANCE Recursion WITH S <- Fields, Rank <- FieldRank, Def <- HollowDef

\* A null pointer in what is decoded from a container is one of a field in it.
LEMMA HollowEq == \A f \in Fields : hollow[f] = HollowDef(0, hollow, f)
<1>1. HollowIs!Ranked /\ HollowIs!Local(0)
    <2>1. ASSUME NEW f \in Fields, NEW r, NEW q,
                 \A z \in Fields : FieldRank(z) < FieldRank(f) => r[z] = q[z]
          PROVE  HollowDef(0, r, f) = HollowDef(0, q, f)
        <3>1. CASE f.sdt \in Nested
            <4>1. \A i \in DOMAIN f.fs : r[f.fs[i]] = q[f.fs[i]]
                BY <2>1, <3>1, FieldRanks
            <4> QED BY <3>1, <4>1, Zenon DEF HollowDef
        <3>2. CASE f.sdt \notin Nested
            BY <3>2, Zenon DEF HollowDef
        <3> QED BY <3>1, <3>2
    <2> QED BY <2>1, FieldRanks DEF HollowIs!Ranked, HollowIs!Local
<1>2. \E r : r = [f \in Fields |-> HollowDef(0, r, f)]
    BY <1>1, HollowIs!Recursive
<1>3. hollow = CHOOSE r : r = [f \in Fields |-> HollowDef(0, r, f)]
    BY DEF hollow, HollowDef
<1> QED BY <1>2, <1>3

ExactDef(p, r, f) ==
    IF f.sdt \in Nested THEN \A i \in DOMAIN f.fs : r[f.fs[i]]
    ELSE f.sdt \in DOMAIN ExactTypes
ExactIs == INSTANCE Recursion WITH S <- Fields, Rank <- FieldRank, Def <- ExactDef

\* A container of readable numbers holds only readable numbers.
LEMMA ExactEq == \A f \in Fields : exact[f] = ExactDef(0, exact, f)
<1>1. ExactIs!Ranked /\ ExactIs!Local(0)
    <2>1. ASSUME NEW f \in Fields, NEW r, NEW q,
                 \A z \in Fields : FieldRank(z) < FieldRank(f) => r[z] = q[z]
          PROVE  ExactDef(0, r, f) = ExactDef(0, q, f)
        <3>1. CASE f.sdt \in Nested
            <4>1. \A i \in DOMAIN f.fs : r[f.fs[i]] = q[f.fs[i]]
                BY <2>1, <3>1, FieldRanks
            <4> QED BY <3>1, <4>1, Zenon DEF ExactDef
        <3>2. CASE f.sdt \notin Nested
            BY <3>2, Zenon DEF ExactDef
        <3> QED BY <3>1, <3>2
    <2> QED BY <2>1, FieldRanks DEF ExactIs!Ranked, ExactIs!Local
<1>2. \E r : r = [f \in Fields |-> ExactDef(0, r, f)]
    BY <1>1, ExactIs!Recursive
<1>3. exact = CHOOSE r : r = [f \in Fields |-> ExactDef(0, r, f)]
    BY DEF exact, ExactDef
<1> QED BY <1>2, <1>3

PlainDef(p, r, f) ==
    IF f.sdt = "stream" THEN ListOf(Each(r, f.fs))
    ELSE IF f.sdt = "map" THEN DictionaryOf(f.names, Each(r, f.fs))
    ELSE [t |-> ExactTypes[f.sdt], v |-> f.v]
PlainIs == INSTANCE Recursion WITH S <- Fields, Rank <- FieldRank, Def <- PlainDef

\* The values of a container are those of what is in it.
LEMMA PlainEq == \A f \in Fields : plain[f] = PlainDef(0, plain, f)
<1>1. PlainIs!Ranked /\ PlainIs!Local(0)
    <2>1. ASSUME NEW f \in Fields, NEW r, NEW q,
                 \A z \in Fields : FieldRank(z) < FieldRank(f) => r[z] = q[z]
          PROVE  PlainDef(0, r, f) = PlainDef(0, q, f)
        <3>1. CASE f.sdt \in Nested
            <4>1. Each(r, f.fs) = Each(q, f.fs)
                BY <2>1, <3>1, FieldRanks DEF Each
            <4> QED BY <3>1, <4>1 DEF PlainDef, Nested
        <3>2. CASE f.sdt \notin Nested
            BY <3>2 DEF PlainDef, Nested
        <3> QED BY <3>1, <3>2
    <2> QED BY <2>1, FieldRanks DEF PlainIs!Ranked, PlainIs!Local
<1>2. \E r : r = [f \in Fields |-> PlainDef(0, r, f)]
    BY <1>1, PlainIs!Recursive
<1>3. plain = CHOOSE r : r = [f \in Fields |-> PlainDef(0, r, f)]
    BY DEF plain, PlainDef
<1> QED BY <1>2, <1>3

-----------------------------------------------------------------------------
(* Functions on q objects.                                                 *)

\* The elements of a list are objects less deep than the list.
LEMMA OwnParts ==
    ASSUME NEW y \in Own
    PROVE  /\ y \in Atoms \/ y \in Vectors \/ y \in Lists \/ y \in Dictionaries
           /\ Depth(y) \in Nat /\ Depth(y) <= MaxDepth
           /\ y.t = 0 => /\ y \in Lists
                         /\ \A i \in DOMAIN y.xs :
                               /\ y.xs[i] \in Own
                               /\ Depth(y.xs[i]) \in Nat
                               /\ Depth(y.xs[i]) < Depth(y)
<1>1. /\ y \in Atoms \/ y \in Vectors \/ y \in Lists \/ y \in Dictionaries
      /\ Depth(y) \in 0 .. MaxDepth
      /\ y.t = 0 => \A i \in DOMAIN y.xs : Depth(y.xs[i]) < Depth(y)
    BY OwnIsFinite DEF OwnAssumption
<1>2. y.t = 0 => y \in Lists
    <2>1. y \in Atoms => y.t # 0
        BY DEF Atoms
    <2>2. y \in Vectors => y.t # 0
        BY DEF Vectors
    <2>3. y \in Dictionaries => y.t # 0
        <3>1. y \in Dictionaries => y.t = 99
            BY DEF Dictionaries
        <3> QED BY <3>1
    <2> QED BY <1>1, <2>1, <2>2, <2>3, Zenon
<1>3. ASSUME y.t = 0, NEW i \in DOMAIN y.xs
      PROVE  y.xs[i] \in Own /\ Depth(y.xs[i]) \in Nat
    <2>1. y.xs[i] \in Own
        BY <1>2, <1>3 DEF Lists
    <2> QED BY <2>1, OwnIsFinite, SizeAssumption DEF OwnAssumption
<1> QED BY <1>1, <1>2, <1>3, SizeAssumption

LEMMA Apart ==
    \A y : /\ y \in Atoms => y.t < 0 /\ y.t # 0 /\ y.t # 99
           /\ y \in Lists => ~(y.t < 0) /\ y.t = 0 /\ y.t # 99
           /\ y \in Dictionaries => ~(y.t < 0) /\ y.t # 0 /\ y.t = 99
           /\ y \in Vectors => ~(y.t < 0) /\ y.t # 0 /\ y.t # 99
<1> TAKE y
<1>1. y \in Atoms => y.t < 0 /\ y.t # 0 /\ y.t # 99
    BY DEF Atoms
<1>2. y \in Lists => ~(y.t < 0) /\ y.t = 0 /\ y.t # 99
    BY DEF Lists
<1>3. y \in Dictionaries => ~(y.t < 0) /\ y.t # 0 /\ y.t = 99
    BY DEF Dictionaries
<1>4. y \in Vectors => ~(y.t < 0) /\ y.t # 0 /\ y.t # 99
    <2>1. y \in [t : 1 .. 19, vs : Seq(Int)] => y.t \in 1 .. 19
        OBVIOUS
    <2>2. y \in [t : {98, 101}, vs : {<<>>}] => y.t \in {98, 101}
        OBVIOUS
    <2>3. y \in Vectors => y.t \in 1 .. 19 \/ y.t \in {98, 101}
        BY <2>1, <2>2, Zenon DEF Vectors
    <2> QED BY <2>3
<1> QED BY <1>1, <1>2, <1>3, <1>4

\* An object is an atom, a list, a dictionary or a vector.
LEMMA Shapes ==
    ASSUME NEW y \in Own
    PROVE  \/ y \in Atoms /\ y.t < 0 /\ y.t # 0 /\ y.t # 99
           \/ y \in Lists /\ ~(y.t < 0) /\ y.t = 0 /\ y.t # 99
           \/ y \in Dictionaries /\ ~(y.t < 0) /\ y.t # 0 /\ y.t = 99
           \/ y \in Vectors /\ ~(y.t < 0) /\ y.t # 0 /\ y.t # 99
BY Apart, OwnParts

WholeDef(p, r, y) ==
    IF y.t < 0 THEN AtomArrives(y)
    ELSE IF y.t = 0 THEN ListOf(Each(r, y.xs))
    ELSE IF y.t = 99
    THEN DictionaryOf(y.keys.vs, [i \in DOMAIN y.keys.vs |-> AtomArrives(Value(y, i))])
    ELSE ListOf([i \in DOMAIN y.vs |-> Arrives(y.t, y.vs[i])])
WholeIs == INSTANCE Recursion WITH S <- Own, Rank <- Depth, Def <- WholeDef

\* A list arrives element by element.
LEMMA WholeEq == \A y \in Own : whole[y] = WholeDef(0, whole, y)
<1>1. WholeIs!Ranked /\ WholeIs!Local(0)
    <2>1. ASSUME NEW y \in Own, NEW r, NEW q,
                 \A z \in Own : Depth(z) < Depth(y) => r[z] = q[z]
          PROVE  WholeDef(0, r, y) = WholeDef(0, q, y)
        <3>1. CASE y.t = 0
            <4>1. Each(r, y.xs) = Each(q, y.xs)
                BY <2>1, <3>1, OwnParts DEF Each
            <4> QED BY <3>1, <4>1 DEF WholeDef
        <3>2. CASE y.t # 0
            BY <3>2 DEF WholeDef
        <3> QED BY <3>1, <3>2
    <2> QED BY <2>1, OwnParts DEF WholeIs!Ranked, WholeIs!Local
<1>2. \E r : r = [y \in Own |-> WholeDef(0, r, y)]
    BY <1>1, WholeIs!Recursive
<1>3. whole = CHOOSE r : r = [y \in Own |-> WholeDef(0, r, y)]
    BY DEF whole, WholeDef
<1> QED BY <1>2, <1>3

BytesDef(p, r, y) ==
    IF y.t < 0 THEN Width(-y.t)
    ELSE IF y.t = 0 THEN 5 + Sum(Each(r, y.xs))[Len(y.xs)]
    ELSE IF y.t = 99
    THEN 5 + Sum([i \in DOMAIN y.keys.vs |-> NameCost + Width(-Value(y, i).t)])
                [Len(y.keys.vs)]
    ELSE 5 + Sum([i \in DOMAIN y.vs |-> Width(y.t)])[Len(y.vs)]
BytesIs == INSTANCE Recursion WITH S <- Own, Rank <- Depth, Def <- BytesDef

\* A list takes the room of its elements.
LEMMA BytesEq == \A y \in Own : bytes[y] = BytesDef(0, bytes, y)
<1>1. BytesIs!Ranked /\ BytesIs!Local(0)
    <2>1. ASSUME NEW y \in Own, NEW r, NEW q,
                 \A z \in Own : Depth(z) < Depth(y) => r[z] = q[z]
          PROVE  BytesDef(0, r, y) = BytesDef(0, q, y)
        <3>1. CASE y.t = 0
            <4>1. Each(r, y.xs) = Each(q, y.xs)
                BY <2>1, <3>1, OwnParts DEF Each
            <4> QED BY <3>1, <4>1 DEF BytesDef
        <3>2. CASE y.t # 0
            BY <3>2 DEF BytesDef
        <3> QED BY <3>1, <3>2
    <2> QED BY <2>1, OwnParts DEF BytesIs!Ranked, BytesIs!Local
<1>2. \E r : r = [y \in Own |-> BytesDef(0, r, y)]
    BY <1>1, BytesIs!Recursive
<1>3. bytes = CHOOSE r : r = [y \in Own |-> BytesDef(0, r, y)]
    BY DEF bytes, BytesDef
<1> QED BY <1>2, <1>3

CarriedDef(p, r, y) ==
    IF y.t < 0 THEN AtomArrives(y) # Uncarried
    ELSE /\ bytes[y] <= MapSize
         /\ IF y.t = 0 THEN \A i \in DOMAIN y.xs : r[y.xs[i]]
            ELSE IF y.t = 99
            THEN y.keys.t = 11
                 /\ \A i \in DOMAIN y.keys.vs : AtomArrives(Value(y, i)) # Uncarried
            ELSE y.t # 98 /\ \A i \in DOMAIN y.vs : Arrives(y.t, y.vs[i]) # Uncarried
CarriedIs == INSTANCE Recursion WITH S <- Own, Rank <- Depth, Def <- CarriedDef

\* A list can be carried inside another if it fits and its elements can.
LEMMA CarriedEq == \A y \in Own : carried[y] = CarriedDef(0, carried, y)
<1>1. CarriedIs!Ranked /\ CarriedIs!Local(0)
    <2>1. ASSUME NEW y \in Own, NEW r, NEW q,
                 \A z \in Own : Depth(z) < Depth(y) => r[z] = q[z]
          PROVE  CarriedDef(0, r, y) = CarriedDef(0, q, y)
        <3>1. CASE y.t = 0
            <4>1. \A i \in DOMAIN y.xs : r[y.xs[i]] = q[y.xs[i]]
                BY <2>1, <3>1, OwnParts
            <4>2. (\A i \in DOMAIN y.xs : r[y.xs[i]]) <=> (\A i \in DOMAIN y.xs : q[y.xs[i]])
                BY <4>1, Zenon
            <4>3. ~(y.t < 0)
                BY <3>1
            <4> QED BY <3>1, <4>2, <4>3, Zenon DEF CarriedDef
        <3>2. CASE y.t # 0
            BY <3>2, Zenon DEF CarriedDef
        <3> QED BY <3>1, <3>2
    <2> QED BY <2>1, OwnParts DEF CarriedIs!Ranked, CarriedIs!Local
<1>2. \E r : r = [y \in Own |-> CarriedDef(0, r, y)]
    BY <1>1, CarriedIs!Recursive
<1>3. carried = CHOOSE r : r = [y \in Own |-> CarriedDef(0, r, y)]
    BY DEF carried, CarriedDef
<1> QED BY <1>2, <1>3

PartlyDef(p, r, y) ==
    IF y.t < 0 THEN {AtomArrives(y)} \ {Uncarried}
    ELSE IF y.t = 0
    THEN {ListOf(s) : s \in Remains(Each(r, y.xs))[Len(y.xs)]}
    ELSE IF y.t = 99
    THEN {DictionaryOf([i \in DOMAIN s |-> s[i].name], [i \in DOMAIN s |-> s[i].value]) :
            s \in Remains([i \in DOMAIN y.keys.vs |-> Pairs(y, i)])[Len(y.keys.vs)]}
    ELSE {ListOf([i \in 1 .. k |-> Arrives(y.t, y.vs[i])]) : k \in 0 .. Len(y.vs)}
PartlyIs == INSTANCE Recursion WITH S <- Own, Rank <- Depth, Def <- PartlyDef

\* Of a list, there may arrive what may arrive of its elements.
LEMMA PartlyEq == \A y \in Own : partly[y] = PartlyDef(0, partly, y)
<1>1. PartlyIs!Ranked /\ PartlyIs!Local(0)
    <2>1. ASSUME NEW y \in Own, NEW r, NEW q,
                 \A z \in Own : Depth(z) < Depth(y) => r[z] = q[z]
          PROVE  PartlyDef(0, r, y) = PartlyDef(0, q, y)
        <3>1. CASE y.t = 0
            <4>1. Each(r, y.xs) = Each(q, y.xs)
                BY <2>1, <3>1, OwnParts DEF Each
            <4> QED BY <3>1, <4>1 DEF PartlyDef
        <3>2. CASE y.t # 0
            BY <3>2, Zenon DEF PartlyDef
        <3> QED BY <3>1, <3>2
    <2> QED BY <2>1, OwnParts DEF PartlyIs!Ranked, PartlyIs!Local
<1>2. \E r : r = [y \in Own |-> PartlyDef(0, r, y)]
    BY <1>1, PartlyIs!Recursive
<1>3. partly = CHOOSE r : r = [y \in Own |-> PartlyDef(0, r, y)]
    BY DEF partly, PartlyDef
<1> QED BY <1>2, <1>3

-----------------------------------------------------------------------------
(* Sums.                                                                   *)

\* Sums of natural numbers are natural numbers and grow.
LEMMA SumGrows ==
    ASSUME NEW n \in Nat, NEW s, \A i \in 1 .. n : s[i] \in Nat
    PROVE  /\ \A i \in 0 .. n : Sum(s)[i] \in Nat
           /\ \A i \in 0 .. n : Sum(s)[i] <= Sum(s)[n]
<1> DEFINE T == {i \in Nat : i <= n => Sum(s)[i] \in Nat}
<1>1. 0 \in T
    BY SumEq
<1>2. ASSUME NEW i \in Nat, i \in T PROVE i + 1 \in T
    <2>1. Sum(s)[i + 1] = Sum(s)[i] + s[i + 1]
        BY SumEq
    <2> QED BY <1>2, <2>1
<1> HIDE DEF T
<1>3. Nat \subseteq T
    BY <1>1, <1>2, SumIs!NatInduct
<1>4. \A i \in 0 .. n : Sum(s)[i] \in Nat
    BY <1>3 DEF T
<1> DEFINE U == {d \in Nat : d <= n => Sum(s)[n - d] <= Sum(s)[n]}
<1>5. 0 \in U
    BY <1>4
<1>6. ASSUME NEW d \in Nat, d \in U PROVE d + 1 \in U
    <2> SUFFICES ASSUME d + 1 <= n PROVE Sum(s)[n - (d + 1)] <= Sum(s)[n]
        OBVIOUS
    <2>1. n - (d + 1) \in Nat /\ n - d = (n - (d + 1)) + 1 /\ n - d \in 1 .. n
        OBVIOUS
    <2>2. Sum(s)[n - d] = Sum(s)[n - (d + 1)] + s[n - d]
        BY <2>1, SumEq
    <2>3. s[n - d] \in Nat /\ Sum(s)[n - (d + 1)] \in Nat /\ Sum(s)[n] \in Nat
        BY <1>4, <2>1
    <2>4. Sum(s)[n - d] <= Sum(s)[n]
        BY <1>6
    <2> QED BY <2>2, <2>3, <2>4
<1> HIDE DEF U
<1>7. Nat \subseteq U
    BY <1>5, <1>6, SumIs!NatInduct
<1>8. ASSUME NEW i \in 0 .. n PROVE Sum(s)[i] <= Sum(s)[n]
    <2>1. n - i \in U /\ n - (n - i) = i /\ n - i <= n
        BY <1>7
    <2> QED BY <2>1 DEF U
<1> QED BY <1>4, <1>8

LEMMA WidthType == \A t : Width(t) \in Nat
BY DEF Width

\* What an object takes is what its parts take.
ValueBytes(y)   == [i \in DOMAIN y.keys.vs |-> NameCost + Width(-Value(y, i).t)]
ItemBytes(y)    == [i \in DOMAIN y.vs |-> Width(y.t)]

LEMMA BytesOf ==
    ASSUME NEW y \in Own
    PROVE  /\ y \in Atoms => bytes[y] = Width(-y.t)
           /\ y \in Lists => bytes[y] = 5 + Sum(Each(bytes, y.xs))[Len(y.xs)]
           /\ y \in Dictionaries => bytes[y] = 5 + Sum(ValueBytes(y))[Len(y.keys.vs)]
           /\ y \in Vectors => bytes[y] = 5 + Sum(ItemBytes(y))[Len(y.vs)]
<1>1. bytes[y] = IF y.t < 0 THEN Width(-y.t)
                 ELSE IF y.t = 0 THEN 5 + Sum(Each(bytes, y.xs))[Len(y.xs)]
                 ELSE IF y.t = 99 THEN 5 + Sum(ValueBytes(y))[Len(y.keys.vs)]
                 ELSE 5 + Sum(ItemBytes(y))[Len(y.vs)]
    BY BytesEq, Zenon DEF BytesDef, ValueBytes, ItemBytes
<1> QED BY <1>1, Apart

\* Objects take a number of bytes.
LEMMA BytesType == \A y \in Own : bytes[y] \in Nat
<1> DEFINE T == {y \in Own : bytes[y] \in Nat}
           rank == [y \in Own |-> Depth(y)]
<1>1. \A y \in Own : rank[y] \in Nat
    BY OwnParts
<1>2. ASSUME NEW y \in Own, \A z \in Own : rank[z] < rank[y] => z \in T
      PROVE  y \in T
    <2>1. CASE y \in Atoms
        BY <2>1, BytesOf, WidthType
    <2>2. CASE y \in Lists
        <3>1. Len(y.xs) \in Nat /\ DOMAIN y.xs = 1 .. Len(y.xs) /\ y.t = 0
            BY <2>2 DEF Lists
        <3>2. \A i \in 1 .. Len(y.xs) : Each(bytes, y.xs)[i] \in Nat
            BY <1>2, <3>1, OwnParts DEF Each
        <3>3. Sum(Each(bytes, y.xs))[Len(y.xs)] \in Nat
            BY <3>1, <3>2, SumGrows
        <3> QED BY <2>2, <3>3, BytesOf
    <2>3. CASE y \in Dictionaries
        <3>1. Len(y.keys.vs) \in Nat /\ DOMAIN y.keys.vs = 1 .. Len(y.keys.vs)
            BY <2>3 DEF Dictionaries
        <3>2. \A i \in 1 .. Len(y.keys.vs) : ValueBytes(y)[i] \in Nat
            BY <3>1, WidthType DEF ValueBytes, NameCost
        <3>3. Sum(ValueBytes(y))[Len(y.keys.vs)] \in Nat
            BY <3>1, <3>2, SumGrows
        <3> QED BY <2>3, <3>3, BytesOf
    <2>4. CASE y \in Vectors
        <3>1. Len(y.vs) \in Nat /\ DOMAIN y.vs = 1 .. Len(y.vs)
            BY <2>4 DEF Vectors
        <3>2. \A i \in 1 .. Len(y.vs) : ItemBytes(y)[i] \in Nat
            BY <3>1, WidthType DEF ItemBytes
        <3>3. Sum(ItemBytes(y))[Len(y.vs)] \in Nat
            BY <3>1, <3>2, SumGrows
        <3> QED BY <2>4, <3>3, BytesOf
    <2> QED BY <2>1, <2>2, <2>3, <2>4, Shapes
<1> HIDE DEF T, rank
<1>3. Own \subseteq T
    BY <1>1, <1>2, SumIs!Induction
<1> QED BY <1>3 DEF T

-----------------------------------------------------------------------------
(* The recursive call of the encoder.                                      *)

NestedDef(p, r, y) ==
    [g \in {OK, FAIL} |-> ListLoop(r, New("stream", MapSize), y, g)[Len(y.xs)]]
NestedIs == INSTANCE Recursion WITH S <- OwnLists, Rank <- Depth, Def <- NestedDef

\* The encoder is called for the lists in a list, which are less deep.
LEMMA NestedEq == \A y \in OwnLists : nested[y] = NestedDef(0, nested, y)
<1>1. NestedIs!Ranked
    BY OwnParts DEF NestedIs!Ranked, OwnLists
<1>2. ASSUME NEW y \in OwnLists, NEW r, NEW q, NEW g, NEW c,
             \A z \in OwnLists : Depth(z) < Depth(y) => r[z] = q[z]
      PROVE  ListLoop(r, c, y, g)[Len(y.xs)] = ListLoop(q, c, y, g)[Len(y.xs)]
    <2>1. y \in Own /\ y.t = 0 /\ y \in Lists
        BY OwnParts DEF OwnLists
    <2>2. Len(y.xs) \in Nat /\ DOMAIN y.xs = 1 .. Len(y.xs)
        BY <2>1 DEF Lists
    <2> DEFINE T == {i \in Nat : i <= Len(y.xs) =>
                        ListLoop(r, c, y, g)[i] = ListLoop(q, c, y, g)[i]}
    <2>3. ASSUME NEW f
          PROVE  /\ ListLoop(f, c, y, g)[0] = [rc |-> FAIL, c |-> c, g |-> g]
                 /\ \A i \in Nat :
                       ListLoop(f, c, y, g)[i + 1] =
                           ListRound(f, ListLoop(f, c, y, g)[i], y.xs[i + 1])
        BY ListEq
    <2>4. 0 \in T
        BY <2>3
    <2>5. ASSUME NEW i \in Nat, i \in T PROVE i + 1 \in T
        <3> SUFFICES ASSUME i + 1 <= Len(y.xs)
                     PROVE  ListLoop(r, c, y, g)[i + 1] = ListLoop(q, c, y, g)[i + 1]
            OBVIOUS
        <3>1. ASSUME NEW a, NEW e, e = y.xs[i + 1]
              PROVE  ListRound(r, a, e) = ListRound(q, a, e)
            <4>1. e \in Own /\ Depth(e) < Depth(y)
                BY <2>1, <2>2, <3>1, OwnParts
            <4>2. e.t = 0 => r[e] = q[e]
                BY <1>2, <4>1 DEF OwnLists
            <4>3. Inside(r, e, a.g) = Inside(q, e, a.g)
                BY <4>2 DEF Inside
            <4> QED BY <4>3 DEF ListRound
        <3>2. ListLoop(r, c, y, g)[i] = ListLoop(q, c, y, g)[i]
            BY <2>5
        <3>3. ListRound(r, ListLoop(r, c, y, g)[i], y.xs[i + 1])
              = ListRound(q, ListLoop(q, c, y, g)[i], y.xs[i + 1])
            BY <3>1, <3>2
        <3> QED BY <2>3, <3>3
    <2> HIDE DEF T
    <2>6. Nat \subseteq T
        BY <2>4, <2>5, SumIs!NatInduct
    <2> QED BY <2>2, <2>6 DEF T
<1>3. NestedIs!Local(0)
    BY <1>2 DEF NestedIs!Local, NestedDef
<1>4. \E r : r = [y \in OwnLists |-> NestedDef(0, r, y)]
    BY <1>1, <1>3, NestedIs!Recursive
<1>5. nested = CHOOSE r : r = [y \in OwnLists |-> NestedDef(0, r, y)]
    BY DEF nested, NestedDef
<1> QED BY <1>4, <1>5

-----------------------------------------------------------------------------
(* Containers being filled.                                                *)

\* Fields q can read, and containers of them; what they are decoded to.
Sound(n) == {f \in fields[n] : ~hollow[f]}
Box(n)   == {c \in Container(n) : Len(c.names) = Len(c.fs) /\ c.fs \in Seq(Sound(n))}
Decs(c)  == Each(decode, c.fs)

\* What is nested less deep fits every deeper level.
LEMMA SoundGrows ==
    ASSUME NEW m \in Nat, NEW n \in Nat, m <= n, n <= MaxDepth + 2
    PROVE  Sound(m) \subseteq Sound(n) /\ Sound(n) \subseteq Fields
<1>1. MaxDepth + 2 \in Nat
    BY SizeAssumption
<1>2. fields[m] \subseteq fields[n] /\ fields[n] \subseteq fields[MaxDepth + 2]
    BY <1>1, FieldsGrow
<1> QED BY <1>2 DEF Sound, Fields

\* A container of readable fields is readable, field by field.
LEMMA BoxReadable ==
    ASSUME NEW n \in Nat, n <= MaxDepth + 1, NEW c \in Box(n)
    PROVE  /\ c \in Sound(n + 1)
           /\ decode[c] = IF c.sdt = "stream" THEN ListOf(Decs(c))
                          ELSE DictionaryOf(c.names, Decs(c))
           /\ Cost(c) = c.used
<1>1. MaxDepth + 2 \in Nat /\ n + 1 \in Nat /\ n + 1 <= MaxDepth + 2
    BY SizeAssumption
<1>2. c \in Container(n) /\ c.sdt \in Nested /\ c.fs \in Seq(Sound(n))
    BY DEF Box, Container
<1>3. c \in fields[n + 1] /\ c \in Fields
    <2>1. c \in fields[n + 1]
        BY <1>2, FieldsEq
    <2> QED BY <1>1, <2>1, FieldsGrow DEF Fields
<1>4. ~hollow[c]
    <2>1. \A i \in DOMAIN c.fs : ~hollow[c.fs[i]]
        BY <1>2 DEF Sound
    <2>2. hollow[c] = HollowDef(0, hollow, c)
        BY <1>3, HollowEq, Zenon
    <2>3. HollowDef(0, hollow, c) <=> \E i \in DOMAIN c.fs : hollow[c.fs[i]]
        BY <1>2, Zenon DEF HollowDef
    <2> QED BY <2>1, <2>2, <2>3, Zenon
<1>5. decode[c] = IF c.sdt = "stream" THEN ListOf(Decs(c))
                  ELSE DictionaryOf(c.names, Decs(c))
    <2>1. decode[c] = DecodeDef(0, decode, c)
        BY <1>3, DecodeEq
    <2>2. CASE c.sdt = "stream"
        BY <2>1, <2>2 DEF DecodeDef, DecodedTypes, Decs, ListOf
    <2>3. CASE c.sdt = "map"
        BY <2>1, <2>3 DEF DecodeDef, DecodedTypes, Decs, DictionaryOf
    <2> QED BY <1>2, <2>2, <2>3 DEF Nested
<1> QED BY <1>2, <1>3, <1>4, <1>5 DEF Sound, Cost

\* The container is c with one more value, or is c still; it takes the value if
\* ok and if there is room.
NameRoom(name) == IF name = 0 THEN 0 ELSE NameCost
Added(n, c, name, value, width, ok, r) ==
    /\ r.c \in Box(n) /\ r.c.sdt = c.sdt /\ r.c.room = c.room
    /\ r.rc \in {OK, FAIL}
    /\ r.rc = FAIL => r.c = c
    /\ r.rc = OK => /\ ok
                    /\ r.c.names = Append(c.names, name)
                    /\ Decs(r.c) = Append(Decs(c), value)
                    /\ r.c.used = c.used + width + NameRoom(name)
    /\ ok /\ (c.room = Grows \/ c.used + width + NameRoom(name) <= c.room) => r.rc = OK

\* An empty container.
LEMMA NewBox ==
    ASSUME NEW n \in Nat, NEW kind \in Nested, NEW room \in Int
    PROVE  /\ New(kind, room) \in Box(n) /\ New(kind, room).sdt = kind
           /\ New(kind, room).room = room /\ New(kind, room).used = 5
           /\ New(kind, room).names = <<>>
           /\ New(kind, room).fs = <<>>
           /\ Decs(New(kind, room)) = <<>>
<1>1. <<>> \in Seq(Sound(n)) /\ <<>> \in Seq(fields[n]) /\ <<>> \in Seq(Int)
    OBVIOUS
<1>2. New(kind, room) \in Container(n)
    BY <1>1 DEF New, Container
<1>3. New(kind, room) \in Box(n)
    BY <1>1, <1>2 DEF New, Box
<1>4. Decs(New(kind, room)) = <<>>
    BY DEF New, Decs, Each
<1> QED BY <1>3, <1>4 DEF New

LEMMA CostType ==
    ASSUME NEW n \in Nat, NEW f \in fields[n]
    PROVE  Cost(f) \in Nat
<1>1. CASE f.sdt \in Nested
    BY <1>1, LeafOrContainer DEF Container, Cost
<1>2. CASE f.sdt \notin Nested
    BY <1>2 DEF Cost
<1> QED BY <1>1, <1>2

LEMMA AppendType ==
    ASSUME NEW T, NEW s \in Seq(T), NEW e \in T
    PROVE  Append(s, e) \in Seq(T)
OBVIOUS

\* What a function makes of a longer sequence.
LEMMA EachAppend ==
    ASSUME NEW T, NEW s \in Seq(T), NEW e \in T, NEW fn
    PROVE  Each(fn, Append(s, e)) = Append(Each(fn, s), fn[e])
<1> DEFINE made == [i \in 1 .. Len(s) |-> fn[s[i]]]
<1>1. Len(s) \in Nat /\ DOMAIN s = 1 .. Len(s) /\ Each(fn, s) = made
    BY DEF Each
<1>2. made \in Seq({fn[s[i]] : i \in 1 .. Len(s)}) /\ Len(made) = Len(s)
    BY <1>1
<1>3. DOMAIN Append(s, e) = 1 .. Len(s) + 1
    BY <1>1
<1>4. \A i \in 1 .. Len(s) + 1 :
         Append(s, e)[i] = (IF i = Len(s) + 1 THEN e ELSE s[i])
    BY <1>1
<1>5. Each(fn, Append(s, e)) = [i \in 1 .. Len(s) + 1 |-> fn[Append(s, e)[i]]]
    BY <1>3 DEF Each
<1> HIDE DEF made
<1>6. Append(made, fn[e]) = [i \in 1 .. Len(s) + 1 |->
                                IF i = Len(s) + 1 THEN fn[e] ELSE made[i]]
    BY <1>1, <1>2
<1>7. \A i \in 1 .. Len(s) : made[i] = fn[s[i]]
    BY DEF made
<1> QED BY <1>1, <1>4, <1>5, <1>6, <1>7

\* solClient_container_add adds a field or leaves the container as it is.
LEMMA PutAdds ==
    ASSUME NEW n \in Nat, NEW c \in Box(n), NEW name \in Int, NEW f \in Sound(n)
    PROVE  Added(n, c, name, decode[f], Cost(f), TRUE, Put(c, name, f))
<1> DEFINE used == c.used + Cost(f) + NameRoom(name)
           d == [c EXCEPT !.names = Append(@, name), !.fs = Append(@, f), !.used = used]
<1>1. /\ c \in Container(n) /\ Len(c.names) = Len(c.fs) /\ c.fs \in Seq(Sound(n))
      /\ c.names \in Seq(Int) /\ c.fs \in Seq(fields[n]) /\ c.used \in Nat /\ c.room \in Int
    BY DEF Box, Container
<1>2. f \in fields[n] /\ Cost(f) \in Nat /\ NameRoom(name) \in Nat
    BY CostType DEF Sound, NameRoom, NameCost
<1>3. used \in Nat
    BY <1>1, <1>2
<1>4. /\ d.names = Append(c.names, name) /\ d.fs = Append(c.fs, f) /\ d.used = used
      /\ d.sdt = c.sdt /\ d.room = c.room
    BY <1>1 DEF Container
<1>5. d \in Box(n)
    <2>1. Append(c.names, name) \in Seq(Int) /\ Append(c.fs, f) \in Seq(fields[n])
          /\ Append(c.fs, f) \in Seq(Sound(n))
        <3>1. Append(c.names, name) \in Seq(Int)
            BY <1>1
        <3>2. Append(c.fs, f) \in Seq(fields[n])
            BY <1>1, <1>2, AppendType
        <3>3. Append(c.fs, f) \in Seq(Sound(n))
            BY <1>1, AppendType
        <3> QED BY <3>1, <3>2, <3>3
    <2>2. Len(Append(c.names, name)) = Len(Append(c.fs, f))
        BY <1>1, <1>2
    <2>3. d \in Container(n)
        BY <1>1, <1>3, <2>1 DEF Container
    <2> QED BY <1>4, <2>1, <2>2, <2>3 DEF Box
<1> HIDE DEF d
<1>6. Decs(d) = Append(Decs(c), decode[f])
    <2>1. Each(decode, Append(c.fs, f)) = Append(Each(decode, c.fs), decode[f])
        BY <1>1, <1>2, EachAppend, Zenon
    <2> QED BY <1>4, <2>1, Zenon DEF Decs
<1>7. Put(c, name, f) = IF c.room # Grows /\ used > c.room THEN [rc |-> FAIL, c |-> c]
                        ELSE [rc |-> OK, c |-> d]
    BY DEF Put, NameRoom, d
<1> HIDE DEF used
<1>8. CASE c.room # Grows /\ used > c.room
    BY <1>1, <1>3, <1>7, <1>8 DEF Added, OK, FAIL, used
<1>9. CASE ~(c.room # Grows /\ used > c.room)
    BY <1>4, <1>5, <1>6, <1>7, <1>9 DEF Added, OK, FAIL, used
<1> QED BY <1>8, <1>9

-----------------------------------------------------------------------------
(* Atoms and vector elements.                                              *)

LEMMA KindTable ==
    /\ SdtKind(1) = "bool" /\ SdtKind(5) = "int16"
    /\ \A t \in {6, 13, 14, 17, 18, 19} : SdtKind(t) = "int32"
    /\ \A t \in {7, 12, 16} : SdtKind(t) = "int64"
    /\ SdtKind(8) = "float" /\ SdtKind(15) = "float"
    /\ SdtKind(9) = "double" /\ SdtKind(10) = "wchar" /\ SdtKind(11) = "string"
    /\ SdtKind(2) = "none" /\ SdtKind(3) = "none" /\ SdtKind(4) = "none"
BY DEF SdtKind, SdtKinds

\* The types without an SDT field are those of which nothing can arrive.
LEMMA NoKind ==
    ASSUME NEW t \in 1 .. 19, NEW v
    PROVE  SdtKind(t) = "none" <=> Arrives(t, v) = Uncarried
<1>1. CASE t \in {2, 3, 4}
    BY <1>1, KindTable DEF Arrives, Uncarried, Datetime
<1>2. CASE t \notin {2, 3, 4}
    <2>1. SdtKind(t) # "none"
        BY <1>2, KindTable
    <2>2. Arrives(t, v) # Uncarried
        BY <1>2 DEF Arrives, Uncarried, Datetime
    <2> QED BY <2>1, <2>2
<1> QED BY <1>1, <1>2

LEMMA DecodeLeaf ==
    ASSUME NEW kind \in Kinds, NEW v \in Int
    PROVE  LET f == Field(kind, v)
           IN  /\ f \in Leaf /\ f \in Fields
               /\ f.sdt = kind /\ f.v = v /\ f.sdt \notin Nested
               /\ decode[f] = DecodeDef(0, decode, f)
               /\ hollow[f] <=> decode[f] = NullPtr
<1> DEFINE f == Field(kind, v)
<1>1. f \in Leaf /\ f.sdt = kind /\ f.v = v /\ f.sdt \notin Nested
    BY DEF Field, Leaf, Kinds, Nested
<1>2. f \in Fields
    <2>1. 0 \in Nat /\ MaxDepth + 2 \in Nat /\ 0 <= MaxDepth + 2
        BY SizeAssumption
    <2> QED BY <1>1, <2>1, FieldsEq, FieldsGrow DEF Fields
<1> HIDE DEF f
<1>3. decode[f] = DecodeDef(0, decode, f)
    BY <1>2, DecodeEq
<1>4. hollow[f] = HollowDef(0, hollow, f)
    BY <1>2, HollowEq, Zenon
<1>5. hollow[f] <=> decode[f] = NullPtr
    BY <1>1, <1>4, Zenon DEF HollowDef
<1> QED BY <1>1, <1>2, <1>3, <1>5 DEF f

\* A value of a type with a field arrives, in that field.
LEMMA LeafArrives ==
    ASSUME NEW t \in 1 .. 19, NEW v \in Int, SdtKind(t) # "none"
    PROVE  LET f == Field(SdtKind(t), IF t = Datetime THEN Misread ELSE v)
           IN  /\ \A n \in Nat : f \in Sound(n)
               /\ decode[f] = Arrives(t, v) /\ Cost(f) = Width(t)
<1> DEFINE w == IF t = Datetime THEN Misread ELSE v
           f == Field(SdtKind(t), w)
<1>1. w \in Int /\ SdtKind(t) \in Kinds
    <2>1. t \notin {2, 3, 4}
        BY KindTable
    <2> QED BY <2>1, KindTable DEF Kinds, Misread
<1>2. /\ f \in Leaf /\ f.sdt = SdtKind(t) /\ f.v = w /\ f.sdt \notin Nested
      /\ decode[f] = DecodeDef(0, decode, f)
      /\ hollow[f] <=> decode[f] = NullPtr
    BY <1>1, DecodeLeaf
<1> HIDE DEF f
<1>3. decode[f] = Arrives(t, v) /\ Cost(f) = Width(t)
    <2>1. CASE t = 1
        BY <1>2, <2>1, KindTable DEF DecodeDef, DecodedTypes, DecodedValue, Arrives, Cost,
                                     Width, Datetime
    <2>2. CASE t = 5
        BY <1>2, <2>2, KindTable DEF DecodeDef, DecodedTypes, DecodedValue, Arrives, Cost,
                                     Width, Datetime
    <2>3. CASE t \in {6, 13, 14, 17, 18, 19}
        BY <1>2, <2>3, KindTable DEF DecodeDef, DecodedTypes, DecodedValue, Arrives, Cost,
                                     Width, Datetime
    <2>4. CASE t \in {7, 12, 16}
        BY <1>2, <2>4, KindTable DEF DecodeDef, DecodedTypes, DecodedValue, Arrives, Cost,
                                     Width, Datetime
    <2>5. CASE t = 8 \/ t = 15
        BY <1>2, <2>5, KindTable DEF DecodeDef, DecodedTypes, DecodedValue, Arrives, Cost,
                                     Width, Datetime
    <2>6. CASE t = 9
        BY <1>2, <2>6, KindTable DEF DecodeDef, DecodedTypes, DecodedValue, Arrives, Cost,
                                     Width, Datetime
    <2>7. CASE t = 10
        BY <1>2, <2>7, KindTable DEF DecodeDef, DecodedTypes, DecodedValue, Arrives, Cost,
                                     Width, Datetime
    <2>8. CASE t = 11
        BY <1>2, <2>8, KindTable DEF DecodeDef, DecodedTypes, DecodedValue, Arrives, Cost,
                                     Width, Datetime
    <2> QED BY <2>1, <2>2, <2>3, <2>4, <2>5, <2>6, <2>7, <2>8, KindTable
<1>4. Arrives(t, v) # NullPtr
    BY DEF Arrives, NullPtr, Uncarried, Datetime
<1>5. \A n \in Nat : f \in Sound(n)
    <2>1. \A n \in Nat : f \in fields[n]
        BY <1>2, FieldsEq, FieldsGrow
    <2>2. ~hollow[f]
        BY <1>2, <1>3, <1>4
    <2> QED BY <2>1, <2>2 DEF Sound
<1> QED BY <1>3, <1>5 DEF f

\* An element is added if its type has a field.
LEMMA ElementAdds ==
    ASSUME NEW n \in Nat, NEW c \in Box(n), NEW name \in Int, NEW t \in 1 .. 19, NEW v \in Int
    PROVE  Added(n, c, name, Arrives(t, v), Width(t), Arrives(t, v) # Uncarried,
                 Element(c, name, t, v))
<1>1. CASE SdtKind(t) = "none"
    <2>1. Element(c, name, t, v) = [rc |-> FAIL, c |-> c] /\ Arrives(t, v) = Uncarried
        BY <1>1, NoKind DEF Element
    <2> QED BY <2>1 DEF Added, OK, FAIL
<1>2. CASE SdtKind(t) # "none"
    <2> DEFINE f == Field(SdtKind(t), IF t = Datetime THEN Misread ELSE v)
    <2>1. f \in Sound(n) /\ decode[f] = Arrives(t, v) /\ Cost(f) = Width(t)
        BY <1>2, LeafArrives
    <2>2. Element(c, name, t, v) = Put(c, name, f) /\ Arrives(t, v) # Uncarried
        BY <1>2, NoKind DEF Element
    <2> HIDE DEF f
    <2>3. Added(n, c, name, decode[f], Cost(f), TRUE, Put(c, name, f))
        BY <2>1, PutAdds
    <2> QED BY <2>1, <2>2, <2>3 DEF Added
<1> QED BY <1>1, <1>2

\* An atom is added if its type has a field; nothing else is.
LEMMA AtomAdds ==
    ASSUME NEW n \in Nat, NEW c \in Box(n), NEW name \in Int, NEW a \in Own
    PROVE  Added(n, c, name, AtomArrives(a), Width(-a.t), AtomArrives(a) # Uncarried,
                 Atom(c, name, a))
<1>1. CASE a.t < 0
    <2>1. -a.t \in 1 .. 19 /\ a.v \in Int
        <3>1. a \in Atoms
            BY <1>1, Shapes
        <3> QED BY <3>1 DEF Atoms
    <2>2. Added(n, c, name, Arrives(-a.t, a.v), Width(-a.t), Arrives(-a.t, a.v) # Uncarried,
                Element(c, name, -a.t, a.v))
        BY <2>1, ElementAdds
    <2> QED BY <1>1, <2>2 DEF Atom, AtomArrives
<1>2. CASE ~(a.t < 0)
    <2>1. Atom(c, name, a) = [rc |-> FAIL, c |-> c] /\ AtomArrives(a) = Uncarried
        BY <1>2 DEF Atom, AtomArrives
    <2> QED BY <2>1 DEF Added, OK, FAIL
<1> QED BY <1>1, <1>2

-----------------------------------------------------------------------------
(* A vector.                                                               *)

\* The first i elements.
First(f, i) == [j \in 1 .. i |-> f[j]]

LEMMA FirstEq ==
    ASSUME NEW f
    PROVE  /\ First(f, 0) = <<>>
           /\ \A i \in Nat : First(f, i + 1) = Append(First(f, i), f[i + 1])
           /\ \A n \in Nat : f = [j \in 1 .. n |-> f[j]] => First(f, n) = f
<1>1. First(f, 0) = <<>>
    BY DEF First
<1>2. ASSUME NEW i \in Nat PROVE First(f, i + 1) = Append(First(f, i), f[i + 1])
    <2>1. First(f, i) \in Seq({f[j] : j \in 1 .. i}) /\ Len(First(f, i)) = i
        BY DEF First
    <2>2. Append(First(f, i), f[i + 1])
          = [j \in 1 .. i + 1 |-> IF j <= i THEN First(f, i)[j] ELSE f[i + 1]]
        BY <2>1
    <2>3. First(f, i + 1) = [j \in 1 .. i + 1 |-> IF j <= i THEN First(f, i)[j] ELSE f[i + 1]]
        BY DEF First
    <2> QED BY <2>2, <2>3
<1> QED BY <1>1, <1>2 DEF First

LEMMA VectorItems ==
    ASSUME NEW y \in Vectors
    PROVE  y.vs \in Seq(Int) /\ Len(y.vs) \in Nat /\ DOMAIN y.vs = 1 .. Len(y.vs)
<1>1. y \in [t : 1 .. 19, vs : Seq(Int)] => y.vs \in Seq(Int)
    OBVIOUS
<1>2. y \in [t : {98, 101}, vs : {<<>>}] => y.vs \in Seq(Int)
    <2>1. y \in [t : {98, 101}, vs : {<<>>}] => y.vs \in {<<>>}
        OBVIOUS
    <2>2. <<>> \in Seq(Int)
        OBVIOUS
    <2> QED BY <2>1, <2>2
<1>3. y.vs \in Seq(Int)
    BY <1>1, <1>2, Zenon DEF Vectors
<1> QED BY <1>3

Arriving(y) == [i \in DOMAIN y.vs |-> Arrives(y.t, y.vs[i])]

LEMMA WholeVector ==
    ASSUME NEW y \in Own, y \in Vectors
    PROVE  /\ whole[y] = ListOf(Arriving(y))
           /\ \A k \in 0 .. Len(y.vs) : ListOf(First(Arriving(y), k)) \in partly[y]
           /\ carried[y] <=> /\ bytes[y] <= MapSize
                             /\ y.t # 98
                             /\ \A i \in DOMAIN y.vs : Arriving(y)[i] # Uncarried
<1>1. ~(y.t < 0) /\ y.t # 0 /\ y.t # 99
    BY Apart
<1>2. whole[y] = ListOf(Arriving(y))
    <2>1. whole[y] = WholeDef(0, whole, y)
        BY WholeEq
    <2> QED BY <1>1, <2>1, Zenon DEF WholeDef, Arriving
<1>3. ASSUME NEW k \in 0 .. Len(y.vs) PROVE ListOf(First(Arriving(y), k)) \in partly[y]
    <2>1. y.vs \in Seq(Int)
        BY VectorItems
    <2>2. \A i \in 1 .. k : i \in DOMAIN y.vs
        BY <2>1
    <2>3. First(Arriving(y), k) = [i \in 1 .. k |-> Arrives(y.t, y.vs[i])]
        BY <2>2 DEF First, Arriving
    <2>4. partly[y] = PartlyDef(0, partly, y)
        BY PartlyEq, Zenon
    <2>5. partly[y] = {ListOf([i \in 1 .. j |-> Arrives(y.t, y.vs[i])]) : j \in 0 .. Len(y.vs)}
        BY <1>1, <2>4, Zenon DEF PartlyDef
    <2> QED BY <2>3, <2>5
<1>4. carried[y] <=> /\ bytes[y] <= MapSize
                     /\ y.t # 98
                     /\ \A i \in DOMAIN y.vs : Arriving(y)[i] # Uncarried
    <2>1. carried[y] = CarriedDef(0, carried, y)
        BY CarriedEq, Zenon
    <2>2. CarriedDef(0, carried, y) <=>
              /\ bytes[y] <= MapSize
              /\ y.t # 98
              /\ \A i \in DOMAIN y.vs : Arrives(y.t, y.vs[i]) # Uncarried
        BY <1>1, Zenon DEF CarriedDef
    <2>3. \A i \in DOMAIN y.vs : Arriving(y)[i] = Arrives(y.t, y.vs[i])
        BY DEF Arriving
    <2> QED BY <2>1, <2>2, <2>3, Zenon
<1> QED BY <1>2, <1>3, <1>4, Zenon

\* After i rounds the container holds the elements before the first that fails.
VectorInv(n, c, y, i, r) ==
    /\ r.c \in Box(n) /\ r.c.sdt = c.sdt /\ r.c.room = c.room /\ r.rc \in {OK, FAIL}
    /\ \E k \in 0 .. i : Decs(r.c) = First(Arriving(y), k)
    /\ r.rc = OK => /\ Decs(r.c) = First(Arriving(y), i)
                    /\ r.c.used = 5 + Sum(ItemBytes(y))[i]
    /\ /\ \A j \in 1 .. i : Arriving(y)[j] # Uncarried
       /\ c.room = Grows \/ 5 + Sum(ItemBytes(y))[i] <= c.room
       => r.rc = OK

LEMMA VectorFills ==
    ASSUME NEW n \in Nat, NEW y \in Own, y \in Vectors, y.t \in 1 .. 19, NEW room \in Int
    PROVE  LET c == New("stream", room)
           IN  \A i \in 0 .. Len(y.vs) : VectorInv(n, c, y, i, VectorLoop(c, y)[i])
<1> DEFINE c == New("stream", room)
           run == VectorLoop(c, y)
           T == {i \in Nat : i <= Len(y.vs) => VectorInv(n, c, y, i, run[i])}
<1>1. y.vs \in Seq(Int) /\ Len(y.vs) \in Nat /\ DOMAIN y.vs = 1 .. Len(y.vs)
    BY VectorItems
<1>2. c \in Box(n) /\ Decs(c) = <<>> /\ c.used = 5 /\ c.room = room
    BY NewBox DEF Nested
<1>3. /\ run[0] = [rc |-> OK, c |-> c]
      /\ \A i \in Nat : run[i + 1] = VectorRound(run[i], y.t, y.vs[i + 1])
    BY VectorEq
<1>4. \A i \in 0 .. Len(y.vs) : Sum(ItemBytes(y))[i] \in Nat
    <2>1. \A i \in 1 .. Len(y.vs) : ItemBytes(y)[i] \in Nat
        BY <1>1, WidthType DEF ItemBytes
    <2> QED BY <1>1, <2>1, SumGrows
<1>5. 0 \in T
    <2>1. First(Arriving(y), 0) = <<>> /\ Sum(ItemBytes(y))[0] = 0
        BY FirstEq, SumEq
    <2>2. run[0].c = c /\ run[0].rc = OK
        BY <1>3
    <2> HIDE DEF c, run
    <2>3. \E k \in 0 .. 0 : Decs(run[0].c) = First(Arriving(y), k)
        BY <1>2, <2>1, <2>2
    <2> QED BY <1>2, <2>1, <2>2, <2>3 DEF VectorInv
<1> HIDE DEF c, run
<1>6. ASSUME NEW i \in Nat, i \in T PROVE i + 1 \in T
    <2> SUFFICES ASSUME i + 1 <= Len(y.vs) PROVE VectorInv(n, c, y, i + 1, run[i + 1])
        OBVIOUS
    <2> DEFINE r == run[i]
               q == run[i + 1]
               w == Width(y.t)
               value == Arrives(y.t, y.vs[i + 1])
    <2>1. VectorInv(n, c, y, i, r)
        BY <1>6
    <2>2. i + 1 \in DOMAIN y.vs /\ y.vs[i + 1] \in Int
        BY <1>1
    <2>3. q = IF r.rc = FAIL THEN r ELSE Element(r.c, 0, y.t, y.vs[i + 1])
        BY <1>3 DEF VectorRound
    <2>4. Added(n, r.c, 0, value, w, value # Uncarried, Element(r.c, 0, y.t, y.vs[i + 1]))
        <3>1. r.c \in Box(n)
            BY <2>1 DEF VectorInv
        <3> HIDE DEF r, value, w
        <3>2. ASSUME NEW name \in Int, NEW v \in Int
              PROVE  Added(n, r.c, name, Arrives(y.t, v), Width(y.t),
                           Arrives(y.t, v) # Uncarried, Element(r.c, name, y.t, v))
            BY <3>1, ElementAdds
        <3>3. 0 \in Int
            OBVIOUS
        <3> QED BY <2>2, <3>2, <3>3, Zenon DEF value, w
    <2>5. Arriving(y)[i + 1] = value /\ ItemBytes(y)[i + 1] = w /\ w \in Nat
        BY <2>2, WidthType DEF Arriving, ItemBytes
    <2>6. /\ First(Arriving(y), i + 1) = Append(First(Arriving(y), i), value)
          /\ Sum(ItemBytes(y))[i + 1] = Sum(ItemBytes(y))[i] + w
        <3>1. First(Arriving(y), i + 1) = Append(First(Arriving(y), i), Arriving(y)[i + 1])
            BY FirstEq
        <3>2. Sum(ItemBytes(y))[i + 1] = Sum(ItemBytes(y))[i] + ItemBytes(y)[i + 1]
            BY SumEq
        <3> QED BY <2>5, <3>1, <3>2
    <2>7. /\ Sum(ItemBytes(y))[i] \in Nat /\ Sum(ItemBytes(y))[i + 1] \in Nat
        BY <1>4
    <2> HIDE DEF r, q, w, value
    <2>8. CASE r.rc = FAIL
        <3>1. q = r
            BY <2>3, <2>8
        <3>2. \E k \in 0 .. i + 1 : Decs(q.c) = First(Arriving(y), k)
            BY <2>1, <3>1 DEF VectorInv
        <3>3. ~(/\ \A j \in 1 .. i + 1 : Arriving(y)[j] # Uncarried
                /\ c.room = Grows \/ 5 + Sum(ItemBytes(y))[i + 1] <= c.room)
            BY <1>2, <2>1, <2>5, <2>6, <2>7, <2>8 DEF VectorInv, OK, FAIL
        <3> QED BY <2>1, <2>8, <3>1, <3>2, <3>3 DEF VectorInv, OK, FAIL, q
    <2>9. CASE r.rc # FAIL
        <3>1. r.rc = OK /\ q = Element(r.c, 0, y.t, y.vs[i + 1])
            BY <2>1, <2>3, <2>9 DEF VectorInv
        <3>2. Added(n, r.c, 0, value, w, value # Uncarried, q)
            BY <2>4, <3>1
        <3>3. Decs(r.c) = First(Arriving(y), i) /\ r.c.used = 5 + Sum(ItemBytes(y))[i]
              /\ r.c.room = c.room /\ r.c.sdt = c.sdt
            BY <2>1, <3>1 DEF VectorInv
        <3>4. q.rc = OK => /\ Decs(q.c) = First(Arriving(y), i + 1)
                           /\ q.c.used = 5 + Sum(ItemBytes(y))[i + 1]
            <4>1. q.rc = OK => /\ Decs(q.c) = Append(Decs(r.c), value)
                               /\ q.c.used = r.c.used + w + 0
                BY <3>2 DEF Added, NameRoom
            <4>2. Append(Decs(r.c), value) = First(Arriving(y), i + 1)
                BY <2>6, <3>3
            <4>3. r.c.used + w + 0 = 5 + Sum(ItemBytes(y))[i + 1]
                BY <2>5, <2>6, <2>7, <3>3
            <4> QED BY <4>1, <4>2, <4>3
        <3>5. \E k \in 0 .. i + 1 : Decs(q.c) = First(Arriving(y), k)
            BY <3>2, <3>3, <3>4 DEF Added
        <3>6. /\ \A j \in 1 .. i + 1 : Arriving(y)[j] # Uncarried
              /\ c.room = Grows \/ 5 + Sum(ItemBytes(y))[i + 1] <= c.room
              => q.rc = OK
            BY <2>5, <2>6, <2>7, <3>2, <3>3 DEF Added, NameRoom
        <3> QED BY <3>2, <3>3, <3>4, <3>5, <3>6 DEF Added, VectorInv, q
    <2> QED BY <2>8, <2>9
<1> HIDE DEF T
<1>7. Nat \subseteq T
    BY <1>5, <1>6, SumIs!NatInduct
<1> QED BY <1>1, <1>7 DEF T, c, run

\* The vector encoder: what is in the container is the start of the vector,
\* all of it if the code is OK, which it is if there is a field for each
\* element and room for them.
LEMMA VectorEncodes ==
    ASSUME NEW n \in Nat, NEW y \in Own, y \in Vectors, NEW room \in Int, NEW g
    PROVE  LET r == Vector(New("stream", room), y, g)
           IN  /\ r.c \in Box(n) /\ r.c.sdt = "stream" /\ r.c.room = room
               /\ r.rc \in {OK, FAIL}
               /\ ListOf(Decs(r.c)) \in partly[y]
               /\ r.rc = OK => ListOf(Decs(r.c)) = whole[y] /\ r.c.used = bytes[y]
               /\ /\ y.t # 98 /\ \A i \in DOMAIN y.vs : Arriving(y)[i] # Uncarried
                  /\ room = Grows \/ bytes[y] <= room
                  => r.rc = OK
<1> DEFINE c == New("stream", room)
           r == Vector(c, y, g)
           len == Len(y.vs)
<1>1. len \in Nat /\ DOMAIN y.vs = 1 .. len
    BY VectorItems
<1>2. /\ c \in Box(n) /\ c.sdt = "stream" /\ c.room = room /\ c.used = 5
      /\ Decs(c) = <<>>
    BY NewBox DEF Nested
<1>3. First(Arriving(y), 0) = <<>> /\ First(Arriving(y), len) = Arriving(y)
    <2>1. Arriving(y) = [j \in 1 .. len |-> Arriving(y)[j]]
        BY <1>1 DEF Arriving
    <2> QED BY <1>1, <2>1, FirstEq
<1>4. /\ whole[y] = ListOf(Arriving(y))
      /\ \A k \in 0 .. len : ListOf(First(Arriving(y), k)) \in partly[y]
    BY WholeVector
<1>5. bytes[y] = 5 + Sum(ItemBytes(y))[len]
    BY BytesOf
<1>6. y.t # 99
    BY Apart
<1> HIDE DEF c, len
<1>7. CASE y.t = 98
    <2>1. r = [rc |-> FAIL, c |-> c]
        BY <1>7 DEF Vector
    <2>2. ListOf(Decs(c)) \in partly[y]
        BY <1>1, <1>2, <1>3, <1>4
    <2> QED BY <1>2, <1>7, <2>1, <2>2 DEF OK, FAIL, c
<1>8. CASE y.t # 98
    <2>1. r = VectorLoop(c, y)[len]
        BY <1>6, <1>8 DEF Vector, len
    <2>2. VectorInv(n, c, y, len, r)
        <3>1. CASE y.t \in 1 .. 19
            <4>1. \A i \in 0 .. len : VectorInv(n, c, y, i, VectorLoop(c, y)[i])
                BY <3>1, VectorFills DEF c, len
            <4> QED BY <1>1, <2>1, <4>1
        <3>2. CASE y.t \notin 1 .. 19
            <4>1. y.vs = <<>>
                BY <3>2 DEF Vectors
            <4>2. len = 0
                BY <4>1 DEF len
            <4>3. r = [rc |-> OK, c |-> c] /\ Sum(ItemBytes(y))[len] = 0
                BY <2>1, <4>2, VectorEq, SumEq
            <4>4. r.c = c /\ r.rc = OK
                BY <4>3
            <4> HIDE DEF r
            <4>5. \E k \in 0 .. len : Decs(r.c) = First(Arriving(y), k)
                BY <1>2, <1>3, <4>2, <4>4
            <4> QED BY <1>2, <1>3, <4>2, <4>3, <4>4, <4>5 DEF VectorInv
        <3> QED BY <3>1, <3>2
    <2> HIDE DEF r
    <2>3. ListOf(Decs(r.c)) \in partly[y]
        BY <1>4, <2>2 DEF VectorInv
    <2>4. r.rc = OK => ListOf(Decs(r.c)) = whole[y] /\ r.c.used = bytes[y]
        BY <1>3, <1>4, <1>5, <2>2 DEF VectorInv
    <2>5. /\ \A i \in DOMAIN y.vs : Arriving(y)[i] # Uncarried
          /\ room = Grows \/ bytes[y] <= room
          => r.rc = OK
        BY <1>1, <1>2, <1>5, <2>2 DEF VectorInv
    <2> QED BY <1>2, <2>2, <2>3, <2>4, <2>5 DEF VectorInv, r, c
<1> QED BY <1>7, <1>8

-----------------------------------------------------------------------------
(* A dictionary.                                                           *)

\* What is left of parts is left when there is one more, or it at the end.
LEMMA RemainsStep ==
    ASSUME NEW forms, NEW i \in Nat, NEW s \in Remains(forms)[i]
    PROVE  /\ s \in Remains(forms)[i + 1]
           /\ \A v \in forms[i + 1] : Append(s, v) \in Remains(forms)[i + 1]
<1>1. Remains(forms)[i + 1] = Remains(forms)[i] \cup Longer(Remains(forms)[i], forms[i + 1])
    BY RemainsEq
<1>2. ASSUME NEW v \in forms[i + 1] PROVE Append(s, v) \in Longer(Remains(forms)[i], forms[i + 1])
    <2>1. <<s, v>> \in Remains(forms)[i] \X forms[i + 1]
        OBVIOUS
    <2>2. Append(s, v) = Append(<<s, v>>[1], <<s, v>>[2])
        OBVIOUS
    <2> QED BY <2>1, <2>2, Zenon DEF Longer
<1> QED BY <1>1, <1>2

LEMMA DictionaryParts ==
    ASSUME NEW d \in Own, d \in Dictionaries
    PROVE  /\ d.keys.vs \in Seq(Int) /\ Len(d.keys.vs) \in Nat
           /\ DOMAIN d.keys.vs = 1 .. Len(d.keys.vs)
           /\ d.vals.t = 0 => \A i \in DOMAIN d.keys.vs : d.vals.xs[i] \in Own
           /\ d.vals.t # 0 => /\ d.vals.t \in 1 .. 19
                              /\ \A i \in DOMAIN d.keys.vs : d.vals.vs[i] \in Int
<1>1. /\ d.keys.vs \in Seq(Int)
      /\ d.vals \in [t : 1 .. 19, vs : Seq(Int)] \/ d.vals \in Lists
      /\ d.vals.t = 0 => Len(d.keys.vs) = Len(d.vals.xs)
      /\ d.vals.t # 0 => Len(d.keys.vs) = Len(d.vals.vs)
    BY DEF Dictionaries
<1>2. Len(d.keys.vs) \in Nat /\ DOMAIN d.keys.vs = 1 .. Len(d.keys.vs)
    BY <1>1
<1>3. ASSUME d.vals.t = 0, NEW i \in DOMAIN d.keys.vs PROVE d.vals.xs[i] \in Own
    <2>1. d.vals \in Lists
        <3>1. d.vals \in [t : 1 .. 19, vs : Seq(Int)] => d.vals.t \in 1 .. 19
            OBVIOUS
        <3> QED BY <1>1, <1>3, <3>1
    <2> QED BY <1>1, <1>2, <1>3, <2>1 DEF Lists
<1>4. ASSUME d.vals.t # 0 PROVE /\ d.vals.t \in 1 .. 19
                                /\ \A i \in DOMAIN d.keys.vs : d.vals.vs[i] \in Int
    <2>1. d.vals \in [t : 1 .. 19, vs : Seq(Int)]
        BY <1>1, <1>4, Apart
    <2> QED BY <1>1, <1>2, <1>4, <2>1
<1> QED BY <1>1, <1>2, <1>3, <1>4

\* A dictionary as a sequence of names with values.
Unpair(s)  == DictionaryOf([i \in DOMAIN s |-> s[i].name], [i \in DOMAIN s |-> s[i].value])
Pairing(d) == [i \in DOMAIN d.keys.vs |->
                  [name |-> d.keys.vs[i], value |-> AtomArrives(Value(d, i))]]
Forms(d)   == [i \in DOMAIN d.keys.vs |-> Pairs(d, i)]
PairsIn(c) == [i \in DOMAIN c.fs |-> [name |-> c.names[i], value |-> Decs(c)[i]]]

LEMMA WholeDictionary ==
    ASSUME NEW d \in Own, d \in Dictionaries
    PROVE  /\ whole[d] = Unpair(Pairing(d))
           /\ \A s \in Remains(Forms(d))[Len(d.keys.vs)] : Unpair(s) \in partly[d]
           /\ carried[d] <=> /\ bytes[d] <= MapSize
                             /\ d.keys.t = 11
                             /\ \A i \in DOMAIN d.keys.vs : Pairing(d)[i].value # Uncarried
<1>1. ~(d.t < 0) /\ d.t # 0 /\ d.t = 99
    BY Apart
<1>2. whole[d] = Unpair(Pairing(d))
    <2>1. whole[d] = WholeDef(0, whole, d)
        BY WholeEq
    <2>2. whole[d] = DictionaryOf(d.keys.vs,
                                  [i \in DOMAIN d.keys.vs |-> AtomArrives(Value(d, i))])
        BY <1>1, <2>1, Zenon DEF WholeDef
    <2>3. [i \in DOMAIN Pairing(d) |-> Pairing(d)[i].name] = d.keys.vs
        <3>1. d.keys.vs = [i \in DOMAIN d.keys.vs |-> d.keys.vs[i]]
            BY DictionaryParts
        <3>2. [i \in DOMAIN Pairing(d) |-> Pairing(d)[i].name]
              = [i \in DOMAIN d.keys.vs |-> d.keys.vs[i]]
            BY DEF Pairing
        <3> QED BY <3>1, <3>2
    <2>4. [i \in DOMAIN Pairing(d) |-> Pairing(d)[i].value]
          = [i \in DOMAIN d.keys.vs |-> AtomArrives(Value(d, i))]
        BY DEF Pairing
    <2> QED BY <2>2, <2>3, <2>4 DEF Unpair
<1>3. ASSUME NEW s \in Remains(Forms(d))[Len(d.keys.vs)] PROVE Unpair(s) \in partly[d]
    <2>1. partly[d] = PartlyDef(0, partly, d)
        BY PartlyEq, Zenon
    <2>2. partly[d] = {Unpair(p) : p \in Remains(Forms(d))[Len(d.keys.vs)]}
        BY <1>1, <2>1, Zenon DEF PartlyDef, Forms, Unpair
    <2> QED BY <2>2
<1>4. carried[d] <=> /\ bytes[d] <= MapSize
                     /\ d.keys.t = 11
                     /\ \A i \in DOMAIN d.keys.vs : Pairing(d)[i].value # Uncarried
    <2>1. carried[d] = CarriedDef(0, carried, d)
        BY CarriedEq, Zenon
    <2>2. CarriedDef(0, carried, d) <=>
              /\ bytes[d] <= MapSize
              /\ d.keys.t = 11
              /\ \A i \in DOMAIN d.keys.vs : AtomArrives(Value(d, i)) # Uncarried
        BY <1>1, Zenon DEF CarriedDef
    <2>3. \A i \in DOMAIN d.keys.vs : Pairing(d)[i].value = AtomArrives(Value(d, i))
        BY DEF Pairing
    <2> QED BY <2>1, <2>2, <2>3, Zenon
<1> QED BY <1>2, <1>3, <1>4, Zenon

\* A container is decoded to its pairs; one more name and value is one more pair.
LEMMA PairsInBox ==
    ASSUME NEW n \in Nat, NEW c \in Box(n)
    PROVE  /\ Unpair(PairsIn(c)) = DictionaryOf(c.names, Decs(c))
           /\ \A q \in Box(n) : \A name, value :
                 q.names = Append(c.names, name) /\ Decs(q) = Append(Decs(c), value)
                 => PairsIn(q) = Append(PairsIn(c), [name |-> name, value |-> value])
<1>1. ASSUME NEW b \in Box(n)
      PROVE  /\ b.names \in Seq(Int) /\ DOMAIN b.fs = 1 .. Len(b.fs) /\ Len(b.fs) \in Nat
             /\ Len(b.names) = Len(b.fs) /\ DOMAIN b.names = DOMAIN b.fs
             /\ Decs(b) \in Seq({decode[b.fs[i]] : i \in DOMAIN b.fs})
             /\ DOMAIN Decs(b) = DOMAIN b.fs /\ Len(Decs(b)) = Len(b.fs)
    <2>1. b.names \in Seq(Int) /\ b.fs \in Seq(Sound(n)) /\ Len(b.names) = Len(b.fs)
        BY DEF Box, Container
    <2>2. DOMAIN b.fs = 1 .. Len(b.fs) /\ Len(b.fs) \in Nat /\ DOMAIN b.names = DOMAIN b.fs
        BY <2>1
    <2> QED BY <2>1, <2>2 DEF Decs, Each
<1>2. Unpair(PairsIn(c)) = DictionaryOf(c.names, Decs(c))
    <2>1. [i \in DOMAIN PairsIn(c) |-> PairsIn(c)[i].name] = c.names
        <3>1. c.names = [i \in DOMAIN c.names |-> c.names[i]]
            <4>1. c.names \in Seq(Int)
                BY <1>1
            <4> QED BY <4>1
        <3>2. [i \in DOMAIN PairsIn(c) |-> PairsIn(c)[i].name]
              = [i \in DOMAIN c.fs |-> c.names[i]]
            BY DEF PairsIn
        <3> QED BY <1>1, <3>1, <3>2
    <2>2. [i \in DOMAIN PairsIn(c) |-> PairsIn(c)[i].value] = Decs(c)
        <3>1. Decs(c) = [i \in DOMAIN c.fs |-> Decs(c)[i]]
            BY DEF Decs, Each
        <3>2. [i \in DOMAIN PairsIn(c) |-> PairsIn(c)[i].value] = [i \in DOMAIN c.fs |-> Decs(c)[i]]
            BY DEF PairsIn
        <3> QED BY <3>1, <3>2
    <2> QED BY <2>1, <2>2 DEF Unpair
<1>3. ASSUME NEW q \in Box(n), NEW name, NEW value,
             q.names = Append(c.names, name), Decs(q) = Append(Decs(c), value)
      PROVE  PairsIn(q) = Append(PairsIn(c), [name |-> name, value |-> value])
    <2> DEFINE len == Len(c.fs)
    <2>1. /\ len \in Nat /\ DOMAIN c.fs = 1 .. len /\ DOMAIN c.names = 1 .. len
          /\ Len(c.names) = len /\ Len(Decs(c)) = len /\ DOMAIN Decs(c) = 1 .. len
        BY <1>1
    <2>2. DOMAIN q.fs = 1 .. len + 1
        <3>1. DOMAIN Append(Decs(c), value) = 1 .. len + 1
            BY <1>1, <2>1
        <3> QED BY <1>1, <1>3, <3>1
    <2>3. \A i \in 1 .. len + 1 :
              /\ q.names[i] = IF i <= len THEN c.names[i] ELSE name
              /\ Decs(q)[i] = IF i <= len THEN Decs(c)[i] ELSE value
        BY <1>1, <1>3, <2>1
    <2>4. PairsIn(c) \in Seq({PairsIn(c)[i] : i \in 1 .. len}) /\ Len(PairsIn(c)) = len
        BY <2>1 DEF PairsIn
    <2>5. Append(PairsIn(c), [name |-> name, value |-> value])
          = [i \in 1 .. len + 1 |-> IF i <= len THEN PairsIn(c)[i]
                                    ELSE [name |-> name, value |-> value]]
        BY <2>4
    <2>6. \A i \in 1 .. len : PairsIn(c)[i] = [name |-> c.names[i], value |-> Decs(c)[i]]
        BY <2>1 DEF PairsIn
    <2>7. PairsIn(q) = [i \in 1 .. len + 1 |-> [name |-> q.names[i], value |-> Decs(q)[i]]]
        BY <2>2 DEF PairsIn
    <2> HIDE DEF len
    <2> QED BY <2>1, <2>3, <2>5, <2>6, <2>7
<1> QED BY <1>2, <1>3

\* Of a dictionary, one value is added as an atom is.
LEMMA ValueAdds ==
    ASSUME NEW n \in Nat, NEW c \in Box(n), NEW d \in Own, d \in Dictionaries,
           NEW i \in DOMAIN d.keys.vs
    PROVE  Added(n, c, d.keys.vs[i], Pairing(d)[i].value, Width(-Value(d, i).t),
                 Pairing(d)[i].value # Uncarried,
                 IF d.vals.t = 0 THEN Atom(c, d.keys.vs[i], d.vals.xs[i])
                 ELSE Element(c, d.keys.vs[i], d.vals.t, d.vals.vs[i]))
<1> DEFINE name == d.keys.vs[i]
           value == AtomArrives(Value(d, i))
<1>1. name \in Int /\ Pairing(d)[i].value = value
    BY DictionaryParts DEF Pairing
<1>2. CASE d.vals.t = 0
    <2>1. Value(d, i) = d.vals.xs[i] /\ d.vals.xs[i] \in Own
        BY <1>2, DictionaryParts DEF Value
    <2> DEFINE a == d.vals.xs[i]
    <2>2. a \in Own /\ Value(d, i) = a
        BY <2>1
    <2> HIDE DEF a, name
    <2>3. Added(n, c, name, AtomArrives(a), Width(-a.t), AtomArrives(a) # Uncarried,
                Atom(c, name, a))
        BY <1>1, <2>2, AtomAdds
    <2> QED BY <1>1, <1>2, <2>2, <2>3 DEF a, name
<1>3. CASE d.vals.t # 0
    <2> DEFINE t == d.vals.t
               v == d.vals.vs[i]
    <2>1. t \in 1 .. 19 /\ v \in Int
        BY <1>3, DictionaryParts
    <2>2. Value(d, i) = [t |-> -t, v |-> v]
        BY <1>3 DEF Value
    <2> HIDE DEF t, v, name
    <2>3. value = Arrives(t, v) /\ -Value(d, i).t = t
        BY <2>1, <2>2 DEF AtomArrives
    <2>4. Added(n, c, name, Arrives(t, v), Width(t), Arrives(t, v) # Uncarried,
                Element(c, name, t, v))
        BY <1>1, <2>1, ElementAdds
    <2> QED BY <1>1, <1>3, <2>3, <2>4 DEF t, v, name
<1> QED BY <1>2, <1>3

\* After i rounds the container holds some of the first i values, under their
\* names, and all of them if all have fields and there is room.
DictionaryInv(n, c, d, i, r) ==
    /\ r.c \in Box(n) /\ r.c.sdt = c.sdt /\ r.c.room = c.room /\ r.rc \in {OK, FAIL}
    /\ PairsIn(r.c) \in Remains(Forms(d))[i]
    /\ /\ \A j \in 1 .. i : Pairing(d)[j].value # Uncarried
       /\ 5 + Sum(ValueBytes(d))[i] <= c.room
       => /\ r.rc = OK
          /\ PairsIn(r.c) = First(Pairing(d), i)
          /\ r.c.used <= 5 + Sum(ValueBytes(d))[i]

LEMMA DictionaryFills ==
    ASSUME NEW n \in Nat, NEW d \in Own, d \in Dictionaries, d.keys.t = 11
    PROVE  LET c == New("map", MapSize)
           IN  \A i \in 0 .. Len(d.keys.vs) :
                   DictionaryInv(n, c, d, i, DictionaryLoop(c, d, OK)[i])
<1> DEFINE c == New("map", MapSize)
           run == DictionaryLoop(c, d, OK)
           len == Len(d.keys.vs)
           T == {i \in Nat : i <= len => DictionaryInv(n, c, d, i, run[i])}
<1>1. len \in Nat /\ DOMAIN d.keys.vs = 1 .. len
    BY DictionaryParts
<1>2. c \in Box(n) /\ Decs(c) = <<>> /\ c.fs = <<>> /\ c.used = 5 /\ c.room = MapSize
    BY NewBox, SizeAssumption DEF Nested
<1>3. /\ run[0] = [rc |-> OK, c |-> c]
      /\ \A i \in Nat : run[i + 1] =
             IF d.vals.t = 0 THEN Atom(run[i].c, d.keys.vs[i + 1], d.vals.xs[i + 1])
             ELSE Element(run[i].c, d.keys.vs[i + 1], d.vals.t, d.vals.vs[i + 1])
    BY DictionaryEq
<1>4. \A i \in 0 .. len : Sum(ValueBytes(d))[i] \in Nat
    <2>1. \A i \in 1 .. len : ValueBytes(d)[i] \in Nat
        BY <1>1, WidthType DEF ValueBytes, NameCost
    <2> HIDE DEF len
    <2> QED BY <1>1, <2>1, SumGrows
<1> HIDE DEF c, run
<1>5. 0 \in T
    <2>1. First(Pairing(d), 0) = <<>> /\ Sum(ValueBytes(d))[0] = 0
          /\ Remains(Forms(d))[0] = {<<>>}
        BY FirstEq, SumEq, RemainsEq
    <2>2. run[0].c = c /\ run[0].rc = OK
        BY <1>3
    <2>3. PairsIn(c) = <<>>
        BY <1>2 DEF PairsIn
    <2> QED BY <1>2, <2>1, <2>2, <2>3 DEF DictionaryInv
<1>6. ASSUME NEW i \in Nat, i \in T PROVE i + 1 \in T
    <2> SUFFICES ASSUME i + 1 <= len PROVE DictionaryInv(n, c, d, i + 1, run[i + 1])
        OBVIOUS
    <2> DEFINE r == run[i]
               q == run[i + 1]
               name == d.keys.vs[i + 1]
               value == Pairing(d)[i + 1].value
               w == Width(-Value(d, i + 1).t)
    <2>1. DictionaryInv(n, c, d, i, r)
        BY <1>6
    <2>2. i + 1 \in DOMAIN d.keys.vs
        BY <1>1
    <2>3. q = IF d.vals.t = 0 THEN Atom(r.c, name, d.vals.xs[i + 1])
              ELSE Element(r.c, name, d.vals.t, d.vals.vs[i + 1])
        BY <1>3
    <2>4. r.c \in Box(n) /\ r.c.room = c.room
        BY <2>1 DEF DictionaryInv
    <2> HIDE DEF r, q
    <2>5. Added(n, r.c, name, value, w, value # Uncarried, q)
        <3>1. \A j \in DOMAIN d.keys.vs :
                 Added(n, r.c, d.keys.vs[j], Pairing(d)[j].value, Width(-Value(d, j).t),
                       Pairing(d)[j].value # Uncarried,
                       IF d.vals.t = 0 THEN Atom(r.c, d.keys.vs[j], d.vals.xs[j])
                       ELSE Element(r.c, d.keys.vs[j], d.vals.t, d.vals.vs[j]))
            BY <2>4, ValueAdds
        <3> QED BY <2>2, <2>3, <3>1, Zenon
    <2>6. Pairing(d)[i + 1] = [name |-> name, value |-> value]
        BY <2>2 DEF Pairing
    <2>7. value # Uncarried => [name |-> name, value |-> value] \in Forms(d)[i + 1]
        <3>1. value = AtomArrives(Value(d, i + 1)) /\ Forms(d)[i + 1] = Pairs(d, i + 1)
            BY <2>2 DEF Pairing, Forms
        <3> HIDE DEF value
        <3> QED BY <3>1 DEF Pairs
    <2>8. ValueBytes(d)[i + 1] = NameCost + w /\ w \in Nat
        BY <2>2, WidthType DEF ValueBytes
    <2> HIDE DEF name, value, w
    <2>9. /\ Sum(ValueBytes(d))[i + 1] = Sum(ValueBytes(d))[i] + ValueBytes(d)[i + 1]
          /\ Sum(ValueBytes(d))[i] \in Nat /\ Sum(ValueBytes(d))[i + 1] \in Nat
        <3>1. Sum(ValueBytes(d))[i + 1] = Sum(ValueBytes(d))[i] + ValueBytes(d)[i + 1]
            BY SumEq
        <3>2. i \in 0 .. len /\ i + 1 \in 0 .. len
            BY <1>1
        <3> QED BY <1>4, <3>1, <3>2
    <2>10. NameRoom(name) <= NameCost /\ NameRoom(name) \in Nat /\ NameCost \in Nat
        BY DEF NameRoom, NameCost
    <2>11. q.rc = OK => /\ value # Uncarried
                        /\ PairsIn(q.c) = Append(PairsIn(r.c), [name |-> name, value |-> value])
                        /\ q.c.used = r.c.used + w + NameRoom(name)
        <3>1. q.c \in Box(n)
            BY <2>5 DEF Added
        <3>2. ASSUME q.c.names = Append(r.c.names, name), Decs(q.c) = Append(Decs(r.c), value)
              PROVE  PairsIn(q.c) = Append(PairsIn(r.c), [name |-> name, value |-> value])
            <4>1. \A b \in Box(n) : \A m, v :
                     b.names = Append(r.c.names, m) /\ Decs(b) = Append(Decs(r.c), v)
                     => PairsIn(b) = Append(PairsIn(r.c), [name |-> m, value |-> v])
                BY <2>4, PairsInBox
            <4> QED BY <3>1, <3>2, <4>1, Zenon
        <3> QED BY <2>5, <3>2 DEF Added
    <2>12. PairsIn(r.c) \in Remains(Forms(d))[i]
        BY <2>1 DEF DictionaryInv
    <2>13. PairsIn(q.c) \in Remains(Forms(d))[i + 1]
        <3>1. CASE q.rc = FAIL
            <4>1. q.c = r.c
                BY <2>5, <3>1 DEF Added
            <4> QED BY <2>12, <4>1, RemainsStep
        <3>2. CASE q.rc = OK
            BY <2>7, <2>11, <2>12, <3>2, RemainsStep
        <3> QED BY <2>5, <3>1, <3>2 DEF Added
    <2>14. ASSUME \A j \in 1 .. i + 1 : Pairing(d)[j].value # Uncarried,
                  5 + Sum(ValueBytes(d))[i + 1] <= c.room
           PROVE  /\ q.rc = OK
                  /\ PairsIn(q.c) = First(Pairing(d), i + 1)
                  /\ q.c.used <= 5 + Sum(ValueBytes(d))[i + 1]
        <3>1. 5 + Sum(ValueBytes(d))[i] <= c.room /\ c.room \in Int
            BY <1>2, <2>8, <2>9, <2>10, <2>14, SizeAssumption
        <3>2. \A j \in 1 .. i : Pairing(d)[j].value # Uncarried
            BY <2>14
        <3>3. /\ PairsIn(r.c) = First(Pairing(d), i)
              /\ r.c.used <= 5 + Sum(ValueBytes(d))[i]
            BY <2>1, <3>1, <3>2 DEF DictionaryInv
        <3>4. value # Uncarried
            BY <2>6, <2>14
        <3>5. r.c.used \in Nat
            BY <2>4 DEF Box, Container
        <3>6. r.c.used + w + NameRoom(name) <= 5 + Sum(ValueBytes(d))[i + 1]
            <4>1. ASSUME NEW u \in Nat, NEW k \in Nat, NEW m \in Nat, NEW v \in Nat,
                         NEW z \in Nat, u <= 5 + z, k <= m
                  PROVE  u + v + k <= 5 + (z + (m + v))
                BY <4>1
            <4> QED BY <2>8, <2>9, <2>10, <3>3, <3>5, <4>1
        <3>7. q.rc = OK
            <4>1. r.c.used + w + NameRoom(name) <= r.c.room
                <5>1. 5 + Sum(ValueBytes(d))[i + 1] <= r.c.room /\ r.c.room \in Int
                    BY <2>4, <2>14, <3>1
                <5>2. r.c.used + w + NameRoom(name) \in Nat
                      /\ 5 + Sum(ValueBytes(d))[i + 1] \in Nat
                    <6>1. r.c.used \in Nat /\ w \in Nat /\ NameRoom(name) \in Nat
                        BY <2>8, <2>10, <3>5
                    <6>2. r.c.used + w + NameRoom(name) \in Nat
                        BY <6>1
                    <6>3. 5 + Sum(ValueBytes(d))[i + 1] \in Nat
                        BY <2>9
                    <6> QED BY <6>2, <6>3
                <5>3. ASSUME NEW u \in Nat, NEW v \in Nat, NEW z \in Int, u <= v, v <= z
                      PROVE  u <= z
                    BY <5>3
                <5> HIDE DEF w, name
                <5> QED BY <3>6, <5>1, <5>2, <5>3, Zenon
            <4> QED BY <2>5, <3>4, <4>1 DEF Added
        <3>8. First(Pairing(d), i + 1) = Append(First(Pairing(d), i), Pairing(d)[i + 1])
            BY FirstEq
        <3> QED BY <2>6, <2>11, <3>3, <3>6, <3>7, <3>8
    <2>15. /\ q.c \in Box(n) /\ q.c.sdt = c.sdt /\ q.c.room = c.room
           /\ q.rc \in {OK, FAIL}
        <3>1. r.c.sdt = c.sdt /\ r.c.room = c.room
            BY <2>1 DEF DictionaryInv
        <3> QED BY <2>5, <3>1 DEF Added
    <2>16. DictionaryInv(n, c, d, i + 1, q)
        BY <2>13, <2>14, <2>15 DEF DictionaryInv
    <2> QED BY <2>16 DEF q
<1> HIDE DEF T
<1>7. Nat \subseteq T
    BY <1>5, <1>6, SumIs!NatInduct
<1> QED BY <1>1, <1>7 DEF T, c, run

\* The dictionary encoder: what is in the map is some of the dictionary, and
\* all of it, with code OK, if it can be carried and the global rc is OK.
LEMMA DictionaryEncodes ==
    ASSUME NEW n \in Nat, NEW d \in Own, d \in Dictionaries, NEW g \in {OK, FAIL}
    PROVE  LET r == Dictionary(New("map", MapSize), d, g)
           IN  /\ r.c \in Box(n) /\ r.c.sdt = "map" /\ r.rc \in {OK, FAIL}
               /\ DictionaryOf(r.c.names, Decs(r.c)) \in partly[d]
               /\ g = OK /\ carried[d] =>
                     /\ r.rc = OK
                     /\ DictionaryOf(r.c.names, Decs(r.c)) = whole[d]
                     /\ r.c.used <= bytes[d]
<1> DEFINE c == New("map", MapSize)
           r == Dictionary(c, d, g)
           len == Len(d.keys.vs)
<1>1. len \in Nat /\ DOMAIN d.keys.vs = 1 .. len
    BY DictionaryParts
<1>2. c \in Box(n) /\ c.sdt = "map" /\ c.fs = <<>> /\ c.room = MapSize
    BY NewBox, SizeAssumption DEF Nested
<1>3. First(Pairing(d), len) = Pairing(d)
    <2>1. Pairing(d) = [j \in 1 .. len |-> Pairing(d)[j]]
        BY <1>1 DEF Pairing
    <2> QED BY <1>1, <2>1, FirstEq
<1>4. /\ whole[d] = Unpair(Pairing(d))
      /\ \A s \in Remains(Forms(d))[len] : Unpair(s) \in partly[d]
      /\ carried[d] <=> /\ bytes[d] <= MapSize
                        /\ d.keys.t = 11
                        /\ \A i \in DOMAIN d.keys.vs : Pairing(d)[i].value # Uncarried
    BY WholeDictionary
<1>5. bytes[d] = 5 + Sum(ValueBytes(d))[len]
    BY BytesOf
<1>6. ASSUME NEW b \in Box(n), PairsIn(b) \in Remains(Forms(d))[len]
      PROVE  DictionaryOf(b.names, Decs(b)) \in partly[d]
    <2>1. Unpair(PairsIn(b)) = DictionaryOf(b.names, Decs(b))
        BY PairsInBox
    <2> QED BY <1>4, <1>6, <2>1
<1> HIDE DEF c, len
<1>7. CASE d.keys.t # 11 \/ g = FAIL
    <2>1. r = [rc |-> FAIL, c |-> c]
        BY <1>7 DEF Dictionary
    <2>2. PairsIn(c) = <<>>
        BY <1>2 DEF PairsIn
    <2>3. <<>> \in Remains(Forms(d))[len]
        <3> DEFINE T == {i \in Nat : <<>> \in Remains(Forms(d))[i]}
        <3>1. 0 \in T
            BY RemainsEq
        <3>2. ASSUME NEW i \in Nat, i \in T PROVE i + 1 \in T
            BY <3>2, RemainsStep
        <3> HIDE DEF T
        <3>3. Nat \subseteq T
            BY <3>1, <3>2, SumIs!NatInduct
        <3> QED BY <1>1, <3>3 DEF T
    <2>4. DictionaryOf(c.names, Decs(c)) \in partly[d]
        BY <1>2, <1>6, <2>2, <2>3
    <2>5. ~(g = OK /\ carried[d])
        BY <1>4, <1>7 DEF OK, FAIL
    <2> QED BY <1>2, <2>1, <2>4, <2>5 DEF OK, FAIL, c
<1>8. CASE d.keys.t = 11 /\ g = OK
    <2>1. r = DictionaryLoop(c, d, OK)[len]
        BY <1>8 DEF Dictionary, OK, FAIL, len
    <2>2. \A i \in 0 .. len : DictionaryInv(n, c, d, i, DictionaryLoop(c, d, OK)[i])
        BY <1>8, DictionaryFills DEF c, len
    <2>3. DictionaryInv(n, c, d, len, r)
        BY <1>1, <2>1, <2>2
    <2> HIDE DEF r
    <2>4. r.c \in Box(n) /\ r.c.sdt = "map" /\ r.rc \in {OK, FAIL}
        BY <1>2, <2>3 DEF DictionaryInv
    <2>5. DictionaryOf(r.c.names, Decs(r.c)) \in partly[d]
        BY <1>6, <2>3 DEF DictionaryInv
    <2>6. ASSUME carried[d]
          PROVE  /\ r.rc = OK
                 /\ DictionaryOf(r.c.names, Decs(r.c)) = whole[d]
                 /\ r.c.used <= bytes[d]
        <3>1. /\ \A j \in 1 .. len : Pairing(d)[j].value # Uncarried
              /\ 5 + Sum(ValueBytes(d))[len] <= c.room
            BY <1>1, <1>2, <1>4, <1>5, <2>6
        <3>2. r.rc = OK /\ PairsIn(r.c) = Pairing(d) /\ r.c.used <= bytes[d]
            BY <1>3, <1>5, <2>3, <3>1 DEF DictionaryInv
        <3>3. Unpair(PairsIn(r.c)) = DictionaryOf(r.c.names, Decs(r.c))
            BY <2>4, PairsInBox
        <3> QED BY <1>4, <3>2, <3>3
    <2> QED BY <2>4, <2>5, <2>6 DEF r, c
<1> QED BY <1>7, <1>8

-----------------------------------------------------------------------------
(* A list.                                                                 *)

LEMMA ListParts ==
    ASSUME NEW y \in Own, y.t = 0
    PROVE  /\ y.xs \in Seq(Own) /\ Len(y.xs) \in Nat /\ DOMAIN y.xs = 1 .. Len(y.xs)
           /\ Depth(y) \in Nat /\ Depth(y) <= MaxDepth
           /\ \A i \in DOMAIN y.xs :
                 y.xs[i] \in Own /\ Depth(y.xs[i]) \in Nat /\ Depth(y.xs[i]) < Depth(y)
<1>1. y.xs \in Seq(Own)
    <2>1. y \in Lists
        BY OwnParts
    <2> QED BY <2>1 DEF Lists
<1>2. Len(y.xs) \in Nat /\ DOMAIN y.xs = 1 .. Len(y.xs)
    BY <1>1
<1> QED BY <1>1, <1>2, OwnParts

LEMMA WholeAtom ==
    ASSUME NEW y \in Own, y.t < 0
    PROVE  /\ whole[y] = AtomArrives(y)
           /\ partly[y] = {AtomArrives(y)} \ {Uncarried}
           /\ carried[y] <=> AtomArrives(y) # Uncarried
           /\ bytes[y] = Width(-y.t)
<1>1. whole[y] = WholeDef(0, whole, y) /\ partly[y] = PartlyDef(0, partly, y)
    BY WholeEq, PartlyEq, Zenon
<1>2. carried[y] = CarriedDef(0, carried, y)
    BY CarriedEq, Zenon
<1>3. carried[y] <=> AtomArrives(y) # Uncarried
    BY <1>2, Zenon DEF CarriedDef
<1>4. whole[y] = AtomArrives(y) /\ partly[y] = {AtomArrives(y)} \ {Uncarried}
    BY <1>1, Zenon DEF WholeDef, PartlyDef
<1>5. bytes[y] = Width(-y.t)
    BY Shapes, BytesOf
<1> QED BY <1>3, <1>4, <1>5, Zenon

LEMMA WholeList ==
    ASSUME NEW y \in Own, y.t = 0
    PROVE  /\ whole[y] = ListOf(Each(whole, y.xs))
           /\ \A s \in Remains(Each(partly, y.xs))[Len(y.xs)] : ListOf(s) \in partly[y]
           /\ carried[y] <=> bytes[y] <= MapSize /\ \A i \in DOMAIN y.xs : carried[y.xs[i]]
           /\ bytes[y] = 5 + Sum(Each(bytes, y.xs))[Len(y.xs)]
<1>1. ~(y.t < 0)
    OBVIOUS
<1>2. whole[y] = WholeDef(0, whole, y) /\ partly[y] = PartlyDef(0, partly, y)
    BY WholeEq, PartlyEq, Zenon
<1>3. carried[y] = CarriedDef(0, carried, y)
    BY CarriedEq, Zenon
<1>4. carried[y] <=> bytes[y] <= MapSize /\ \A i \in DOMAIN y.xs : carried[y.xs[i]]
    BY <1>1, <1>3, Zenon DEF CarriedDef
<1>5. whole[y] = ListOf(Each(whole, y.xs))
    BY <1>1, <1>2, Zenon DEF WholeDef
<1>6. partly[y] = {ListOf(s) : s \in Remains(Each(partly, y.xs))[Len(y.xs)]}
    BY <1>1, <1>2, Zenon DEF PartlyDef
<1>7. bytes[y] = 5 + Sum(Each(bytes, y.xs))[Len(y.xs)]
    BY OwnParts, BytesOf
<1> QED BY <1>4, <1>5, <1>6, <1>7, Zenon

\* What the recursive call makes of a list.
NestedOk(y) ==
    \A g \in {OK, FAIL} :
        /\ nested[y][g].c \in Box(Depth(y)) /\ nested[y][g].c.sdt = "stream"
        /\ nested[y][g].g \in {OK, FAIL}
        /\ ListOf(Decs(nested[y][g].c)) \in partly[y]
        /\ g = OK /\ carried[y] => /\ nested[y][g].g = OK
                                   /\ ListOf(Decs(nested[y][g].c)) = whole[y]
                                   /\ nested[y][g].c.used <= bytes[y]

\* What goes into the nested container of an element.
LEMMA InsideEncodes ==
    ASSUME NEW n \in Nat, n <= MaxDepth, NEW e \in Own, ~(e.t < 0), Depth(e) < n,
           NEW g \in {OK, FAIL}, e.t = 0 => NestedOk(e)
    PROVE  LET r == Inside(nested, e, g)
           IN  /\ r.c \in Sound(n) /\ r.g \in {OK, FAIL} /\ decode[r.c] \in partly[e]
               /\ g = OK /\ carried[e] => /\ r.g = OK /\ (e.t # 0 => r.rc = OK)
                                          /\ decode[r.c] = whole[e]
                                          /\ Cost(r.c) <= bytes[e]
<1> DEFINE r == Inside(nested, e, g)
<1>1. /\ Depth(e) \in Nat /\ Depth(e) + 1 <= n /\ Depth(e) <= MaxDepth + 1
      /\ n <= MaxDepth + 2 /\ 0 + 1 <= n /\ 0 <= MaxDepth + 1
    BY OwnParts, SizeAssumption
<1>2. ASSUME NEW m \in Nat, m + 1 <= n, m <= MaxDepth + 1, NEW c \in Box(m)
      PROVE  /\ c \in Sound(n) /\ Cost(c) = c.used
             /\ decode[c] = IF c.sdt = "stream" THEN ListOf(Decs(c))
                            ELSE DictionaryOf(c.names, Decs(c))
    <2>1. /\ c \in Sound(m + 1) /\ Cost(c) = c.used
          /\ decode[c] = IF c.sdt = "stream" THEN ListOf(Decs(c))
                         ELSE DictionaryOf(c.names, Decs(c))
        BY <1>2, BoxReadable
    <2>2. Sound(m + 1) \subseteq Sound(n)
        BY <1>1, <1>2, SoundGrows
    <2> QED BY <2>1, <2>2
<1>3. CASE e.t = 0
    <2>1. r = nested[e][g]
        BY <1>3 DEF Inside
    <2> HIDE DEF r
    <2>2. /\ r.c \in Box(Depth(e)) /\ r.c.sdt = "stream"
          /\ r.g \in {OK, FAIL}
          /\ ListOf(Decs(r.c)) \in partly[e]
          /\ g = OK /\ carried[e] => /\ r.g = OK
                                     /\ ListOf(Decs(r.c)) = whole[e]
                                     /\ r.c.used <= bytes[e]
        BY <1>3, <2>1, Zenon DEF NestedOk
    <2>3. r.c \in Sound(n) /\ Cost(r.c) = r.c.used /\ decode[r.c] = ListOf(Decs(r.c))
        BY <1>1, <1>2, <2>2
    <2> QED BY <1>3, <2>2, <2>3 DEF r
<1>4. CASE e.t = 99
    <2> DEFINE v == Vector(New("map", MapSize), e, g)
    <2>1. v = Dictionary(New("map", MapSize), e, g)
        BY <1>4 DEF Vector
    <2>2. r = [rc |-> v.rc, c |-> v.c, g |-> GlobalAfter(e, v, g)]
        BY <1>4 DEF Inside
    <2>3. e \in Dictionaries
        BY <1>4, Shapes
    <2>4. /\ v.c \in Box(0) /\ v.c.sdt = "map" /\ v.rc \in {OK, FAIL}
          /\ DictionaryOf(v.c.names, Decs(v.c)) \in partly[e]
          /\ g = OK /\ carried[e] => /\ v.rc = OK
                                     /\ DictionaryOf(v.c.names, Decs(v.c)) = whole[e]
                                     /\ v.c.used <= bytes[e]
        BY <2>1, <2>3, DictionaryEncodes
    <2> HIDE DEF v
    <2>5. GlobalAfter(e, v, g) \in {v.rc, g}
        BY DEF GlobalAfter
    <2>6. /\ r.rc = v.rc /\ r.c = v.c /\ r.g \in {OK, FAIL}
          /\ g = OK /\ v.rc = OK => r.g = OK
        BY <2>2, <2>4, <2>5
    <2> HIDE DEF r
    <2>7. /\ r.c \in Sound(n) /\ Cost(r.c) = r.c.used
          /\ decode[r.c] = DictionaryOf(r.c.names, Decs(r.c))
        BY <1>1, <1>2, <2>4, <2>6
    <2> QED BY <2>4, <2>6, <2>7 DEF r
<1>5. CASE e.t # 0 /\ e.t # 99
    <2> DEFINE v == Vector(New("stream", MapSize), e, g)
    <2>1. r = [rc |-> v.rc, c |-> v.c, g |-> g]
        BY <1>5 DEF Inside, GlobalAfter
    <2>2. e \in Vectors
        BY <1>5, Shapes
    <2>3. /\ v.c \in Box(0) /\ v.c.sdt = "stream" /\ v.rc \in {OK, FAIL}
          /\ ListOf(Decs(v.c)) \in partly[e]
          /\ v.rc = OK => ListOf(Decs(v.c)) = whole[e] /\ v.c.used = bytes[e]
          /\ /\ e.t # 98 /\ \A i \in DOMAIN e.vs : Arriving(e)[i] # Uncarried
             /\ MapSize = Grows \/ bytes[e] <= MapSize
             => v.rc = OK
        BY <2>2, VectorEncodes, SizeAssumption
    <2> HIDE DEF v
    <2>4. carried[e] => v.rc = OK
        BY <2>2, <2>3, WholeVector
    <2>5. r.rc = v.rc /\ r.c = v.c /\ r.g = g
        BY <2>1
    <2> HIDE DEF r
    <2>6. r.c \in Sound(n) /\ Cost(r.c) = r.c.used /\ decode[r.c] = ListOf(Decs(r.c))
        BY <1>1, <1>2, <2>3, <2>5
    <2>7. bytes[e] <= bytes[e]
        BY BytesType
    <2> QED BY <2>3, <2>4, <2>5, <2>6, <2>7 DEF r
<1> QED BY <1>3, <1>4, <1>5

\* One round adds what may arrive of the element, or nothing; it adds all of
\* the element if that can be carried and there is room.
LEMMA RoundAdds ==
    ASSUME NEW n \in Nat, n <= MaxDepth, NEW e \in Own, Depth(e) < n,
           e.t = 0 => NestedOk(e),
           NEW r, r.c \in Box(n), r.g \in {OK, FAIL}
    PROVE  LET q == ListRound(nested, r, e)
           IN  /\ q.c \in Box(n) /\ q.c.sdt = r.c.sdt /\ q.c.room = r.c.room
               /\ q.g \in {OK, FAIL}
               /\ \/ Decs(q.c) = Decs(r.c)
                  \/ \E v \in partly[e] : Decs(q.c) = Append(Decs(r.c), v)
               /\ /\ r.g = OK /\ carried[e]
                  /\ r.c.room = Grows \/ r.c.used + bytes[e] <= r.c.room
                  => /\ q.g = OK /\ q.rc = OK
                     /\ Decs(q.c) = Append(Decs(r.c), whole[e])
                     /\ q.c.used <= r.c.used + bytes[e]
<1> DEFINE q == ListRound(nested, r, e)
<1>1. r.c.used \in Nat /\ r.c.room \in Int /\ bytes[e] \in Nat
    BY BytesType DEF Box, Container
<1>2. CASE e.t < 0
    <2> DEFINE a == Atom(r.c, 0, e)
    <2>1. q = [rc |-> a.rc, c |-> a.c, g |-> r.g]
        BY <1>2 DEF ListRound
    <2>2. \A name \in Int :
              Added(n, r.c, name, AtomArrives(e), Width(-e.t), AtomArrives(e) # Uncarried,
                    Atom(r.c, name, e))
        BY AtomAdds
    <2>3. Added(n, r.c, 0, AtomArrives(e), Width(-e.t), AtomArrives(e) # Uncarried, a)
        <3>1. 0 \in Int
            OBVIOUS
        <3> QED BY <2>2, <3>1, Zenon
    <2>4. /\ whole[e] = AtomArrives(e)
          /\ partly[e] = {AtomArrives(e)} \ {Uncarried}
          /\ carried[e] <=> AtomArrives(e) # Uncarried
          /\ bytes[e] = Width(-e.t)
        BY <1>2, WholeAtom
    <2> HIDE DEF a
    <2>5. q.rc = a.rc /\ q.c = a.c /\ q.g = r.g
        BY <2>1
    <2> HIDE DEF q
    <2>6. /\ a.c \in Box(n) /\ a.c.sdt = r.c.sdt /\ a.c.room = r.c.room
          /\ a.rc \in {OK, FAIL}
          /\ a.rc = FAIL => a.c = r.c
          /\ a.rc = OK => /\ AtomArrives(e) # Uncarried
                          /\ Decs(a.c) = Append(Decs(r.c), AtomArrives(e))
                          /\ a.c.used = r.c.used + Width(-e.t) + 0
          /\ /\ AtomArrives(e) # Uncarried
             /\ r.c.room = Grows \/ r.c.used + Width(-e.t) + 0 <= r.c.room
             => a.rc = OK
        BY <2>3 DEF Added, NameRoom
    <2>7. \/ Decs(q.c) = Decs(r.c)
          \/ \E v \in partly[e] : Decs(q.c) = Append(Decs(r.c), v)
        BY <2>4, <2>5, <2>6
    <2>8. ASSUME carried[e], r.c.room = Grows \/ r.c.used + bytes[e] <= r.c.room
          PROVE  /\ q.rc = OK /\ Decs(q.c) = Append(Decs(r.c), whole[e])
                 /\ q.c.used <= r.c.used + bytes[e]
        <3>1. r.c.used + Width(-e.t) + 0 = r.c.used + bytes[e]
            BY <1>1, <2>4
        <3>2. a.rc = OK
            BY <2>4, <2>6, <2>8, <3>1
        <3>3. q.c.used = r.c.used + bytes[e] /\ r.c.used + bytes[e] \in Nat
            BY <1>1, <2>5, <2>6, <3>1, <3>2
        <3> QED BY <2>4, <2>5, <2>6, <3>2, <3>3
    <2> QED BY <2>5, <2>6, <2>7, <2>8 DEF q
<1>3. CASE ~(e.t < 0)
    <2> DEFINE inner == Inside(nested, e, r.g)
               add == Put(r.c, 0, inner.c)
    <2>1. q = [rc |-> IF e.t = 0 THEN add.rc ELSE inner.rc + add.rc,
               c |-> add.c, g |-> inner.g]
        BY <1>3 DEF ListRound
    <2>2. /\ inner.c \in Sound(n) /\ inner.g \in {OK, FAIL} /\ decode[inner.c] \in partly[e]
          /\ r.g = OK /\ carried[e] => /\ inner.g = OK /\ (e.t # 0 => inner.rc = OK)
                                       /\ decode[inner.c] = whole[e]
                                       /\ Cost(inner.c) <= bytes[e]
        BY <1>3, InsideEncodes
    <2> HIDE DEF inner
    <2>3. \A name \in Int :
              Added(n, r.c, name, decode[inner.c], Cost(inner.c), TRUE, Put(r.c, name, inner.c))
        BY <2>2, PutAdds
    <2>4. Added(n, r.c, 0, decode[inner.c], Cost(inner.c), TRUE, add)
        <3>1. 0 \in Int
            OBVIOUS
        <3> QED BY <2>3, <3>1, Zenon
    <2>5. Cost(inner.c) \in Nat
        BY <2>2, CostType DEF Sound
    <2> HIDE DEF add
    <2>6. /\ q.rc = IF e.t = 0 THEN add.rc ELSE inner.rc + add.rc
          /\ q.c = add.c /\ q.g = inner.g
        BY <2>1
    <2> HIDE DEF q
    <2>7. /\ add.c \in Box(n) /\ add.c.sdt = r.c.sdt /\ add.c.room = r.c.room
          /\ add.rc \in {OK, FAIL}
          /\ add.rc = FAIL => add.c = r.c
          /\ add.rc = OK => /\ Decs(add.c) = Append(Decs(r.c), decode[inner.c])
                            /\ add.c.used = r.c.used + Cost(inner.c) + 0
          /\ r.c.room = Grows \/ r.c.used + Cost(inner.c) + 0 <= r.c.room => add.rc = OK
        BY <2>4 DEF Added, NameRoom
    <2>8. \/ Decs(q.c) = Decs(r.c)
          \/ \E v \in partly[e] : Decs(q.c) = Append(Decs(r.c), v)
        BY <2>2, <2>6, <2>7
    <2>9. ASSUME r.g = OK, carried[e], r.c.room = Grows \/ r.c.used + bytes[e] <= r.c.room
          PROVE  /\ q.g = OK /\ q.rc = OK /\ Decs(q.c) = Append(Decs(r.c), whole[e])
                 /\ q.c.used <= r.c.used + bytes[e]
        <3>1. /\ inner.g = OK /\ (e.t # 0 => inner.rc = OK)
              /\ decode[inner.c] = whole[e]
              /\ Cost(inner.c) <= bytes[e]
            BY <2>2, <2>9
        <3>2. r.c.used + Cost(inner.c) + 0 <= r.c.used + bytes[e]
            BY <1>1, <2>5, <3>1
        <3>3. r.c.room = Grows \/ r.c.used + Cost(inner.c) + 0 <= r.c.room
            <4>1. ASSUME NEW u \in Nat, NEW v \in Nat, NEW z \in Int, u <= v, v <= z
                  PROVE  u <= z
                BY <4>1
            <4>2. r.c.used + Cost(inner.c) + 0 \in Nat /\ r.c.used + bytes[e] \in Nat
                BY <1>1, <2>5
            <4> QED BY <1>1, <2>9, <3>2, <4>1, <4>2
        <3>4. add.rc = OK
            BY <2>7, <3>3
        <3>5. q.rc = OK
            BY <2>6, <3>1, <3>4 DEF OK
        <3> QED BY <2>6, <2>7, <3>1, <3>2, <3>4, <3>5
    <2> QED BY <2>2, <2>6, <2>7, <2>8, <2>9 DEF q
<1> QED BY <1>2, <1>3

\* After i rounds the container holds parts of the first i elements, in their
\* order, and all of them if all can be carried and there is room.
ListInv(c, y, g, i, r) ==
    /\ r.c \in Box(Depth(y)) /\ r.c.sdt = c.sdt /\ r.c.room = c.room /\ r.g \in {OK, FAIL}
    /\ Decs(r.c) \in Remains(Each(partly, y.xs))[i]
    /\ /\ g = OK /\ \A j \in 1 .. i : carried[y.xs[j]]
       /\ c.room = Grows \/ 5 + Sum(Each(bytes, y.xs))[i] <= c.room
       => /\ r.g = OK /\ (i > 0 => r.rc = OK)
          /\ Decs(r.c) = First(Each(whole, y.xs), i)
          /\ r.c.used <= 5 + Sum(Each(bytes, y.xs))[i]

LEMMA ListFills ==
    ASSUME NEW y \in Own, y.t = 0, NEW room \in Int, NEW g \in {OK, FAIL},
           \A i \in DOMAIN y.xs : y.xs[i].t = 0 => NestedOk(y.xs[i])
    PROVE  LET c == New("stream", room)
           IN  \A i \in 0 .. Len(y.xs) : ListInv(c, y, g, i, ListLoop(nested, c, y, g)[i])
<1> DEFINE c == New("stream", room)
           run == ListLoop(nested, c, y, g)
           len == Len(y.xs)
           sum == Sum(Each(bytes, y.xs))
           T == {i \in Nat : i <= len => ListInv(c, y, g, i, run[i])}
<1>1. /\ len \in Nat /\ DOMAIN y.xs = 1 .. len /\ Depth(y) \in Nat /\ Depth(y) <= MaxDepth
      /\ \A i \in DOMAIN y.xs : y.xs[i] \in Own /\ Depth(y.xs[i]) < Depth(y)
    BY ListParts
<1>2. /\ c \in Box(Depth(y)) /\ Decs(c) = <<>> /\ c.used = 5 /\ c.room = room
    BY <1>1, NewBox DEF Nested
<1>3. /\ run[0] = [rc |-> FAIL, c |-> c, g |-> g]
      /\ \A i \in Nat : run[i + 1] = ListRound(nested, run[i], y.xs[i + 1])
    BY ListEq
<1>4. \A i \in 0 .. len : sum[i] \in Nat
    <2>1. \A i \in 1 .. len : Each(bytes, y.xs)[i] \in Nat
        BY <1>1, BytesType DEF Each
    <2> HIDE DEF len
    <2> QED BY <1>1, <2>1, SumGrows
<1>5. sum[0] = 0 /\ \A i \in Nat : sum[i + 1] = sum[i] + Each(bytes, y.xs)[i + 1]
    BY SumEq
<1> HIDE DEF c, run, sum
<1>6. 0 \in T
    <2>1. First(Each(whole, y.xs), 0) = <<>> /\ Remains(Each(partly, y.xs))[0] = {<<>>}
        BY FirstEq, RemainsEq
    <2>2. run[0].c = c /\ run[0].g = g
        BY <1>3
    <2>3. Decs(run[0].c) \in Remains(Each(partly, y.xs))[0]
        BY <1>2, <2>1, <2>2
    <2>4. /\ Decs(run[0].c) = First(Each(whole, y.xs), 0)
          /\ run[0].c.used <= 5 + Sum(Each(bytes, y.xs))[0]
        BY <1>2, <1>5, <2>1, <2>2 DEF sum
    <2>5. ListInv(c, y, g, 0, run[0])
        BY <1>2, <2>2, <2>3, <2>4 DEF ListInv
    <2> QED BY <2>5
<1>7. ASSUME NEW i \in Nat, i \in T PROVE i + 1 \in T
    <2> SUFFICES ASSUME i + 1 <= len PROVE ListInv(c, y, g, i + 1, run[i + 1])
        OBVIOUS
    <2> DEFINE r == run[i]
               q == run[i + 1]
               e == y.xs[i + 1]
    <2>1. ListInv(c, y, g, i, r)
        BY <1>7
    <2>2. i + 1 \in DOMAIN y.xs
        BY <1>1
    <2>3. e \in Own /\ Depth(e) < Depth(y) /\ (e.t = 0 => NestedOk(e))
        BY <1>1, <2>2
    <2>4. q = ListRound(nested, r, e)
        BY <1>3
    <2>5. /\ Each(partly, y.xs)[i + 1] = partly[e] /\ Each(whole, y.xs)[i + 1] = whole[e]
          /\ Each(bytes, y.xs)[i + 1] = bytes[e]
        BY <2>2 DEF Each
    <2>6. /\ sum[i + 1] = sum[i] + bytes[e] /\ sum[i] \in Nat /\ sum[i + 1] \in Nat
          /\ bytes[e] \in Nat
        <3>1. i \in 0 .. len /\ i + 1 \in 0 .. len
            BY <1>1
        <3>2. sum[i] \in Nat /\ sum[i + 1] \in Nat
            BY <1>4, <3>1
        <3>3. sum[i + 1] = sum[i] + Each(bytes, y.xs)[i + 1]
            BY <1>5
        <3>4. bytes[e] \in Nat
            BY <2>3, BytesType
        <3> HIDE DEF e
        <3> QED BY <2>5, <3>2, <3>3, <3>4
    <2>7. e = y.xs[i + 1]
        OBVIOUS
    <2> HIDE DEF r, q, e
    <2>8. r.c \in Box(Depth(y)) /\ r.c.sdt = c.sdt /\ r.c.room = c.room /\ r.g \in {OK, FAIL}
          /\ r.c.used \in Nat
        BY <2>1 DEF ListInv, Box, Container
    <2>9. /\ q.c \in Box(Depth(y)) /\ q.c.sdt = r.c.sdt /\ q.c.room = r.c.room
          /\ q.g \in {OK, FAIL}
          /\ \/ Decs(q.c) = Decs(r.c)
             \/ \E v \in partly[e] : Decs(q.c) = Append(Decs(r.c), v)
          /\ /\ r.g = OK /\ carried[e]
             /\ r.c.room = Grows \/ r.c.used + bytes[e] <= r.c.room
             => /\ q.g = OK /\ q.rc = OK
                /\ Decs(q.c) = Append(Decs(r.c), whole[e])
                /\ q.c.used <= r.c.used + bytes[e]
        BY <1>1, <2>3, <2>4, <2>8, RoundAdds
    <2>10. Decs(q.c) \in Remains(Each(partly, y.xs))[i + 1]
        <3>1. Decs(r.c) \in Remains(Each(partly, y.xs))[i]
            BY <2>1 DEF ListInv
        <3>2. /\ Decs(r.c) \in Remains(Each(partly, y.xs))[i + 1]
              /\ \A v \in partly[e] : Append(Decs(r.c), v) \in Remains(Each(partly, y.xs))[i + 1]
            BY <2>5, <3>1, RemainsStep
        <3> QED BY <2>9, <3>2
    <2>11. ASSUME g = OK, \A j \in 1 .. i + 1 : carried[y.xs[j]],
                  c.room = Grows \/ 5 + sum[i + 1] <= c.room
           PROVE  /\ q.g = OK /\ q.rc = OK
                  /\ Decs(q.c) = First(Each(whole, y.xs), i + 1)
                  /\ q.c.used <= 5 + sum[i + 1]
        <3>1. \A j \in 1 .. i : carried[y.xs[j]]
            BY <2>11
        <3>2. carried[e]
            <4>1. i + 1 \in 1 .. i + 1
                OBVIOUS
            <4> QED BY <2>7, <2>11, <4>1
        <3>3. c.room \in Int /\ (c.room = Grows \/ 5 + sum[i] <= c.room)
            BY <1>2, <2>6, <2>11
        <3>4. /\ r.g = OK
              /\ Decs(r.c) = First(Each(whole, y.xs), i)
              /\ r.c.used <= 5 + sum[i]
            BY <2>1, <2>11, <3>1, <3>3 DEF ListInv, sum
        <3>5. r.c.used + bytes[e] <= 5 + sum[i + 1] /\ r.c.used + bytes[e] \in Nat
            <4>1. ASSUME NEW u \in Nat, NEW v \in Nat, NEW z \in Nat, u <= 5 + z
                  PROVE  u + v <= 5 + (z + v) /\ u + v \in Nat
                BY <4>1
            <4> QED BY <2>6, <2>8, <3>4, <4>1
        <3>6. r.c.room = Grows \/ r.c.used + bytes[e] <= r.c.room
            <4>1. ASSUME NEW u \in Nat, NEW v \in Nat, NEW z \in Int, u <= 5 + v, 5 + v <= z
                  PROVE  u <= z
                BY <4>1
            <4> QED BY <2>6, <2>8, <2>11, <3>3, <3>5, <4>1
        <3>7. /\ q.g = OK /\ q.rc = OK
              /\ Decs(q.c) = Append(Decs(r.c), whole[e])
              /\ q.c.used <= r.c.used + bytes[e]
            BY <2>9, <3>2, <3>4, <3>6
        <3>8. First(Each(whole, y.xs), i + 1)
              = Append(First(Each(whole, y.xs), i), Each(whole, y.xs)[i + 1])
            BY FirstEq
        <3>9. q.c.used <= 5 + sum[i + 1]
            <4>1. q.c.used \in Nat
                BY <2>9 DEF Box, Container
            <4>2. ASSUME NEW u \in Nat, NEW v \in Nat, NEW z \in Nat, u <= v, v <= 5 + z
                  PROVE  u <= 5 + z
                BY <4>2
            <4> QED BY <2>6, <3>5, <3>7, <4>1, <4>2
        <3> QED BY <2>5, <3>4, <3>7, <3>8, <3>9
    <2>12. ListInv(c, y, g, i + 1, q)
        BY <2>8, <2>9, <2>10, <2>11 DEF ListInv, sum
    <2> QED BY <2>12 DEF q
<1> HIDE DEF T
<1>8. Nat \subseteq T
    BY <1>6, <1>7, SumIs!NatInduct
<1> QED BY <1>1, <1>8 DEF T, c, run

\* A list inside a list.
LEMMA NestedEncodes == \A y \in OwnLists : NestedOk(y)
<1> DEFINE T == {y \in OwnLists : NestedOk(y)}
           rank == [y \in OwnLists |-> Depth(y)]
<1>1. \A y \in OwnLists : rank[y] \in Nat
    BY OwnParts DEF OwnLists
<1>2. ASSUME NEW y \in OwnLists, \A z \in OwnLists : rank[z] < rank[y] => z \in T
      PROVE  NestedOk(y)
    <2>1. y \in Own /\ y.t = 0
        BY DEF OwnLists
    <2>2. Len(y.xs) \in Nat /\ DOMAIN y.xs = 1 .. Len(y.xs)
        BY <2>1, ListParts
    <2>3. \A i \in DOMAIN y.xs : y.xs[i].t = 0 => NestedOk(y.xs[i])
        BY <1>2, <2>1, ListParts DEF OwnLists
    <2> SUFFICES ASSUME NEW g \in {OK, FAIL}
                 PROVE  /\ nested[y][g].c \in Box(Depth(y)) /\ nested[y][g].c.sdt = "stream"
                        /\ nested[y][g].g \in {OK, FAIL}
                        /\ ListOf(Decs(nested[y][g].c)) \in partly[y]
                        /\ g = OK /\ carried[y] =>
                              /\ nested[y][g].g = OK
                              /\ ListOf(Decs(nested[y][g].c)) = whole[y]
                              /\ nested[y][g].c.used <= bytes[y]
        BY DEF NestedOk
    <2> DEFINE c == New("stream", MapSize)
               r == ListLoop(nested, c, y, g)[Len(y.xs)]
    <2>4. nested[y][g] = r
        BY NestedEq DEF NestedDef
    <2>5. \A i \in 0 .. Len(y.xs) : ListInv(c, y, g, i, ListLoop(nested, c, y, g)[i])
        BY <2>1, <2>3, ListFills, SizeAssumption
    <2>6. c.sdt = "stream" /\ c.room = MapSize
        BY DEF New
    <2> HIDE DEF c
    <2>7. ListInv(c, y, g, Len(y.xs), r)
        BY <2>2, <2>5
    <2> HIDE DEF r
    <2>8. /\ whole[y] = ListOf(Each(whole, y.xs))
          /\ \A s \in Remains(Each(partly, y.xs))[Len(y.xs)] : ListOf(s) \in partly[y]
          /\ carried[y] <=> bytes[y] <= MapSize /\ \A i \in DOMAIN y.xs : carried[y.xs[i]]
          /\ bytes[y] = 5 + Sum(Each(bytes, y.xs))[Len(y.xs)]
        BY <2>1, WholeList
    <2>9. First(Each(whole, y.xs), Len(y.xs)) = Each(whole, y.xs)
        <3>1. Each(whole, y.xs) = [j \in 1 .. Len(y.xs) |-> Each(whole, y.xs)[j]]
            BY <2>2 DEF Each
        <3> QED BY <2>2, <3>1, FirstEq
    <2>10. /\ r.c \in Box(Depth(y)) /\ r.c.sdt = "stream" /\ r.g \in {OK, FAIL}
           /\ ListOf(Decs(r.c)) \in partly[y]
        BY <2>6, <2>7, <2>8 DEF ListInv
    <2>11. ASSUME g = OK, carried[y]
           PROVE  r.g = OK /\ ListOf(Decs(r.c)) = whole[y] /\ r.c.used <= bytes[y]
        <3>1. /\ \A j \in 1 .. Len(y.xs) : carried[y.xs[j]]
              /\ 5 + Sum(Each(bytes, y.xs))[Len(y.xs)] <= c.room
            BY <2>2, <2>6, <2>8, <2>11
        <3> QED BY <2>7, <2>8, <2>9, <2>11, <3>1 DEF ListInv
    <2> QED BY <2>4, <2>10, <2>11
<1> HIDE DEF rank
<1>3. \A y \in OwnLists : (\A z \in OwnLists : rank[z] < rank[y] => z \in T) => y \in T
    BY <1>2
<1> HIDE DEF T
<1>4. OwnLists \subseteq T
    BY <1>1, <1>3, SumIs!Induction
<1> QED BY <1>4 DEF T

-----------------------------------------------------------------------------
(* The encoder and the decoder.                                            *)

\* The encoder: a stream that can be read; if its code is OK, it holds parts of
\* the object, and all of it if that can be carried, in which case the code is
\* OK.
LEMMA Encodes ==
    ASSUME NEW y \in Published
    PROVE  /\ Encode(y).c \in Box(MaxDepth + 1) /\ Encode(y).c.sdt = "stream"
           /\ Encode(y).rc = OK => ListOf(Decs(Encode(y).c)) \in Partial(y)
           /\ Carried(y) =>
                 Encode(y).rc = OK /\ ListOf(Decs(Encode(y).c)) = Payload(y)
           /\ y.t \in 1 .. 19 /\ Encode(y).rc = OK =>
                 ListOf(Decs(Encode(y).c)) = Payload(y)
<1> DEFINE top == New("stream", Grows)
           e == Encode(y)
<1>1. y \in Own /\ ~(y.t < 0)
    <2>1. y \in Own /\ y.t >= 0
        BY DEF Published
    <2> QED BY <2>1, Shapes DEF Atoms, Lists, Dictionaries, Vectors
<1>2. MaxDepth + 1 \in Nat /\ Grows \in Int
    BY SizeAssumption DEF Grows
<1>3. CASE y.t = 99
    <2> DEFINE inner == Dictionary(New("map", MapSize), y, OK)
               add == Put(top, 0, inner.c)
    <2>1. y \in Dictionaries
        BY <1>1, <1>3, Shapes
    <2>2. /\ inner.c \in Box(0) /\ inner.c.sdt = "map" /\ inner.rc \in {OK, FAIL}
          /\ DictionaryOf(inner.c.names, Decs(inner.c)) \in partly[y]
          /\ carried[y] =>
                /\ inner.rc = OK
                /\ DictionaryOf(inner.c.names, Decs(inner.c)) = whole[y]
        BY <1>1, <2>1, DictionaryEncodes
    <2>3. top \in Box(MaxDepth + 1) /\ top.sdt = "stream" /\ top.room = Grows /\ Decs(top) = <<>>
        BY <1>2, NewBox DEF Nested
    <2>4. e = [rc |-> inner.rc + add.rc, c |-> add.c]
        BY <1>3 DEF Encode
    <2> HIDE DEF top, inner
    <2>5. /\ inner.c \in Sound(MaxDepth + 1)
          /\ decode[inner.c] = DictionaryOf(inner.c.names, Decs(inner.c))
        <3>1. /\ inner.c \in Sound(0 + 1)
              /\ decode[inner.c] = DictionaryOf(inner.c.names, Decs(inner.c))
            BY <2>2, BoxReadable, SizeAssumption
        <3>2. Sound(0 + 1) \subseteq Sound(MaxDepth + 1)
            BY <1>2, SoundGrows, SizeAssumption
        <3> QED BY <3>1, <3>2
    <2>6. Added(MaxDepth + 1, top, 0, decode[inner.c], Cost(inner.c), TRUE, add)
        <3>1. \A name \in Int :
                  Added(MaxDepth + 1, top, name, decode[inner.c], Cost(inner.c), TRUE,
                        Put(top, name, inner.c))
            BY <1>2, <2>3, <2>5, PutAdds
        <3>2. 0 \in Int
            OBVIOUS
        <3> QED BY <3>1, <3>2, Zenon
    <2> HIDE DEF add
    <2>7. /\ add.c \in Box(MaxDepth + 1) /\ add.c.sdt = "stream" /\ add.rc = OK
          /\ Decs(add.c) = Append(<<>>, decode[inner.c])
        BY <2>3, <2>6 DEF Added
    <2>8. ListOf(Decs(add.c)) = ListOf(<<decode[inner.c]>>)
        BY <2>7
    <2>9. e.rc = inner.rc /\ e.c = add.c
        BY <2>2, <2>4, <2>7 DEF OK, FAIL
    <2>10. Payload(y) = ListOf(<<whole[y]>>) /\ Partial(y) = {ListOf(<<k>>) : k \in partly[y]}
           /\ (Carried(y) <=> carried[y])
        BY <1>3 DEF Payload, Partial, Carried
    <2> HIDE DEF e
    <2> QED BY <1>3, <2>2, <2>5, <2>7, <2>8, <2>9, <2>10 DEF e
<1>4. CASE y.t = 0
    <2> DEFINE r == ListLoop(nested, top, y, OK)[Len(y.xs)]
    <2>1. Len(y.xs) \in Nat /\ DOMAIN y.xs = 1 .. Len(y.xs) /\ Depth(y) \in Nat
          /\ Depth(y) <= MaxDepth /\ y.xs \in Seq(Own)
        BY <1>1, <1>4, ListParts
    <2>2. \A i \in DOMAIN y.xs : y.xs[i].t = 0 => NestedOk(y.xs[i])
        BY <1>1, <1>4, ListParts, NestedEncodes DEF OwnLists
    <2>3. \A i \in 0 .. Len(y.xs) : ListInv(top, y, OK, i, ListLoop(nested, top, y, OK)[i])
        BY <1>1, <1>2, <1>4, <2>2, ListFills
    <2>4. ListInv(top, y, OK, Len(y.xs), r)
        BY <2>1, <2>3
    <2>5. e = [rc |-> r.rc, c |-> r.c]
        BY <1>4 DEF Encode
    <2>6. top.sdt = "stream" /\ top.room = Grows
        BY DEF New
    <2> HIDE DEF top, r
    <2>7. /\ whole[y] = ListOf(Each(whole, y.xs))
          /\ \A s \in Remains(Each(partly, y.xs))[Len(y.xs)] : ListOf(s) \in partly[y]
        BY <1>1, <1>4, WholeList
    <2>8. First(Each(whole, y.xs), Len(y.xs)) = Each(whole, y.xs)
        <3>1. Each(whole, y.xs) = [j \in 1 .. Len(y.xs) |-> Each(whole, y.xs)[j]]
            BY <2>1 DEF Each
        <3> QED BY <2>1, <3>1, FirstEq
    <2>9. r.c \in Box(MaxDepth + 1) /\ r.c.sdt = "stream"
          /\ ListOf(Decs(r.c)) \in partly[y]
        <3>1. Box(Depth(y)) \subseteq Box(MaxDepth + 1)
            <4>1. fields[Depth(y)] \subseteq fields[MaxDepth + 1]
                  /\ Sound(Depth(y)) \subseteq Sound(MaxDepth + 1)
                BY <1>2, <2>1, FieldsGrow, SoundGrows, SizeAssumption
            <4>2. Seq(fields[Depth(y)]) \subseteq Seq(fields[MaxDepth + 1])
                  /\ Seq(Sound(Depth(y))) \subseteq Seq(Sound(MaxDepth + 1))
                BY <4>1
            <4>3. Container(Depth(y)) \subseteq Container(MaxDepth + 1)
                BY <4>2 DEF Container
            <4> QED BY <4>2, <4>3 DEF Box
        <3> QED BY <2>4, <2>6, <2>7, <3>1 DEF ListInv
    <2>10. ASSUME Carried(y) PROVE r.rc = OK /\ ListOf(Decs(r.c)) = whole[y]
        <3>1. y.xs # <<>> /\ \A i \in 1 .. Len(y.xs) : carried[y.xs[i]]
            BY <1>4, <2>1, <2>10 DEF Carried
        <3>2. Len(y.xs) > 0
            BY <2>1, <3>1
        <3>3. r.rc = OK /\ Decs(r.c) = First(Each(whole, y.xs), Len(y.xs))
            BY <2>4, <2>6, <3>1, <3>2 DEF ListInv
        <3> QED BY <2>7, <2>8, <3>3
    <2>11. Payload(y) = whole[y] /\ Partial(y) = partly[y] /\ e.rc = r.rc /\ e.c = r.c
        BY <1>4, <2>5 DEF Payload, Partial
    <2> HIDE DEF e
    <2> QED BY <1>4, <2>9, <2>10, <2>11 DEF e
<1>5. CASE y.t # 0 /\ y.t # 99
    <2>1. y \in Vectors
        BY <1>1, <1>5, Shapes
    <2>2. e = Vector(top, y, OK)
        BY <1>5 DEF Encode
    <2>3. /\ e.c \in Box(MaxDepth + 1) /\ e.c.sdt = "stream"
          /\ ListOf(Decs(e.c)) \in partly[y]
          /\ e.rc = OK => ListOf(Decs(e.c)) = whole[y]
          /\ y.t # 98 /\ (\A i \in DOMAIN y.vs : Arriving(y)[i] # Uncarried) => e.rc = OK
        BY <1>1, <1>2, <2>1, <2>2, VectorEncodes
    <2>4. Payload(y) = whole[y] /\ Partial(y) = partly[y]
        BY <1>5 DEF Payload, Partial
    <2>5. Carried(y) => y.t # 98 /\ \A i \in DOMAIN y.vs : Arriving(y)[i] # Uncarried
        BY <1>5 DEF Carried, Arriving
    <2> HIDE DEF e
    <2> QED BY <1>5, <2>3, <2>4, <2>5 DEF e
<1> QED BY <1>3, <1>4, <1>5

\* A field that holds integers of the exact types only is decoded to them.
LEMMA ExactDecoded ==
    \A f \in Fields : exact[f] =>
        decode[f] = plain[f] /\ ~hollow[f] /\ decode[f] # NullPtr /\ f.sdt \notin NoCase
<1> DEFINE Good(f) == decode[f] = plain[f] /\ ~hollow[f] /\ decode[f] # NullPtr
                      /\ f.sdt \notin NoCase
           T == {f \in Fields : exact[f] => Good(f)}
           rank == [f \in Fields |-> FieldRank(f)]
<1>1. \A f \in Fields : rank[f] \in Nat
    BY FieldRanks
<1>2. ASSUME NEW f \in Fields, \A z \in Fields : rank[z] < rank[f] => z \in T, exact[f]
      PROVE  Good(f)
    <2>1. decode[f] = DecodeDef(0, decode, f) /\ plain[f] = PlainDef(0, plain, f)
        BY DecodeEq, PlainEq
    <2>2. exact[f] = ExactDef(0, exact, f) /\ hollow[f] = HollowDef(0, hollow, f)
        BY ExactEq, HollowEq, Zenon
    <2>3. CASE f.sdt \in Nested
        <3>1. ExactDef(0, exact, f) <=> \A i \in DOMAIN f.fs : exact[f.fs[i]]
            BY <2>3, Zenon DEF ExactDef
        <3>2. HollowDef(0, hollow, f) <=> \E i \in DOMAIN f.fs : hollow[f.fs[i]]
            BY <2>3, Zenon DEF HollowDef
        <3>3. \A i \in DOMAIN f.fs : exact[f.fs[i]]
            BY <1>2, <2>2, <3>1, Zenon
        <3>4. \A i \in DOMAIN f.fs : f.fs[i] \in Fields /\ rank[f.fs[i]] < rank[f]
            BY <2>3, FieldRanks
        <3>5. \A i \in DOMAIN f.fs : f.fs[i] \in T
            BY <1>2, <3>4
        <3>6. \A i \in DOMAIN f.fs : decode[f.fs[i]] = plain[f.fs[i]] /\ ~hollow[f.fs[i]]
            BY <3>3, <3>5
        <3>7. ~hollow[f]
            BY <2>2, <3>2, <3>6, Zenon
        <3>8. Each(decode, f.fs) = Each(plain, f.fs)
            BY <3>6 DEF Each
        <3>9. decode[f] = plain[f]
            BY <2>1, <2>3, <3>8 DEF DecodeDef, PlainDef, DecodedTypes, Nested, ListOf,
                                    DictionaryOf
        <3>10. decode[f] # NullPtr
            BY <2>1, <2>3 DEF DecodeDef, DecodedTypes, Nested, NullPtr
        <3> QED BY <2>3, <3>7, <3>9, <3>10 DEF Nested, NoCase
    <2>4. CASE f.sdt \notin Nested
        <3>1. f.sdt \in DOMAIN ExactTypes
            BY <1>2, <2>2, <2>4, Zenon DEF ExactDef
        <3>2. f.sdt \in {"bool", "int8", "uint8", "int16", "uint16", "int32", "int64"}
            BY <3>1 DEF ExactTypes
        <3>3. decode[f] = [t |-> DecodedTypes[f.sdt], v |-> DecodedValue(f.sdt, f.v)]
            BY <2>1, <3>2 DEF DecodeDef, DecodedTypes
        <3>4. DecodedTypes[f.sdt] = ExactTypes[f.sdt] /\ DecodedTypes[f.sdt] # 1000
            BY <3>2 DEF DecodedTypes, ExactTypes
        <3>5. DecodedValue(f.sdt, f.v) = f.v
            BY <3>2 DEF DecodedValue
        <3>6. plain[f] = [t |-> ExactTypes[f.sdt], v |-> f.v]
            BY <2>1, <3>2 DEF PlainDef
        <3>7. decode[f] = plain[f] /\ decode[f] # NullPtr
            BY <3>3, <3>4, <3>5, <3>6 DEF NullPtr
        <3>8. ~hollow[f]
            BY <2>2, <2>4, <3>7, Zenon DEF HollowDef
        <3> QED BY <3>2, <3>7, <3>8 DEF NoCase
    <2> QED BY <2>3, <2>4
<1> HIDE DEF rank, Good
<1>3. \A f \in Fields : (\A z \in Fields : rank[z] < rank[f] => z \in T) => f \in T
    BY <1>2
<1> HIDE DEF T
<1>4. Fields \subseteq T
    BY <1>1, <1>3, SumIs!Induction
<1> QED BY <1>4 DEF T, Good

-----------------------------------------------------------------------------
(* The theorems.                                                           *)

\* IInv is inductive: a step keeps it, whatever the objects and messages are.
THEOREM Invariance == Spec => []IInv
<1>1. Init => IInv
    BY DEF Init, IInv, OwnInv, ForeignInv
<1>2. IInv /\ [Next]_vars => IInv'
    <2> SUFFICES ASSUME OwnInv, ForeignInv, [Next]_vars PROVE OwnInv' /\ ForeignInv'
        BY DEF IInv
    <2>1. CASE Publish
        <3>1. CASE Encode(x).rc = OK
            BY <2>1, <3>1 DEF Publish, OwnInv, ForeignInv
        <3>2. CASE Encode(x).rc # OK
            BY <2>1, <3>2 DEF Publish, OwnInv, ForeignInv
        <3> QED BY <3>1, <3>2
    <2>2. CASE Others
        BY <2>2 DEF Others, OwnInv, ForeignInv
    <2>3. CASE Receive
        <3>1. CASE own
            <4>1. x \in Published /\ Encode(x).rc = OK /\ wire = Encode(x).c
                BY <2>3, <3>1 DEF Receive, OwnInv
            <4>2. wire \in Box(MaxDepth + 1) /\ wire.sdt = "stream"
                BY <4>1, Encodes
            <4>3. decode[wire] = ListOf(Decs(wire)) /\ ~hollow[wire]
                BY <4>2, BoxReadable, SizeAssumption DEF Sound
            <4>4. Decoded(wire) = {decode[wire]} /\ decode[wire] # NullPtr
                BY <4>2, <4>3 DEF Decoded, Raw, NoCase, ListOf, NullPtr
            <4>5. pc' = "got" /\ got' = decode[wire]
                BY <2>3, <4>3, <4>4 DEF Receive
            <4> QED BY <2>3, <3>1, <4>1, <4>5 DEF Receive, OwnInv, ForeignInv
        <3>2. CASE ~own
            <4>1. wire = x /\ x \in Foreign
                BY <2>3, <3>2 DEF Receive, ForeignInv
            <4>2. ASSUME x # Raw, exact[x] PROVE pc' = "got" /\ got' = decode[wire]
                <5>1. x \in Fields
                    BY <4>1, <4>2, ForeignAssumption
                <5>2. ~hollow[wire] /\ decode[wire] # NullPtr /\ wire.sdt \notin NoCase
                    BY <4>1, <4>2, <5>1, ExactDecoded
                <5>3. Decoded(wire) = {decode[wire]}
                    BY <4>1, <4>2, <5>2 DEF Decoded
                <5> QED BY <2>3, <5>2, <5>3 DEF Receive
            <4> QED BY <2>3, <3>2, <4>1, <4>2 DEF Receive, OwnInv, ForeignInv
        <3> QED BY <3>1, <3>2
    <2>4. CASE UNCHANGED vars
        BY <2>4 DEF vars, OwnInv, ForeignInv
    <2> QED BY <2>1, <2>2, <2>3, <2>4 DEF Next
<1> QED BY <1>1, <1>2, PTL DEF Spec

\* What arrives of an object of this library is the contents of its message.
LEMMA OwnArrives ==
    ASSUME OwnInv, own
    PROVE  /\ x \in Published
           /\ pc = "got" => Encode(x).rc = OK /\ got = ListOf(Decs(Encode(x).c))
           /\ pc = "refused" => Encode(x).rc # OK
<1>1. x \in Published
    BY DEF OwnInv
<1>2. ASSUME pc = "got" PROVE Encode(x).rc = OK /\ got = ListOf(Decs(Encode(x).c))
    <2>1. Encode(x).rc = OK /\ wire = Encode(x).c /\ got = decode[wire]
        BY <1>2 DEF OwnInv
    <2>2. wire \in Box(MaxDepth + 1) /\ wire.sdt = "stream"
        BY <1>1, <2>1, Encodes
    <2>3. decode[wire] = ListOf(Decs(wire))
        BY <2>2, BoxReadable, SizeAssumption
    <2> QED BY <2>1, <2>3
<1> QED BY <1>1, <1>2 DEF OwnInv

\* Whatever can be carried is sent, and arrives whole.
THEOREM RoundTripCorrect == Spec => []RoundTrip
<1>1. IInv => RoundTrip
    BY OwnArrives, Encodes DEF IInv, RoundTrip
<1> QED BY <1>1, Invariance, PTL

\* Parts may be missing, but what arrives is what was sent, where it was, and a
\* vector arrives complete or is refused.
THEOREM NothingAlteredCorrect == Spec => []NothingAltered
<1>1. IInv => NothingAltered
    BY OwnArrives, Encodes DEF IInv, NothingAltered
<1> QED BY <1>1, Invariance, PTL

\* The receiver can read what this library sends.
THEOREM OwnReadableCorrect == Spec => []OwnReadable
<1>1. IInv => OwnReadable
    BY DEF IInv, OwnInv, OwnReadable
<1> QED BY <1>1, Invariance, PTL

\* The exact integers of other publishers arrive as they were sent.
THEOREM ForeignIntegersCorrect == Spec => []ForeignIntegersKept
<1>1. IInv => ForeignIntegersKept
    <2> SUFFICES ASSUME ForeignInv, ~own, x # Raw, exact[x]
                 PROVE  /\ pc \notin {"unread", "crashed"}
                        /\ pc = "got" => got = plain[x]
        BY DEF IInv, ForeignIntegersKept
    <2>1. x \in Fields
        BY ForeignAssumption DEF ForeignInv
    <2>2. decode[x] = plain[x]
        BY <2>1, ExactDecoded
    <2> QED BY <2>2 DEF ForeignInv
<1> QED BY <1>1, Invariance, PTL

=============================================================================
