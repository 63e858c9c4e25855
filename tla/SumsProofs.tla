------------------------------ MODULE SumsProofs ------------------------------
(***************************************************************************)
(* Facts about SumOver: it is a natural, it is 0 when every value is, it   *)
(* changes by exactly what one entry changes, no entry exceeds it; it      *)
(* grows with the values, adds up over two values, multiples and equal     *)
(* values, and does not depend on how the entries are grouped.  And about  *)
(* counting up: least numbers, induction, repeated steps.                  *)
(***************************************************************************)
EXTENDS Sums, FiniteSetTheorems, FunctionTheorems, WellFoundedInduction, TLAPS

\* Tagging the elements of a set does not change their number.
LEMMA TaggedCopy ==
  ASSUME NEW n, NEW T, IsFiniteSet(T)
  PROVE  IsFiniteSet({n} \X T) /\ Cardinality({n} \X T) = Cardinality(T)
<1>1. IsFiniteSet({n}) /\ Cardinality({n}) = 1
  BY FS_Singleton
<1>2. IsFiniteSet({n} \X T) /\ Cardinality({n} \X T) = Cardinality({n}) * Cardinality(T)
  BY <1>1, FS_Product, Zenon
<1>3. Cardinality(T) \in Nat
  BY FS_CardinalityType
<1>4. QED
  BY <1>1, <1>2, <1>3

\* The numbers of disjoint sets add up.
LEMMA DisjointUnion ==
  ASSUME NEW S, NEW T, IsFiniteSet(S), IsFiniteSet(T), S \cap T = {}
  PROVE  /\ IsFiniteSet(S \cup T) /\ Cardinality(S) \in Nat /\ Cardinality(T) \in Nat
         /\ Cardinality(S \cup T) = Cardinality(S) + Cardinality(T)
<1>1. /\ IsFiniteSet(S \cup T)
      /\ Cardinality(S \cup T) = Cardinality(S) + Cardinality(T) - Cardinality(S \cap T)
  BY FS_Union, Zenon
<1>2. Cardinality(S \cap T) = 0 /\ Cardinality(S) \in Nat /\ Cardinality(T) \in Nat
  BY FS_EmptySet, FS_CardinalityType
<1>3. QED
  BY <1>1, <1>2

\* Two sets told apart by tags.
LEMMA TaggedUnion ==
  ASSUME NEW S, NEW T, IsFiniteSet(S), IsFiniteSet(T)
  PROVE  /\ IsFiniteSet(({1} \X S) \cup ({2} \X T))
         /\ Cardinality(({1} \X S) \cup ({2} \X T)) = Cardinality(S) + Cardinality(T)
<1>1. /\ IsFiniteSet({1} \X S) /\ Cardinality({1} \X S) = Cardinality(S)
      /\ IsFiniteSet({2} \X T) /\ Cardinality({2} \X T) = Cardinality(T)
  BY TaggedCopy
<1>2. ({1} \X S) \cap ({2} \X T) = {}
  OBVIOUS
<1>3. /\ IsFiniteSet(({1} \X S) \cup ({2} \X T))
      /\ Cardinality(({1} \X S) \cup ({2} \X T)) =
           Cardinality({1} \X S) + Cardinality({2} \X T)
  BY <1>1, <1>2, DisjointUnion
<1>4. QED
  BY <1>1, <1>3

-----------------------------------------------------------------------------

\* The tokens of one entry x worth n are n in number.
LEMMA EntryTokens ==
  ASSUME NEW x, NEW n \in Nat
  PROVE  IsFiniteSet({x} \X (1..n)) /\ Cardinality({x} \X (1..n)) = n
<1>1. IsFiniteSet(1..n) /\ Cardinality(1..n) = n
  BY FS_Interval
<1>2. QED
  BY <1>1, TaggedCopy

\* A finite number of naturals has finitely many tokens.
LEMMA TokensFinite ==
  ASSUME NEW D, IsFiniteSet(D), NEW f \in [D -> Nat]
  PROVE  IsFiniteSet(Tokens(f))
<1> DEFINE entries == [x \in D |-> {x} \X (1..f[x])]
           Entries == {{x} \X (1..f[x]) : x \in D}
<1>1. entries \in Surjection(D, Entries)
  BY DEF Surjection
<1>2. IsFiniteSet(Entries)
  BY <1>1, FS_Surjection, Zenon
<1>3. ASSUME NEW E \in Entries
      PROVE  IsFiniteSet(E)
  <2>1. PICK x \in D : E = {x} \X (1..f[x])
    BY <1>3
  <2>2. IsFiniteSet({x} \X (1..f[x]))
    BY EntryTokens
  <2>3. QED
    BY <2>1, <2>2
<1>4. IsFiniteSet(UNION Entries)
  BY <1>2, <1>3, FS_UNION
<1>5. QED
  BY <1>4 DEF Tokens

LEMMA SumType ==
  ASSUME NEW D, IsFiniteSet(D), NEW f \in [D -> Nat]
  PROVE  SumOver(f) \in Nat
BY TokensFinite, FS_CardinalityType DEF SumOver

\* Nothing but zeros adds up to zero.
LEMMA SumOfZeros ==
  ASSUME NEW D, NEW f \in [D -> Nat], \A x \in D : f[x] = 0
  PROVE  SumOver(f) = 0
<1>1. Tokens(f) = {}
  BY DEF Tokens
<1>2. QED
  BY <1>1, FS_EmptySet DEF SumOver

\* Setting one zero entry adds its new value to the sum.
LEMMA SumGrows ==
  ASSUME NEW D, IsFiniteSet(D), NEW f \in [D -> Nat], NEW g \in [D -> Nat],
         NEW x \in D, f[x] = 0, \A y \in D : y # x => g[y] = f[y]
  PROVE  SumOver(g) = SumOver(f) + g[x]
<1> DEFINE new == {x} \X (1..g[x])
<1>1. IsFiniteSet(new) /\ Cardinality(new) = g[x]
  BY EntryTokens
<1>2. Tokens(g) = Tokens(f) \cup new
  BY DEF Tokens
<1>3. Tokens(f) \cap new = {}
  BY DEF Tokens
<1>4. IsFiniteSet(Tokens(f)) /\ Cardinality(Tokens(f)) \in Nat
  BY TokensFinite, FS_CardinalityType
<1>5. Cardinality(Tokens(g)) = Cardinality(Tokens(f)) + Cardinality(new)
  BY <1>1, <1>2, <1>3, <1>4, DisjointUnion
<1>6. QED
  BY <1>1, <1>4, <1>5 DEF SumOver

\* No entry exceeds the sum.
LEMMA EntryBelowSum ==
  ASSUME NEW D, IsFiniteSet(D), NEW f \in [D -> Nat], NEW x \in D
  PROVE  f[x] <= SumOver(f)
<1> DEFINE own == {x} \X (1..f[x])
<1>1. own \subseteq Tokens(f)
  BY DEF Tokens
<1>2. Cardinality(own) <= Cardinality(Tokens(f))
  BY <1>1, TokensFinite, FS_Subset
<1>3. QED
  BY <1>2, EntryTokens DEF SumOver

\* A token is an entry and a number up to its value.
LEMMA TokenShape ==
  ASSUME NEW D, NEW f \in [D -> Nat], NEW t
  PROVE  t \in Tokens(f) <=> \E x \in D : \E k \in 1..f[x] : t = <<x, k>>
<1>1. DOMAIN f = D
  OBVIOUS
<1>2. \A x : t \in {x} \X (1..f[x]) <=> \E k \in 1..f[x] : t = <<x, k>>
  OBVIOUS
<1>3. QED
  BY <1>1, <1>2 DEF Tokens

\* Larger values have a larger sum.
LEMMA SumMonotone ==
  ASSUME NEW D, IsFiniteSet(D), NEW f \in [D -> Nat], NEW g \in [D -> Nat],
         \A x \in D : f[x] <= g[x]
  PROVE  SumOver(f) <= SumOver(g)
<1>1. Tokens(f) \subseteq Tokens(g)
  BY DEF Tokens
<1>2. QED
  BY <1>1, TokensFinite, FS_Subset DEF SumOver

\* Entries that are zero can be left out.
LEMMA SumWithoutZeros ==
  ASSUME NEW D, NEW f \in [D -> Nat], NEW E \in SUBSET D, NEW g \in [E -> Nat],
         \A x \in E : g[x] = f[x], \A x \in D \ E : f[x] = 0
  PROVE  SumOver(f) = SumOver(g)
<1>1. Tokens(f) = Tokens(g)
  BY DEF Tokens
<1>2. QED
  BY <1>1 DEF SumOver

\* f counts the parts that A falls into, one for each element of D.
CountsParts(f, D, part, A) ==
  /\ f \in [D -> Nat] /\ part \in [D -> SUBSET A]
  /\ \A a \in A : \E d \in D : a \in part[d]
  /\ \A d, e \in D : d # e => part[d] \cap part[e] = {}
  /\ \A d \in D : f[d] = Cardinality(part[d])

\* The parts of a finite set add up to the whole.
LEMMA SumOfParts ==
  ASSUME NEW A, IsFiniteSet(A), NEW D, NEW part, NEW f, CountsParts(f, D, part, A)
  PROVE  SumOver(f) = Cardinality(A)
<1>0. /\ f \in [D -> Nat] /\ part \in [D -> SUBSET A]
      /\ \A a \in A : \E d \in D : a \in part[d]
      /\ \A d, e \in D : d # e => part[d] \cap part[e] = {}
      /\ \A d \in D : f[d] = Cardinality(part[d])
  BY DEF CountsParts
<1> DEFINE count   == [d \in D |-> CHOOSE h \in Bijection(1..f[d], part[d]) : TRUE]
           pick    == [t \in Tokens(f) |-> count[t[1]][t[2]]]
<1>1. ASSUME NEW d \in D PROVE count[d] \in Bijection(1..f[d], part[d])
  <2>1. IsFiniteSet(part[d])
    BY <1>0, FS_Subset
  <2>2. ExistsBijection(1..f[d], part[d])
    BY <1>0, <2>1, FS_CardinalityType
  <2>3. QED
    BY <2>2 DEF ExistsBijection
<1> HIDE DEF count
<1>2. ASSUME NEW d \in D
      PROVE  /\ \A k \in 1..f[d] : count[d][k] \in part[d] /\ count[d][k] \in A
             /\ \A k, n \in 1..f[d] : count[d][k] = count[d][n] => k = n
             /\ \A a \in part[d] : \E k \in 1..f[d] : count[d][k] = a
  <2>1. /\ count[d] \in [1..f[d] -> part[d]]
        /\ \A k, n \in 1..f[d] : count[d][k] = count[d][n] => k = n
        /\ \A a \in part[d] : \E k \in 1..f[d] : count[d][k] = a
    <3> DEFINE S == 1..f[d]
               e == count[d]
    <3>1. e \in Bijection(S, part[d])
      BY <1>1
    <3> HIDE DEF S, e
    <3>2. e \in [S -> part[d]]
      BY <3>1, Fun_BijectionProperties
    <3>3. \A k, n \in S : e[k] = e[n] => k = n
      BY <3>1, Fun_BijectionProperties
    <3>4. \A a \in part[d] : \E k \in S : e[k] = a
      BY <3>1, Fun_BijectionProperties
    <3>5. QED
      BY <3>2, <3>3, <3>4 DEF S, e
  <2>2. part[d] \subseteq A
    BY <1>0
  <2>3. QED
    BY <2>1, <2>2
<1>3. pick \in [Tokens(f) -> A]
  BY <1>0, <1>2, TokenShape
<1>4. ASSUME NEW t \in Tokens(f), NEW u \in Tokens(f), pick[t] = pick[u] PROVE t = u
  <2>1. PICK d \in D : \E k \in 1..f[d] : t = <<d, k>>
    BY <1>0, TokenShape
  <2>2. PICK k \in 1..f[d] : t = <<d, k>>
    BY <2>1
  <2>3. PICK e \in D : \E n \in 1..f[e] : u = <<e, n>>
    BY <1>0, TokenShape
  <2>4. PICK n \in 1..f[e] : u = <<e, n>>
    BY <2>3
  <2>5. count[d][k] = count[e][n]
    BY <1>4, <2>2, <2>4
  <2>6. d = e
    BY <1>0, <1>2, <2>2, <2>4, <2>5
  <2>7. k = n
    BY <1>2, <2>2, <2>4, <2>5, <2>6
  <2>8. QED
    BY <2>2, <2>4, <2>6, <2>7
<1>5. ASSUME NEW a \in A PROVE \E t \in Tokens(f) : pick[t] = a
  <2>1. PICK d \in D : a \in part[d]
    BY <1>0
  <2>2. PICK k \in 1..f[d] : count[d][k] = a
    BY <1>2, <2>1
  <2>3. <<d, k>> \in Tokens(f)
    BY <1>0, TokenShape
  <2>4. pick[<<d, k>>] = a
    BY <2>2, <2>3
  <2>5. QED
    BY <2>3, <2>4
<1>6. pick \in Injection(Tokens(f), A) /\ pick \in Surjection(Tokens(f), A)
  BY <1>3, <1>4, <1>5, Fun_IsInj, Fun_IsSurj
<1>7. Cardinality(Tokens(f)) = Cardinality(A)
  BY <1>6, FS_Injection
<1>8. QED
  BY <1>7 DEF SumOver

\* g adds up f over the groups of entries with the same key.
SumsGroups(g, K, f, D, key) ==
  /\ f \in [D -> Nat] /\ g \in [K -> Nat] /\ key \in [D -> K]
  /\ \A k \in K : g[k] = SumOver([x \in {y \in D : key[y] = k} |-> f[x]])

\* Entries grouped by a key: the groups' sums add up to the sum.
LEMMA SumRegroups ==
  ASSUME NEW D, IsFiniteSet(D), NEW f, NEW K, NEW key, NEW g, SumsGroups(g, K, f, D, key)
  PROVE  SumOver(g) = SumOver(f)
<1>0. /\ f \in [D -> Nat] /\ g \in [K -> Nat] /\ key \in [D -> K]
      /\ \A k \in K : g[k] = SumOver([x \in {y \in D : key[y] = k} |-> f[x]])
  BY DEF SumsGroups
<1> DEFINE owner == [t \in Tokens(f) |-> key[t[1]]]
           part  == [k \in K |-> {t \in Tokens(f) : owner[t] = k}]
<1>1. owner \in [Tokens(f) -> K]
  BY <1>0, TokenShape
<1>2. ASSUME NEW k \in K PROVE g[k] = Cardinality(part[k])
  <2> DEFINE Group == {y \in D : key[y] = k}
             h     == [x \in Group |-> f[x]]
  <2>1. h \in [Group -> Nat]
    BY <1>0
  <2>2. ASSUME NEW t PROVE t \in Tokens(h) <=> t \in Tokens(f) /\ key[t[1]] = k
    <3>1. t \in Tokens(h) <=> \E x \in Group : \E n \in 1..h[x] : t = <<x, n>>
      BY <2>1, TokenShape
    <3>2. t \in Tokens(f) <=> \E x \in D : \E n \in 1..f[x] : t = <<x, n>>
      BY <1>0, TokenShape
    <3>3. QED
      BY <3>1, <3>2
  <2>3. Tokens(h) = part[k]
    BY <2>2
  <2>4. QED
    BY <1>0, <2>3 DEF SumOver
<1>3. IsFiniteSet(Tokens(f))
  BY <1>0, TokensFinite
<1>4. CountsParts(g, K, part, Tokens(f))
  BY <1>0, <1>1, <1>2 DEF CountsParts
<1>5. QED
  BY <1>3, <1>4, SumOfParts DEF SumOver

\* The sum of a multiple is the multiple of the sum.
LEMMA SumOfMultiples ==
  ASSUME NEW D, IsFiniteSet(D), NEW f \in [D -> Nat], NEW c \in Nat,
         NEW g \in [D -> Nat], \A x \in D : g[x] = f[x] * c
  PROVE  SumOver(g) = SumOver(f) * c
<1> DEFINE A     == Tokens(f) \X (1..c)
           owner == [a \in A |-> a[1][1]]
           part  == [x \in D |-> {a \in A : owner[a] = x}]
<1>1. IsFiniteSet(Tokens(f)) /\ IsFiniteSet(1..c) /\ Cardinality(1..c) = c
  BY TokensFinite, FS_Interval
<1>2. IsFiniteSet(A) /\ Cardinality(A) = Cardinality(Tokens(f)) * Cardinality(1..c)
  BY <1>1, FS_Product, Zenon
<1>3. owner \in [A -> D]
  BY TokenShape
<1>4. ASSUME NEW x \in D PROVE g[x] = Cardinality(part[x])
  <2>1. IsFiniteSet({x} \X (1..f[x])) /\ Cardinality({x} \X (1..f[x])) = f[x]
    BY EntryTokens
  <2>2. Cardinality(({x} \X (1..f[x])) \X (1..c)) =
          Cardinality({x} \X (1..f[x])) * Cardinality(1..c)
    BY <1>1, <2>1, FS_Product, Zenon
  <2>3. \A t \in Tokens(f) : t[1] = x <=> t \in {x} \X (1..f[x])
    BY TokenShape
  <2>4. ({x} \X (1..f[x])) \subseteq Tokens(f)
    BY DEF Tokens
  <2>5. part[x] = ({x} \X (1..f[x])) \X (1..c)
    BY <2>3, <2>4
  <2>6. QED
    BY <1>1, <2>1, <2>2, <2>5
<1>5. CountsParts(g, D, part, A)
  <2> HIDE DEF A
  <2>1. QED
    BY <1>3, <1>4 DEF CountsParts
<1>6. SumOver(g) = Cardinality(A)
  BY <1>2, <1>5, SumOfParts
<1>7. QED
  BY <1>1, <1>2, <1>6 DEF SumOver

\* Two values for each entry: their sums add up.
LEMMA SumOfTwo ==
  ASSUME NEW D, IsFiniteSet(D), NEW f \in [D -> Nat], NEW g \in [D -> Nat],
         NEW h \in [D -> Nat], \A x \in D : h[x] = f[x] + g[x]
  PROVE  SumOver(h) = SumOver(f) + SumOver(g)
<1> DEFINE A     == ({1} \X Tokens(f)) \cup ({2} \X Tokens(g))
           owner == [a \in A |-> a[2][1]]
           part  == [x \in D |-> {a \in A : owner[a] = x}]
<1>1. IsFiniteSet(Tokens(f)) /\ IsFiniteSet(Tokens(g))
  BY TokensFinite
<1>2. IsFiniteSet(A) /\ Cardinality(A) = Cardinality(Tokens(f)) + Cardinality(Tokens(g))
  BY <1>1, TaggedUnion
<1>3. owner \in [A -> D]
  BY TokenShape
<1>4. ASSUME NEW x \in D PROVE h[x] = Cardinality(part[x])
  <2> DEFINE S == {x} \X (1..f[x])
             T == {x} \X (1..g[x])
  <2>1. IsFiniteSet(S) /\ Cardinality(S) = f[x] /\ IsFiniteSet(T) /\ Cardinality(T) = g[x]
    BY EntryTokens
  <2>2. \A t : /\ t \in S <=> t \in Tokens(f) /\ t[1] = x
               /\ t \in T <=> t \in Tokens(g) /\ t[1] = x
    BY TokenShape
  <2> HIDE DEF S, T
  <2>3. part[x] = ({1} \X S) \cup ({2} \X T)
    BY <2>2
  <2>4. Cardinality(({1} \X S) \cup ({2} \X T)) = f[x] + g[x]
    <3>1. Cardinality(({1} \X S) \cup ({2} \X T)) = Cardinality(S) + Cardinality(T)
      BY <2>1, TaggedUnion
    <3>2. QED
      BY <2>1, <3>1
  <2>5. QED
    BY <2>3, <2>4
<1>5. CountsParts(h, D, part, A)
  <2> HIDE DEF A
  <2>1. QED
    BY <1>3, <1>4 DEF CountsParts
<1>6. SumOver(h) = Cardinality(A)
  <2> HIDE DEF A
  <2>1. QED
    BY <1>2, <1>5, SumOfParts
<1>7. QED
  BY <1>2, <1>6 DEF SumOver

\* The sum of equal entries.
LEMMA SumOfConstants ==
  ASSUME NEW D, IsFiniteSet(D), NEW c \in Nat, NEW f \in [D -> Nat], \A x \in D : f[x] = c
  PROVE  SumOver(f) = Cardinality(D) * c
<1>1. Tokens(f) = D \X (1..c)
  BY DEF Tokens
<1>2. IsFiniteSet(1..c) /\ Cardinality(1..c) = c
  BY FS_Interval
<1>3. Cardinality(D \X (1..c)) = Cardinality(D) * Cardinality(1..c)
  BY <1>2, FS_Product, Zenon
<1>4. QED
  BY <1>1, <1>2, <1>3 DEF SumOver

-----------------------------------------------------------------------------
(* Counting up.  Induction is stated of sets of naturals, from the fact    *)
(* that < is well founded, so that it can be used with any property that a *)
(* set can be made of.                                                     *)

\* A set of naturals with a member has a least one.
LEMMA LeastNumber ==
  ASSUME NEW S \in SUBSET Nat, S # {}
  PROVE  \E n \in S : \A m \in S : n <= m
<1> DEFINE R == OpToRel(<, Nat)
<1>1. IsWellFoundedOn(R, Nat)
  BY NatLessThanWellFounded
<1>2. \A x \in Nat, y \in Nat : x < y => <<x, y>> \in R
  BY DEF OpToRel
<1> HIDE DEF R
<1>3. PICK n \in S : \A m \in S : ~(<<m, n>> \in R)
  BY <1>1, WFMin
<1>4. ASSUME NEW m \in S PROVE n <= m
  <2>1. m \in Nat /\ n \in Nat /\ ~(m < n)
    BY <1>2, <1>3
  <2>2. QED
    BY <2>1
<1>5. QED
  BY <1>4

\* What 0 has and each number takes over from the one before, all have.
LEMMA CountUp ==
  ASSUME NEW d \in Nat, NEW G, 0 \in G, \A k \in 1..d : k - 1 \in G => k \in G
  PROVE  \A k \in 0..d : k \in G
<1> DEFINE Bad == {k \in 0..d : k \notin G}
<1> SUFFICES ASSUME Bad # {} PROVE FALSE
  OBVIOUS
<1>1. PICK k \in Bad : \A m \in Bad : k <= m
  <2>1. Bad \in SUBSET Nat
    OBVIOUS
  <2> HIDE DEF Bad
  <2>2. QED
    BY <2>1, LeastNumber
<1>2. k \in 1..d /\ k - 1 \in 0..d
  OBVIOUS
<1>3. k - 1 \in G
  BY <1>1, <1>2
<1>4. QED
  BY <1>2, <1>3

\* A step can be repeated any number of times.
Repeats(f, S, step, x, d) ==
  f \in [0..d -> S] /\ f[0] = x /\ \A n \in 1..d : f[n] = step[f[n - 1]]

LEMMA Iterates ==
  ASSUME NEW S, NEW step, step \in [S -> S], NEW x, x \in S, NEW d, d \in Nat
  PROVE  \E f : Repeats(f, S, step, x, d)
<1> DEFINE G == {k \in 0..d : \E f \in [0..k -> S] :
                   f[0] = x /\ \A n \in 1..k : f[n] = step[f[n - 1]]}
<1>1. 0 \in G
  <2> DEFINE f == [n \in 0..0 |-> x]
  <2>1. f \in [0..0 -> S] /\ f[0] = x /\ \A n \in 1..0 : f[n] = step[f[n - 1]]
    OBVIOUS
  <2> HIDE DEF f
  <2>2. \E g \in [0..0 -> S] : g[0] = x /\ \A n \in 1..0 : g[n] = step[g[n - 1]]
    BY <2>1
  <2>3. QED
    BY <2>2
<1>2. ASSUME NEW k \in 1..d, k - 1 \in G PROVE k \in G
  <2>1. PICK f \in [0..(k - 1) -> S] : f[0] = x /\ \A n \in 1..(k - 1) : f[n] = step[f[n - 1]]
    BY <1>2
  <2> DEFINE g == [n \in 0..k |-> IF n = k THEN step[f[k - 1]] ELSE f[n]]
  <2>2. k - 1 \in 0..(k - 1) /\ 0 \in 0..(k - 1) /\ k # 0
    OBVIOUS
  <2>3. g \in [0..k -> S]
    <3>1. \A n \in 0..k : n # k => n \in 0..(k - 1)
      OBVIOUS
    <3>2. QED
      BY <2>2, <3>1
  <2>4. g[0] = x
    BY <2>1, <2>2
  <2>5. ASSUME NEW n \in 1..k PROVE g[n] = step[g[n - 1]]
    <3>1. CASE n = k
      BY <2>2, <3>1
    <3>2. CASE n # k
      <4>1. n \in 1..(k - 1) /\ n - 1 \in 0..k /\ n - 1 # k /\ n \in 0..k
        BY <3>2
      <4>2. QED
        BY <2>1, <4>1
    <3>3. QED
      BY <3>1, <3>2
  <2> HIDE DEF g
  <2>6. \E f2 \in [0..k -> S] : f2[0] = x /\ \A n \in 1..k : f2[n] = step[f2[n - 1]]
    BY <2>3, <2>4, <2>5
  <2>7. k \in 0..d
    OBVIOUS
  <2>8. QED
    BY <2>6, <2>7
<1>3. d \in 0..d /\ \A k \in 0..d : k \in G
  <2> HIDE DEF G
  <2>1. QED
    BY <1>1, <1>2, CountUp
<1>4. QED
  BY <1>3 DEF Repeats
=============================================================================
