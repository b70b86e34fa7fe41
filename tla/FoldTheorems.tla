---------------------------- MODULE FoldTheorems ----------------------------
(***************************************************************************)
(* Facts about the sums of the community modules, for sets of every size,  *)
(* and that a finite set can be put in a given order.                      *)
(*                                                                         *)
(* SumFunctionOnSet is a recursive function over the subsets of its index  *)
(* set. That the recursion has a solution, and that the sum does not       *)
(* depend on the order in which elements are chosen, is shown here from    *)
(* the least set for which it would not be so.                             *)
(***************************************************************************)
EXTENDS Integers, FiniteSets, Functions, FiniteSetTheorems, WellFoundedInduction, TLAPS

\* Induction over finite sets: of the sets that are bad, one has no bad subset.
LEMMA LeastSet ==
    ASSUME NEW S, IsFiniteSet(S), NEW Bad \in SUBSET SUBSET S, Bad # {}
    PROVE  \E A \in Bad : \A B \in Bad : ~ (B \subseteq A /\ B # A)
<1>1. IsWellFoundedOn(StrictSubsetOrdering(S), SUBSET S)
  BY FS_StrictSubsetOrderingWellFounded, FS_FiniteSubsetsOfFinite
<1>2. \E A \in Bad : \A B \in Bad : ~ (<<B, A>> \in StrictSubsetOrdering(S))
  <2> HIDE DEF StrictSubsetOrdering
  <2> QED BY <1>1, WFMin
<1> QED BY <1>2 DEF StrictSubsetOrdering

-----------------------------------------------------------------------------
(* The recursion has one solution.                                         *)

\* A set of natural numbers has a least one.
LEMMA LeastNumber ==
    ASSUME NEW S \in SUBSET Nat, S # {}
    PROVE  \E n \in S : \A m \in S : n <= m
<1>1. PICK n \in S : \A m \in S : ~ (<<m, n>> \in OpToRel(<, Nat))
  BY NatLessThanWellFounded, WFMin
<1>2. \A m \in S : m \in Nat /\ n \in Nat /\ ~ (m < n)
  BY <1>1 DEF OpToRel
<1> QED BY <1>2

Some(s) == CHOOSE x \in s : TRUE

\* g is the sum of f over each subset of A, one element after another.
Summing(f, A, g) ==
    g = [s \in SUBSET A |-> IF s = {} THEN 0 ELSE f[Some(s)] + g[s \ {Some(s)}]]

\* What two such functions both say, they agree on.
LEMMA SummingUnique ==
    ASSUME NEW f, NEW A, IsFiniteSet(A), NEW B, NEW g, NEW h,
           Summing(f, A, g), Summing(f, B, h), NEW t, t \subseteq A, t \subseteq B
    PROVE  g[t] = h[t]
<1> DEFINE Bad == {s \in SUBSET A : s \subseteq B /\ g[s] # h[s]}
<1> SUFFICES ASSUME Bad # {} PROVE FALSE
  OBVIOUS
<1>0. Bad \in SUBSET SUBSET A /\ Bad # {}
  OBVIOUS
<1>1. PICK s \in Bad : \A u \in Bad : ~ (u \subseteq s /\ u # s)
  <2> HIDE DEF Bad
  <2> QED BY <1>0, LeastSet
<1>2. s # {}
  BY DEF Summing
<1>3. Some(s) \in s
  BY <1>2 DEF Some
<1>4. s \ {Some(s)} \notin Bad
  BY <1>1, <1>3
<1>5. g[s \ {Some(s)}] = h[s \ {Some(s)}]
  BY <1>4
<1> QED BY <1>2, <1>5 DEF Summing

SumOver(f, A) == (CHOOSE g : Summing(f, A, g))[A]

\* There is one for every finite set: the sums over the smaller sets make it.
LEMMA SummingExists ==
    ASSUME NEW f, NEW S, IsFiniteSet(S)
    PROVE  \E g : Summing(f, S, g)
<1> DEFINE Bad == {A \in SUBSET S : ~ \E g : Summing(f, A, g)}
<1> SUFFICES ASSUME Bad # {} PROVE FALSE
  OBVIOUS
<1>0. Bad \in SUBSET SUBSET S /\ Bad # {}
  OBVIOUS
<1>1. PICK A \in Bad : \A u \in Bad : ~ (u \subseteq A /\ u # A)
  <2> HIDE DEF Bad
  <2> QED BY <1>0, LeastSet
<1>2. \A u \in SUBSET A : u # A => Summing(f, u, CHOOSE g : Summing(f, u, g))
  BY <1>1
<1> DEFINE G == [s \in SUBSET A |-> IF s = {} THEN 0 ELSE f[Some(s)] + SumOver(f, s \ {Some(s)})]
<1>3. ASSUME NEW u \in SUBSET A, u # A PROVE G[u] = SumOver(f, u)
  <2> DEFINE h == CHOOSE g : Summing(f, u, g)
  <2>1. Summing(f, u, h)
    BY <1>2, <1>3
  <2>2. SumOver(f, u) = h[u]
    BY DEF SumOver
  <2> HIDE DEF h
  <2>3. CASE u = {}
    BY <2>1, <2>2, <2>3 DEF Summing
  <2>4. CASE u # {}
    <3>1. Some(u) \in u
      BY <2>4 DEF Some
    <3> DEFINE v == u \ {Some(u)}
               k == CHOOSE g : Summing(f, v, g)
    <3>2. v \in SUBSET A /\ v # A /\ v \subseteq u
      BY <3>1, <1>3
    <3>3. Summing(f, v, k)
      BY <1>2, <3>2
    <3>4. SumOver(f, v) = k[v]
      BY DEF SumOver
    <3>5. h[u] = f[Some(u)] + h[v]
      BY <2>1, <2>4 DEF Summing
    <3>6. G[u] = f[Some(u)] + SumOver(f, v)
      BY <2>4
    <3> HIDE DEF v, k
    <3>7. IsFiniteSet(v)
      BY <3>2, FS_Subset
    <3>8. k[v] = h[v]
      BY <2>1, <3>2, <3>3, <3>7, SummingUnique
    <3> QED BY <2>2, <3>4, <3>5, <3>6, <3>8
  <2> QED BY <2>3, <2>4
<1>4. Summing(f, A, G)
  <2>1. ASSUME NEW s \in SUBSET A, s # {} PROVE G[s] = f[Some(s)] + G[s \ {Some(s)}]
    <3>1. Some(s) \in s
      BY <2>1 DEF Some
    <3>2. s \ {Some(s)} \in SUBSET A /\ s \ {Some(s)} # A
      BY <3>1
    <3>3. G[s \ {Some(s)}] = SumOver(f, s \ {Some(s)})
      BY <1>3, <3>2
    <3> QED BY <2>1, <3>3
  <2>2. G[{}] = 0
    OBVIOUS
  <2>3. G = [s \in SUBSET A |-> G[s]]
    OBVIOUS
  <2> HIDE DEF G
  <2> QED BY <2>1, <2>2, <2>3 DEF Summing
<1> QED BY <1>1, <1>4

\* The sum of the library is one of these.
LEMMA SumIsSumming ==
    ASSUME NEW f, NEW S, IsFiniteSet(S)
    PROVE  \E g : Summing(f, S, g) /\ SumFunctionOnSet(f, S) = g[S]
<1> DEFINE g == CHOOSE it : it = [s \in SUBSET S |-> IF s = {} THEN 0 ELSE
                  f[CHOOSE x \in s : TRUE] + it[s \ {CHOOSE x \in s : TRUE}]]
<1>1. SumFunctionOnSet(f, S) = g[S]
  BY DEF SumFunctionOnSet, FoldFunctionOnSet, MapThenFoldSet
<1>2. PICK h : Summing(f, S, h)
  BY SummingExists
<1>3. h = [s \in SUBSET S |-> IF s = {} THEN 0 ELSE
             f[CHOOSE x \in s : TRUE] + h[s \ {CHOOSE x \in s : TRUE}]]
  BY <1>2 DEF Summing, Some
<1>4. g = [s \in SUBSET S |-> IF s = {} THEN 0 ELSE
             f[CHOOSE x \in s : TRUE] + g[s \ {CHOOSE x \in s : TRUE}]]
  BY <1>3
<1> HIDE DEF g
<1>5. Summing(f, S, g)
  BY <1>4 DEF Summing, Some
<1> QED BY <1>1, <1>5

-----------------------------------------------------------------------------
(* What a sum is.                                                          *)

\* The sum over no index is zero.
LEMMA SumEmpty == ASSUME NEW f PROVE SumFunctionOnSet(f, {}) = 0
<1>1. PICK g : Summing(f, {}, g) /\ SumFunctionOnSet(f, {}) = g[{}]
  BY SumIsSumming, FS_EmptySet
<1> QED BY <1>1 DEF Summing

\* The element that is chosen first can be taken out of the sum.
LEMMA SumFirst ==
    ASSUME NEW f, NEW S, IsFiniteSet(S), S # {}
    PROVE  SumFunctionOnSet(f, S) = f[Some(S)] + SumFunctionOnSet(f, S \ {Some(S)})
<1> DEFINE R == S \ {Some(S)}
<1>1. PICK g : Summing(f, S, g) /\ SumFunctionOnSet(f, S) = g[S]
  BY SumIsSumming
<1>2. IsFiniteSet(R)
  BY FS_Subset
<1>3. PICK h : Summing(f, R, h) /\ SumFunctionOnSet(f, R) = h[R]
  BY <1>2, SumIsSumming
<1>4. g[S] = f[Some(S)] + g[R]
  BY <1>1 DEF Summing
<1> HIDE DEF R
<1>5. R \subseteq S
  BY DEF R
<1>6. h[R] = g[R]
  BY <1>1, <1>2, <1>3, <1>5, SummingUnique
<1> QED BY <1>1, <1>3, <1>4, <1>6 DEF R

\* A sum of integers is an integer, a sum of natural numbers a natural number.
LEMMA SumType ==
    ASSUME NEW f, NEW S, IsFiniteSet(S), \A x \in S : f[x] \in Int
    PROVE  /\ SumFunctionOnSet(f, S) \in Int
           /\ (\A x \in S : f[x] >= 0) => SumFunctionOnSet(f, S) >= 0
<1> DEFINE P(A) == /\ SumFunctionOnSet(f, A) \in Int
                   /\ (\A x \in A : f[x] >= 0) => SumFunctionOnSet(f, A) >= 0
           Bad == {A \in SUBSET S : ~ P(A)}
<1> SUFFICES ASSUME Bad # {} PROVE FALSE
  OBVIOUS
<1>0. Bad \in SUBSET SUBSET S /\ Bad # {}
  OBVIOUS
<1>1. PICK A \in Bad : \A u \in Bad : ~ (u \subseteq A /\ u # A)
  <2> HIDE DEF Bad
  <2> QED BY <1>0, LeastSet
<1>2. A \subseteq S /\ IsFiniteSet(A)
  BY FS_Subset
<1>3. A # {}
  <2>1. P({})
    <3>1. SumFunctionOnSet(f, {}) = 0
      BY SumEmpty
    <3> QED BY <3>1
  <2> QED BY <2>1
<1>4. Some(A) \in A
  BY <1>3 DEF Some
<1>5. P(A \ {Some(A)})
  BY <1>1, <1>2, <1>4
<1>6. SumFunctionOnSet(f, A) = f[Some(A)] + SumFunctionOnSet(f, A \ {Some(A)})
  BY <1>2, <1>3, SumFirst
<1>7. P(A)
  BY <1>2, <1>4, <1>5, <1>6
<1> QED BY <1>7

\* Any element can be taken out of the sum.
LEMMA SumTake ==
    ASSUME NEW f, NEW S, IsFiniteSet(S), \A y \in S : f[y] \in Int, NEW x \in S
    PROVE  SumFunctionOnSet(f, S) = f[x] + SumFunctionOnSet(f, S \ {x})
<1> DEFINE P(A) == \A y \in A : SumFunctionOnSet(f, A) = f[y] + SumFunctionOnSet(f, A \ {y})
           Bad == {A \in SUBSET S : ~ P(A)}
<1> SUFFICES ASSUME Bad # {} PROVE FALSE
  OBVIOUS
<1>0. Bad \in SUBSET SUBSET S /\ Bad # {}
  OBVIOUS
<1>1. PICK A \in Bad : \A u \in Bad : ~ (u \subseteq A /\ u # A)
  <2> HIDE DEF Bad
  <2> QED BY <1>0, LeastSet
<1>2. A \subseteq S /\ IsFiniteSet(A)
  BY FS_Subset
<1>3. ASSUME NEW y \in A PROVE SumFunctionOnSet(f, A) = f[y] + SumFunctionOnSet(f, A \ {y})
  <2> DEFINE c == Some(A)
             AC == A \ {c}
             AY == A \ {y}
             AYC == AC \ {y}
  <2>1. c \in A
    BY DEF Some
  <2>2. SumFunctionOnSet(f, A) = f[c] + SumFunctionOnSet(f, AC)
    BY <1>2, SumFirst
  <2>3. CASE y = c
    BY <2>2, <2>3
  <2>4. CASE y # c
    <3>1. P(AC) /\ P(AY)
      BY <1>1, <1>2, <2>1
    <3>2. SumFunctionOnSet(f, AC) = f[y] + SumFunctionOnSet(f, AYC)
      BY <2>4, <3>1
    <3>3. AYC = AY \ {c}
      OBVIOUS
    <3>4. SumFunctionOnSet(f, AY) = f[c] + SumFunctionOnSet(f, AYC)
      BY <2>1, <2>4, <3>1, <3>3
    <3>5. AYC \subseteq S /\ IsFiniteSet(AYC)
      BY <1>2, FS_Subset
    <3>6. SumFunctionOnSet(f, AYC) \in Int
      BY <3>5, SumType
    <3>7. f[c] \in Int /\ f[y] \in Int
      BY <1>2, <2>1
    <3> HIDE DEF c, AC, AY, AYC
    <3>8. SumFunctionOnSet(f, A) = f[y] + SumFunctionOnSet(f, AY)
      BY <2>2, <3>2, <3>4, <3>6, <3>7
    <3> QED BY <3>8 DEF AY
  <2> QED BY <2>3, <2>4
<1> QED BY <1>1, <1>3

\* Only the values at the indices count.
LEMMA SumSame ==
    ASSUME NEW f, NEW g, NEW S, IsFiniteSet(S), \A x \in S : f[x] = g[x]
    PROVE  SumFunctionOnSet(f, S) = SumFunctionOnSet(g, S)
<1> DEFINE Bad == {A \in SUBSET S : SumFunctionOnSet(f, A) # SumFunctionOnSet(g, A)}
<1> SUFFICES ASSUME Bad # {} PROVE FALSE
  OBVIOUS
<1>0. Bad \in SUBSET SUBSET S /\ Bad # {}
  OBVIOUS
<1>1. PICK A \in Bad : \A u \in Bad : ~ (u \subseteq A /\ u # A)
  <2> HIDE DEF Bad
  <2> QED BY <1>0, LeastSet
<1>2. A \subseteq S /\ IsFiniteSet(A)
  BY FS_Subset
<1>3. A # {}
  BY SumEmpty
<1>4. Some(A) \in A
  BY <1>3 DEF Some
<1>5. SumFunctionOnSet(f, A \ {Some(A)}) = SumFunctionOnSet(g, A \ {Some(A)})
  BY <1>1, <1>2, <1>4
<1>6. /\ SumFunctionOnSet(f, A) = f[Some(A)] + SumFunctionOnSet(f, A \ {Some(A)})
      /\ SumFunctionOnSet(g, A) = g[Some(A)] + SumFunctionOnSet(g, A \ {Some(A)})
  BY <1>2, <1>3, SumFirst
<1>7. f[Some(A)] = g[Some(A)]
  BY <1>2, <1>4
<1> QED BY <1>5, <1>6, <1>7

\* Where one value changes, the sum changes by as much.
LEMMA SumChange ==
    ASSUME NEW f, NEW g, NEW S, IsFiniteSet(S), NEW x \in S,
           \A y \in S : f[y] \in Int, g[x] \in Int, \A y \in S \ {x} : g[y] = f[y]
    PROVE  SumFunctionOnSet(g, S) = SumFunctionOnSet(f, S) - f[x] + g[x]
<1> DEFINE R == S \ {x}
<1>1. IsFiniteSet(R)
  BY FS_Subset
<1>2. SumFunctionOnSet(f, R) = SumFunctionOnSet(g, R)
  BY <1>1, SumSame
<1>3. SumFunctionOnSet(f, S) = f[x] + SumFunctionOnSet(f, R)
  BY SumTake
<1>4. SumFunctionOnSet(g, S) = g[x] + SumFunctionOnSet(g, R)
  BY SumTake
<1>5. SumFunctionOnSet(f, R) \in Int
  BY <1>1, SumType
<1> HIDE DEF R
<1> QED BY <1>2, <1>3, <1>4, <1>5

\* Where an index is added, its value is.
LEMMA SumMore ==
    ASSUME NEW f, NEW S, IsFiniteSet(S), NEW x, x \notin S, f[x] \in Int,
           \A y \in S : f[y] \in Int
    PROVE  SumFunctionOnSet(f, S \cup {x}) = SumFunctionOnSet(f, S) + f[x]
<1> DEFINE T == S \cup {x}
<1>1. IsFiniteSet(T)
  BY FS_AddElement
<1>2. SumFunctionOnSet(f, T) = f[x] + SumFunctionOnSet(f, T \ {x})
  BY <1>1, SumTake
<1>3. T \ {x} = S
  OBVIOUS
<1>4. SumFunctionOnSet(f, S) \in Int /\ f[x] \in Int
  BY SumType
<1>5. SumFunctionOnSet(f, T) = f[x] + SumFunctionOnSet(f, S)
  <2> HIDE DEF T
  <2> QED BY <1>2, <1>3
<1>6. f[x] + SumFunctionOnSet(f, S) = SumFunctionOnSet(f, S) + f[x]
  BY <1>4
<1> QED BY <1>5, <1>6

\* A sum of natural numbers is zero only where all of them are, and none exceeds it.
LEMMA SumBounds ==
    ASSUME NEW f, NEW S, IsFiniteSet(S), \A y \in S : f[y] \in Nat, NEW x \in S
    PROVE  f[x] <= SumFunctionOnSet(f, S)
<1> DEFINE R == S \ {x}
<1>1. IsFiniteSet(R) /\ \A y \in R : f[y] \in Int /\ f[y] >= 0
  BY FS_Subset
<1>2. SumFunctionOnSet(f, R) \in Int /\ SumFunctionOnSet(f, R) >= 0
  BY <1>1, SumType
<1>3. SumFunctionOnSet(f, S) = f[x] + SumFunctionOnSet(f, R)
  BY SumTake
<1>4. f[x] \in Nat
  OBVIOUS
<1> HIDE DEF R
<1> QED BY <1>2, <1>3, <1>4

\* Indices of value zero add nothing.
LEMMA SumZeros ==
    ASSUME NEW f, NEW S, NEW T, IsFiniteSet(T), S \subseteq T,
           \A y \in T : f[y] \in Int, \A y \in T \ S : f[y] = 0
    PROVE  SumFunctionOnSet(f, T) = SumFunctionOnSet(f, S)
<1> DEFINE Bad == {A \in SUBSET T : S \subseteq A /\ SumFunctionOnSet(f, A) # SumFunctionOnSet(f, S)}
<1> SUFFICES ASSUME Bad # {} PROVE FALSE
  OBVIOUS
<1>0. Bad \in SUBSET SUBSET T /\ Bad # {}
  OBVIOUS
<1>1. PICK A \in Bad : \A u \in Bad : ~ (u \subseteq A /\ u # A)
  <2> HIDE DEF Bad
  <2> QED BY <1>0, LeastSet
<1>2. PICK x \in A : x \notin S
  OBVIOUS
<1> DEFINE R == A \ {x}
<1>3. IsFiniteSet(A) /\ IsFiniteSet(R) /\ A \subseteq T /\ R \subseteq T /\ S \subseteq R
  BY <1>2, FS_Subset
<1>4. SumFunctionOnSet(f, R) = SumFunctionOnSet(f, S)
  BY <1>1, <1>2, <1>3
<1>5. SumFunctionOnSet(f, A) = f[x] + SumFunctionOnSet(f, R)
  BY <1>3, SumTake
<1>6. SumFunctionOnSet(f, R) \in Int
  BY <1>3, SumType
<1>7. f[x] = 0
  BY <1>2, <1>3
<1> HIDE DEF R
<1>8. SumFunctionOnSet(f, A) = SumFunctionOnSet(f, S)
  BY <1>4, <1>5, <1>6, <1>7
<1> QED BY <1>8

-----------------------------------------------------------------------------
(* Order.                                                                  *)

\* h is another name in T for every index in S, and g says of it what f said.
Renames(h, f, S, g, T) ==
    /\ \A x, y \in S : h[x] = h[y] => x = y
    /\ \A x \in S : f[x] \in Int /\ h[x] \in T /\ g[h[x]] = f[x]
    /\ \A y \in T : \E x \in S : y = h[x]

\* A sum does not change when its indices get other names.
LEMMA SumRenamed ==
    ASSUME NEW f, NEW g, NEW S, IsFiniteSet(S), NEW T, NEW h, Renames(h, f, S, g, T)
    PROVE  SumFunctionOnSet(f, S) = SumFunctionOnSet(g, T)
<1> DEFINE Image(A) == {h[x] : x \in A}
           P(A) == IsFiniteSet(Image(A)) /\ SumFunctionOnSet(f, A) = SumFunctionOnSet(g, Image(A))
           Bad == {A \in SUBSET S : ~ P(A)}
<1> USE DEF Renames
<1> SUFFICES ASSUME Bad # {} PROVE FALSE
  <2>1. T = Image(S)
    OBVIOUS
  <2>2. Bad = {} => P(S)
    OBVIOUS
  <2> QED BY <2>1, <2>2
<1>0. Bad \in SUBSET SUBSET S /\ Bad # {}
  OBVIOUS
<1>1. PICK A \in Bad : \A u \in Bad : ~ (u \subseteq A /\ u # A)
  <2> HIDE DEF Bad
  <2> QED BY <1>0, LeastSet
<1>2. A \subseteq S /\ IsFiniteSet(A)
  BY FS_Subset
<1>3. A # {}
  <2>1. Image({}) = {}
    OBVIOUS
  <2>2. P({})
    BY <2>1, SumEmpty, FS_EmptySet
  <2> QED BY <2>2
<1> DEFINE c == Some(A)
           B == A \ {c}
<1>4. c \in A
  BY <1>3 DEF Some
<1>5. P(B) /\ IsFiniteSet(B) /\ c \notin B /\ A = B \cup {c}
  <2>1. B \subseteq A /\ B # A /\ B \subseteq S /\ c \notin B /\ A = B \cup {c}
    BY <1>2, <1>4
  <2>2. IsFiniteSet(B)
    BY <1>2, <2>1, FS_Subset
  <2> HIDE DEF P
  <2>3. P(B)
    BY <1>1, <2>1
  <2> QED BY <2>1, <2>2, <2>3 DEF P
<1>6. Image(A) = Image(B) \cup {h[c]} /\ h[c] \notin Image(B)
  BY <1>2, <1>4
<1>7. f[c] \in Int /\ g[h[c]] = f[c] /\ \A x \in B : f[x] \in Int
  BY <1>2, <1>4
<1>8. \A y \in Image(B) : g[y] \in Int
  BY <1>2
<1> HIDE DEF c, B
<1>9. SumFunctionOnSet(f, A) = SumFunctionOnSet(f, B) + f[c]
  BY <1>5, <1>7, SumMore
<1> DEFINE I == Image(B)
           J == Image(A)
<1> HIDE DEF Image
<1>10. SumFunctionOnSet(g, I \cup {h[c]}) = SumFunctionOnSet(g, I) + g[h[c]]
  BY <1>5, <1>6, <1>7, <1>8, SumMore
<1>11. IsFiniteSet(J)
  <2>1. J = I \cup {h[c]} /\ IsFiniteSet(I)
    BY <1>5, <1>6
  <2> HIDE DEF J, I
  <2> QED BY <2>1, FS_AddElement
<1>12. P(A)
  BY <1>5, <1>6, <1>7, <1>9, <1>10, <1>11
<1> QED BY <1>12

\* R puts the elements of S one after another.
Orders(R, S) == /\ \A x \in S : <<x, x>> \notin R
                /\ \A x, y \in S : x # y => <<x, y>> \in R \/ <<y, x>> \in R
                /\ \A x, y, z \in S : <<x, y>> \in R /\ <<y, z>> \in R => <<x, z>> \in R

Sorted(R, q) == \A m, n \in DOMAIN q : m < n => <<q[m], q[n]>> \in R

\* Of finitely many elements one comes last.
LEMMA LastOne ==
    ASSUME NEW S, IsFiniteSet(S), S # {}, NEW R, Orders(R, S)
    PROVE  \E x \in S : \A y \in S \ {x} : <<y, x>> \in R
<1> DEFINE P(A) == \E x \in A : \A y \in A \ {x} : <<y, x>> \in R
           Bad == {A \in SUBSET S : A # {} /\ ~ P(A)}
<1> SUFFICES ASSUME Bad # {} PROVE FALSE
  OBVIOUS
<1>0. Bad \in SUBSET SUBSET S /\ Bad # {}
  OBVIOUS
<1>1. PICK A \in Bad : \A u \in Bad : ~ (u \subseteq A /\ u # A)
  <2> HIDE DEF Bad
  <2> QED BY <1>0, LeastSet
<1>2. A \subseteq S /\ A # {} /\ ~ P(A)
  OBVIOUS
<1>3. PICK x \in A : TRUE
  BY <1>2
<1>4. A # {x}
  BY <1>2
<1>5. PICK z \in A \ {x} : \A y \in (A \ {x}) \ {z} : <<y, z>> \in R
  <2>1. A \ {x} # {} /\ A \ {x} \notin Bad
    BY <1>1, <1>3, <1>4
  <2> QED BY <1>2, <2>1
<1>6. CASE <<x, z>> \in R
  BY <1>2, <1>5, <1>6
<1>7. CASE <<x, z>> \notin R
  <2>1. <<z, x>> \in R
    BY <1>2, <1>3, <1>5, <1>7 DEF Orders
  <2>2. \A y \in A \ {x} : <<y, x>> \in R
    BY <1>2, <1>3, <1>5, <2>1 DEF Orders
  <2> QED BY <1>2, <1>3, <2>2
<1> QED BY <1>6, <1>7

\* They can be put in a row.
LEMMA SortedExists ==
    ASSUME NEW S, IsFiniteSet(S), NEW R, Orders(R, S)
    PROVE  \E q \in [1..Cardinality(S) -> S] : Sorted(R, q)
<1> DEFINE P(A) == \E q \in [1..Cardinality(A) -> A] : Sorted(R, q)
           Bad == {A \in SUBSET S : ~ P(A)}
<1> SUFFICES ASSUME Bad # {} PROVE FALSE
  OBVIOUS
<1>0. Bad \in SUBSET SUBSET S /\ Bad # {}
  OBVIOUS
<1>1. PICK A \in Bad : \A u \in Bad : ~ (u \subseteq A /\ u # A)
  <2> HIDE DEF Bad
  <2> QED BY <1>0, LeastSet
<1>2. A \subseteq S /\ ~ P(A) /\ IsFiniteSet(A) /\ Orders(R, A)
  BY FS_Subset DEF Orders
<1>3. A # {}
  <2>1. 1..Cardinality({}) = {}
    BY FS_EmptySet
  <2>2. <<>> \in [1..Cardinality({}) -> {}] /\ Sorted(R, <<>>)
    BY <2>1 DEF Sorted
  <2> QED BY <1>2, <2>2
<1>4. PICK x \in A : \A y \in A \ {x} : <<y, x>> \in R
  BY <1>2, <1>3, LastOne
<1> DEFINE B == A \ {x}
           n == Cardinality(B)
<1>5. B \subseteq A /\ B # A /\ x \notin B
  BY <1>4
<1>6. n \in Nat /\ Cardinality(A) = n + 1
  <2>1. IsFiniteSet(B) /\ Cardinality(B) = Cardinality(A) - 1
    BY <1>2, <1>4, FS_RemoveElement
  <2>2. Cardinality(A) \in Nat /\ Cardinality(B) \in Nat
    BY <1>2, <2>1, FS_CardinalityType
  <2> QED BY <2>1, <2>2
<1>7. PICK q \in [1..n -> B] : Sorted(R, q)
  BY <1>1, <1>2, <1>5
<1> HIDE DEF n
<1> DEFINE t == [i \in 1..(n + 1) |-> IF i = n + 1 THEN x ELSE q[i]]
<1>8. t \in [1..(n + 1) -> A]
  BY <1>4, <1>5, <1>6, <1>7
<1>9. \A i, j \in 1..(n + 1) : i < j => <<t[i], t[j]>> \in R
  <2> SUFFICES ASSUME NEW i \in 1..(n + 1), NEW j \in 1..(n + 1), i < j PROVE <<t[i], t[j]>> \in R
    OBVIOUS
  <2>1. i \in 1..n /\ t[i] = q[i] /\ q[i] \in B
    BY <1>6, <1>7
  <2>2. CASE j = n + 1
    BY <1>4, <2>1, <2>2
  <2>3. CASE j # n + 1
    <3>1. j \in 1..n /\ t[j] = q[j]
      BY <1>6, <2>3
    <3> QED BY <1>7, <2>1, <3>1 DEF Sorted
  <2> QED BY <2>2, <2>3
<1>10. Sorted(R, t)
  BY <1>8, <1>9 DEF Sorted
<1> QED BY <1>2, <1>6, <1>8, <1>10

\* In a row as long as the set, no element is twice, and none is missing.
LEMMA SortedHoldsAll ==
    ASSUME NEW S, IsFiniteSet(S), NEW R, Orders(R, S),
           NEW q \in [1..Cardinality(S) -> S], Sorted(R, q)
    PROVE  /\ \A m, n \in DOMAIN q : m # n => q[m] # q[n]
           /\ \A x \in S : \E m \in DOMAIN q : q[m] = x
<1> DEFINE N == Cardinality(S)
<1>1. N \in Nat /\ IsFiniteSet(1..N) /\ Cardinality(1..N) = N
  BY FS_CardinalityType, FS_Interval
<1>2. \A m, n \in DOMAIN q : m # n => q[m] # q[n]
  <2> SUFFICES ASSUME NEW m \in DOMAIN q, NEW n \in DOMAIN q, m # n PROVE q[m] # q[n]
    OBVIOUS
  <2>1. m < n \/ n < m
    BY <1>1
  <2> QED BY <2>1 DEF Sorted, Orders
<1> HIDE DEF N
<1>3. q \in Injection(1..N, S)
  BY <1>2 DEF Injection, IsInjective, N
<1>4. q \in Surjection(1..N, S)
  BY <1>1, <1>3, FS_Injection DEF N
<1> QED BY <1>2, <1>4 DEF Surjection
=============================================================================
