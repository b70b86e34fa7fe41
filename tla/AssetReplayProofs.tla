------------------------- MODULE AssetReplayProofs -------------------------
(***************************************************************************)
(* Proofs about AssetReplay, for every method, every length of the         *)
(* history, every quantity, cost, number of scopes and unit of rounding:   *)
(* the types, that no basis is made or lost, which lots and pools a        *)
(* history leaves, what its reports say, and why one of them may fail.     *)
(***************************************************************************)
EXTENDS AssetReplay, FoldTheorems, SequenceTheorems

-----------------------------------------------------------------------------
(* Numbers and sequences.                                                  *)

LEMMA MinOfTwo ==
  ASSUME NEW a \in Int, NEW b \in Int
  PROVE  Min({a, b}) = IF a <= b THEN a ELSE b
<1>1. \E x \in {a, b} : \A y \in {a, b} : x <= y
  OBVIOUS
<1>2. Min({a, b}) \in {a, b} /\ \A y \in {a, b} : Min({a, b}) <= y
  BY <1>1 DEF Min
<1> QED BY <1>2

LEMMA MaxOfTwo ==
  ASSUME NEW a \in Int, NEW b \in Int
  PROVE  Max({a, b}) = IF a <= b THEN b ELSE a
<1>1. \E x \in {a, b} : \A y \in {a, b} : x >= y
  OBVIOUS
<1>2. Max({a, b}) \in {a, b} /\ \A y \in {a, b} : Max({a, b}) >= y
  BY <1>1 DEF Max
<1> QED BY <1>2

\* What is allocated of a basis is an amount.
LEMMA AllocateType ==
  ASSUME NEW basis \in Int, NEW qty \in Nat \ {0}, NEW portion \in Nat
  PROVE  Allocate(basis, qty, portion) \in Int
<1>1. Grain \in Nat \ {0}
  BY ReplayAssumption
<1> DEFINE d == 2 * qty * Grain
           n == 2 * (basis * portion) + qty * Grain
<1>2. qty * Grain \in Nat \ {0} /\ basis * portion \in Int
  BY <1>1
<1>3. d \in Nat \ {0} /\ n \in Int
  BY <1>1, <1>2
<1> HIDE DEF d, n
<1>4. n \div d \in Int
  BY <1>3
<1>5. Grain * (n \div d) \in Int
  BY <1>1, <1>4
<1> QED BY <1>5 DEF Allocate, RoundHalfUp, d, n

LEMMA EarlyCount ==
  ASSUME NEW h \in Seq(Activities), NEW y
  PROVE  Cardinality({i \in DOMAIN h : h[i].year <= y}) \in 0..Len(h)
<1>1. Len(h) \in Nat /\ DOMAIN h = 1..Len(h)
  OBVIOUS
<1>2. IsFiniteSet(1..Len(h)) /\ Cardinality(1..Len(h)) = Len(h)
  BY <1>1, FS_Interval
<1> DEFINE early == {i \in DOMAIN h : h[i].year <= y}
<1>3. Cardinality(early) \in Nat /\ Cardinality(early) <= Len(h)
  BY <1>1, <1>2, FS_Subset, FS_CardinalityType
<1> QED BY <1>1, <1>3

\* The activities of a report come first in the history.
LEMMA ThroughType ==
  ASSUME history \in Seq(Activities), NEW y \in Int
  PROVE  /\ Through(y) \in Seq(Activities)
         /\ Len(Through(y)) <= Len(history)
         /\ \A i \in DOMAIN Through(y) : Through(y)[i] = history[i]
<1>1. Len(history) \in Nat
  OBVIOUS
<1>2. PICK n \in 0..Len(history) : Through(y) = SubSeq(history, 1, n)
  BY EarlyCount DEF Through
<1>3. /\ SubSeq(history, 1, n) \in Seq(Activities) /\ Len(SubSeq(history, 1, n)) = n
      /\ \A i \in 1..n : SubSeq(history, 1, n)[i] = history[i]
  BY <1>1, SubSeqProperties
<1>4. \A t : t = SubSeq(history, 1, n) => DOMAIN t = 1..n /\ \A i \in DOMAIN t : t[i] = history[i]
  BY <1>3
<1> QED BY <1>2, <1>3, <1>4

LEMMA ThroughLength ==
  ASSUME history' \in Seq(Activities), NEW y \in Int
  PROVE  Len(Through(y)') \in Nat
<1>1. Len(history') \in Nat
  OBVIOUS
<1>2. PICK n \in 0..Len(history') : Through(y)' = SubSeq(history', 1, n)
  BY EarlyCount DEF Through
<1>3. Len(SubSeq(history', 1, n)) = n
  BY <1>1, SubSeqProperties
<1> QED BY <1>2, <1>3

\* Every activity has a book of its own, or that of the asset.
LEMMA KeyType == ASSUME NEW h, NEW a \in Activities PROVE Key(h, a) \in Keys
  BY DEF Key, Keys, Activities

LEMMA KeysFinite == IsFiniteSet(Keys)
  BY ReplayAssumption, FS_AddElement DEF Keys

LEMMA ActivityType ==
  ASSUME NEW a \in Activities
  PROVE  a.qty \in Nat \ {0} /\ a.amount \in Int /\ a.scope \in Keys
<1>1. a.qty \in Quantities /\ a.amount \in Costs \cup Proceeds \cup {0} /\ a.scope \in Keys
  BY DEF Activities
<1>2. Quantities \subseteq Nat \ {0} /\ Costs \subseteq Nat /\ Proceeds \subseteq Int
  BY ReplayAssumption
<1>3. a.qty \in Nat \ {0}
  BY <1>1, <1>2
<1>4. Costs \cup Proceeds \cup {0} \subseteq Int
  BY <1>2
<1> QED BY <1>1, <1>3, <1>4

-----------------------------------------------------------------------------
(* Books.                                                                  *)

LEMMA LotsFinite ==
  ASSUME NEW lots \in Seq(Lots)
  PROVE  /\ IsFiniteSet(DOMAIN lots)
         /\ \A S \in SUBSET DOMAIN lots : IsFiniteSet(S)
<1>1. Len(lots) \in Nat /\ DOMAIN lots = 1..Len(lots)
  OBVIOUS
<1>2. IsFiniteSet(1..Len(lots))
  BY <1>1, FS_Interval
<1> QED BY <1>1, <1>2, FS_Subset

LEMMA LotValues ==
  ASSUME NEW lots \in Seq(Lots), NEW i \in DOMAIN lots
  PROVE  /\ QtyOf(lots)[i] = lots[i].qty /\ BasisOf(lots)[i] = lots[i].basis
         /\ lots[i].qty \in Nat /\ lots[i].basis \in Int
<1>1. lots[i] \in Lots
  OBVIOUS
<1> QED BY <1>1 DEF QtyOf, BasisOf, Lots

LEMMA BookType ==
  ASSUME NEW b \in Books
  PROVE  BookQty(b) \in Nat /\ BookBasis(b) \in Int
<1>1. b.lots \in Seq(Lots) /\ b.qty \in Nat /\ b.basis \in Int /\ b.pooled \in BOOLEAN
  BY DEF Books
<1>2. DOMAIN QtyOf(b.lots) = DOMAIN b.lots
  BY DEF QtyOf
<1>3. OpenLots(b) \subseteq DOMAIN b.lots
  BY DEF OpenLots
<1>4. SumFunction(QtyOf(b.lots)) \in Nat
  <2>1. IsFiniteSet(DOMAIN b.lots) /\ \A i \in DOMAIN b.lots : QtyOf(b.lots)[i] \in Nat
    BY <1>1, LotsFinite, LotValues
  <2>2. /\ SumFunctionOnSet(QtyOf(b.lots), DOMAIN b.lots) \in Int
        /\ SumFunctionOnSet(QtyOf(b.lots), DOMAIN b.lots) >= 0
    BY <2>1, SumType
  <2> QED BY <1>2, <2>2 DEF SumFunction
<1>5. SumFunctionOnSet(BasisOf(b.lots), OpenLots(b)) \in Int
  <2>1. IsFiniteSet(OpenLots(b)) /\ \A i \in OpenLots(b) : BasisOf(b.lots)[i] \in Int
    BY <1>1, <1>3, LotsFinite, LotValues
  <2> QED BY <2>1, SumType
<1> QED BY <1>1, <1>4, <1>5 DEF BookQty, BookBasis

LEMMA OpenType ==
  ASSUME NEW bs \in [Keys -> Books]
  PROVE  OpenQty(bs) \in Nat /\ OpenBasis(bs) \in Int
<1>1. \A k \in Keys : BookQty(bs[k]) \in Nat /\ BookBasis(bs[k]) \in Int
  BY BookType
<1>2. SumFunctionOnSet([k \in Keys |-> BookQty(bs[k])], Keys) \in Nat
  <2> DEFINE f == [k \in Keys |-> BookQty(bs[k])]
  <2>1. \A k \in Keys : f[k] \in Int /\ f[k] >= 0
    BY <1>1
  <2> HIDE DEF f
  <2>2. SumFunctionOnSet(f, Keys) \in Int /\ SumFunctionOnSet(f, Keys) >= 0
    BY <2>1, KeysFinite, SumType
  <2> QED BY <2>2 DEF f
<1>3. SumFunctionOnSet([k \in Keys |-> BookBasis(bs[k])], Keys) \in Int
  <2> DEFINE f == [k \in Keys |-> BookBasis(bs[k])]
  <2>1. \A k \in Keys : f[k] \in Int
    BY <1>1
  <2> HIDE DEF f
  <2>2. SumFunctionOnSet(f, Keys) \in Int
    BY <2>1, KeysFinite, SumType
  <2> QED BY <2>2 DEF f
<1> QED BY <1>2, <1>3 DEF OpenQty, OpenBasis, SumFunction

\* A change of one book is a change of the whole by as much.
LEMMA OpenBasisChange ==
  ASSUME NEW bs \in [Keys -> Books], NEW k \in Keys, NEW b \in Books
  PROVE  OpenBasis([bs EXCEPT ![k] = b]) = OpenBasis(bs) - BookBasis(bs[k]) + BookBasis(b)
<1> DEFINE f == [j \in Keys |-> BookBasis(bs[j])]
           bt == [bs EXCEPT ![k] = b]
           g == [j \in Keys |-> BookBasis(bt[j])]
<1>1. bt \in [Keys -> Books] /\ bt[k] = b /\ \A j \in Keys \ {k} : bt[j] = bs[j]
  OBVIOUS
<1>2. /\ \A j \in Keys : f[j] = BookBasis(bs[j]) /\ g[j] = BookBasis(bt[j])
      /\ DOMAIN f = Keys /\ DOMAIN g = Keys
  OBVIOUS
<1>3. OpenBasis(bs) = SumFunctionOnSet(f, Keys) /\ OpenBasis(bt) = SumFunctionOnSet(g, Keys)
  BY DEF OpenBasis, SumFunction
<1>4. \A j \in Keys : BookBasis(bs[j]) \in Int /\ BookBasis(bt[j]) \in Int
  BY <1>1, BookType
<1> HIDE DEF f, g, bt
<1>5. /\ \A j \in Keys : f[j] \in Int
      /\ g[k] \in Int /\ \A j \in Keys \ {k} : g[j] = f[j]
  BY <1>1, <1>2, <1>4
<1>6. SumFunctionOnSet(g, Keys) = SumFunctionOnSet(f, Keys) - f[k] + g[k]
  BY <1>5, KeysFinite, SumChange
<1> QED BY <1>1, <1>2, <1>3, <1>6 DEF bt

LEMMA OpenQtyChange ==
  ASSUME NEW bs \in [Keys -> Books], NEW k \in Keys, NEW b \in Books
  PROVE  OpenQty([bs EXCEPT ![k] = b]) = OpenQty(bs) - BookQty(bs[k]) + BookQty(b)
<1> DEFINE f == [j \in Keys |-> BookQty(bs[j])]
           bt == [bs EXCEPT ![k] = b]
           g == [j \in Keys |-> BookQty(bt[j])]
<1>1. bt \in [Keys -> Books] /\ bt[k] = b /\ \A j \in Keys \ {k} : bt[j] = bs[j]
  OBVIOUS
<1>2. /\ \A j \in Keys : f[j] = BookQty(bs[j]) /\ g[j] = BookQty(bt[j])
      /\ DOMAIN f = Keys /\ DOMAIN g = Keys
  OBVIOUS
<1>3. OpenQty(bs) = SumFunctionOnSet(f, Keys) /\ OpenQty(bt) = SumFunctionOnSet(g, Keys)
  BY DEF OpenQty, SumFunction
<1>4. \A j \in Keys : BookQty(bs[j]) \in Int /\ BookQty(bt[j]) \in Int
  BY <1>1, BookType
<1> HIDE DEF f, g, bt
<1>5. /\ \A j \in Keys : f[j] \in Int
      /\ g[k] \in Int /\ \A j \in Keys \ {k} : g[j] = f[j]
  BY <1>1, <1>2, <1>4
<1>6. SumFunctionOnSet(g, Keys) = SumFunctionOnSet(f, Keys) - f[k] + g[k]
  BY <1>5, KeysFinite, SumChange
<1> QED BY <1>1, <1>2, <1>3, <1>6 DEF bt

\* An empty book.
LEMMA NewBookHolds == NewBook \in Books /\ BookQty(NewBook) = 0 /\ BookBasis(NewBook) = 0
<1>1. NewBook \in Books /\ NewBook.lots = <<>> /\ NewBook.qty = 0 /\ NewBook.basis = 0
  BY DEF NewBook, Books
<1>2. OpenLots(NewBook) = {} /\ DOMAIN QtyOf(NewBook.lots) = {}
  BY <1>1 DEF OpenLots, QtyOf
<1> QED BY <1>1, <1>2, SumEmpty DEF BookQty, BookBasis, SumFunction

\* A lot more holds its quantity and its basis more.
LEMMA LotAdded ==
  ASSUME NEW b \in Books, NEW qty \in Nat \ {0}, NEW basis \in Int
  PROVE  /\ AddLot(b, qty, basis) \in Books /\ AddLot(b, qty, basis).pooled = b.pooled
         /\ b.pooled => /\ BookQty(AddLot(b, qty, basis)) = BookQty(b)
                        /\ BookBasis(AddLot(b, qty, basis)) = BookBasis(b)
         /\ ~b.pooled => /\ BookQty(AddLot(b, qty, basis)) = BookQty(b) + qty
                         /\ BookBasis(AddLot(b, qty, basis)) = BookBasis(b) + basis
<1> DEFINE c == AddLot(b, qty, basis)
           n == Len(b.lots) + 1
           l == [qty |-> qty, basis |-> basis]
<1>1. b.lots \in Seq(Lots) /\ b.qty \in Nat /\ b.basis \in Int /\ b.pooled \in BOOLEAN
  BY DEF Books
<1>2. l \in Lots
  BY DEF Lots
<1>3. /\ c \in Books /\ c.pooled = b.pooled /\ c.qty = b.qty /\ c.basis = b.basis
      /\ c.lots = Append(b.lots, l)
  BY <1>1, <1>2 DEF AddLot, Books
<1>4. /\ n \in Nat \ {0} /\ DOMAIN b.lots = 1..(n - 1) /\ DOMAIN c.lots = 1..n /\ n \notin DOMAIN b.lots
      /\ c.lots[n] = l /\ \A i \in DOMAIN b.lots : c.lots[i] = b.lots[i]
      /\ c.lots \in Seq(Lots)
  BY <1>1, <1>2, <1>3
<1> HIDE DEF c, n
<1>5. DOMAIN c.lots = DOMAIN b.lots \cup {n}
  BY <1>4
<1>6. BookQty(c) = IF b.pooled THEN BookQty(b) ELSE BookQty(b) + qty
  <2>1. /\ DOMAIN QtyOf(c.lots) = DOMAIN b.lots \cup {n} /\ DOMAIN QtyOf(b.lots) = DOMAIN b.lots
        /\ QtyOf(c.lots)[n] = qty /\ QtyOf(c.lots)[n] \in Int
        /\ \A i \in DOMAIN b.lots : QtyOf(c.lots)[i] = QtyOf(b.lots)[i] /\ QtyOf(c.lots)[i] \in Int
    <3>1. \A i \in DOMAIN b.lots : b.lots[i].qty \in Int
      BY <1>1, LotValues
    <3> QED BY <3>1, <1>4, <1>5 DEF QtyOf
  <2>2. IsFiniteSet(DOMAIN b.lots)
    BY <1>1, LotsFinite
  <2>3. SumFunctionOnSet(QtyOf(c.lots), DOMAIN b.lots \cup {n})
          = SumFunctionOnSet(QtyOf(c.lots), DOMAIN b.lots) + qty
    BY <1>4, <2>1, <2>2, SumMore
  <2>4. SumFunctionOnSet(QtyOf(c.lots), DOMAIN b.lots) = SumFunctionOnSet(QtyOf(b.lots), DOMAIN b.lots)
    BY <2>1, <2>2, SumSame
  <2> QED BY <1>3, <2>1, <2>3, <2>4 DEF BookQty, SumFunction
<1>7. BookBasis(c) = IF b.pooled THEN BookBasis(b) ELSE BookBasis(b) + basis
  <2>1. OpenLots(c) = OpenLots(b) \cup {n} /\ n \notin OpenLots(b) /\ OpenLots(b) \subseteq DOMAIN b.lots
    BY <1>4, <1>5 DEF OpenLots
  <2>2. /\ BasisOf(c.lots)[n] = basis
        /\ \A i \in OpenLots(b) : BasisOf(c.lots)[i] = BasisOf(b.lots)[i] /\ BasisOf(c.lots)[i] \in Int
    <3>1. \A i \in DOMAIN b.lots : b.lots[i].basis \in Int
      BY <1>1, LotValues
    <3> QED BY <3>1, <1>4, <1>5, <2>1 DEF BasisOf
  <2>3. IsFiniteSet(OpenLots(b))
    BY <1>1, <2>1, LotsFinite
  <2>4. SumFunctionOnSet(BasisOf(c.lots), OpenLots(b) \cup {n})
          = SumFunctionOnSet(BasisOf(c.lots), OpenLots(b)) + basis
    BY <2>1, <2>2, <2>3, SumMore
  <2>5. SumFunctionOnSet(BasisOf(c.lots), OpenLots(b)) = SumFunctionOnSet(BasisOf(b.lots), OpenLots(b))
    BY <2>2, <2>3, SumSame
  <2> QED BY <1>3, <2>1, <2>4, <2>5 DEF BookBasis
<1> QED BY <1>1, <1>3, <1>6, <1>7 DEF c

\* So does an acquisition, in every kind of book.
LEMMA Bought1 ==
  ASSUME NEW b \in Books, NEW a \in Activities
  PROVE  /\ BuyInto(b, a) \in Books /\ BuyInto(b, a).pooled = b.pooled
         /\ BookQty(BuyInto(b, a)) = BookQty(b) + a.qty
         /\ BookBasis(BuyInto(b, a)) = BookBasis(b) + a.amount
<1>1. a.qty \in Nat \ {0} /\ a.amount \in Int
  BY ActivityType
<1>2. CASE ~b.pooled
  BY <1>1, <1>2, LotAdded DEF BuyInto
<1>3. CASE b.pooled
  <2> DEFINE pool == AddToPool(b, a.qty, a.amount)
  <2>1. b.lots \in Seq(Lots) /\ b.qty \in Nat /\ b.basis \in Int /\ b.qty + a.qty \in Nat
    BY <1>1 DEF Books
  <2>2. /\ pool \in Books /\ pool.pooled /\ pool.qty = b.qty + a.qty
        /\ pool.basis = b.basis + a.amount
    <3>1. b.basis + a.amount \in Int
      BY <1>1, <2>1
    <3>2. ASSUME NEW x \in Nat, NEW y \in Int
          PROVE  [b EXCEPT !.qty = x, !.basis = y] \in Books
      BY DEF Books
    <3>3. pool \in Books
      BY <2>1, <3>1, <3>2 DEF AddToPool
    <3> QED BY <1>3, <3>3 DEF AddToPool, Books
  <2>3. BookQty(pool) = BookQty(b) + a.qty /\ BookBasis(pool) = BookBasis(b) + a.amount
    BY <1>3, <2>2 DEF BookQty, BookBasis
  <2> HIDE DEF pool
  <2>4. /\ AddLot(pool, a.qty, 0) \in Books /\ AddLot(pool, a.qty, 0).pooled
        /\ BookQty(AddLot(pool, a.qty, 0)) = BookQty(pool)
        /\ BookBasis(AddLot(pool, a.qty, 0)) = BookBasis(pool)
    BY <1>1, <2>2, LotAdded
  <2>5. BuyInto(b, a) = IF method = "average" THEN pool ELSE AddLot(pool, a.qty, 0)
    BY <1>3 DEF BuyInto, pool
  <2>6. CASE method = "average"
    BY <1>3, <2>2, <2>3, <2>5, <2>6
  <2>7. CASE method # "average"
    BY <1>3, <2>3, <2>4, <2>5, <2>7
  <2> QED BY <2>6, <2>7
<1>4. b.pooled \in BOOLEAN
  BY DEF Books
<1> QED BY <1>2, <1>3, <1>4

\* A book that becomes a pool holds what it held.
LEMMA PooledHolds ==
  ASSUME NEW b \in Books
  PROVE  /\ Pooled(b) \in Books /\ Pooled(b).pooled
         /\ Pooled(b).qty = BookQty(b) /\ Pooled(b).basis = BookBasis(b)
<1>1. b.lots \in Seq(Lots) /\ b.qty \in Nat /\ b.basis \in Int /\ b.pooled \in BOOLEAN
  BY DEF Books
<1>2. CASE b.pooled
  BY <1>2 DEF Pooled, BookQty, BookBasis
<1>3. CASE ~b.pooled
  <2> DEFINE lots == [i \in DOMAIN b.lots |-> [b.lots[i] EXCEPT !.basis = 0]]
  <2>1. lots \in Seq(Lots)
    <3>1. \A i \in DOMAIN b.lots : [b.lots[i] EXCEPT !.basis = 0] \in Lots
      <4> SUFFICES ASSUME NEW i \in DOMAIN b.lots PROVE [b.lots[i] EXCEPT !.basis = 0] \in Lots
        OBVIOUS
      <4>1. b.lots[i] \in Lots
        BY <1>1
      <4> QED BY <4>1 DEF Lots
    <3>2. DOMAIN b.lots = 1..Len(b.lots) /\ Len(b.lots) \in Nat
      BY <1>1
    <3> QED BY <3>1, <3>2
  <2>2. BookQty(b) \in Nat /\ BookBasis(b) \in Int
    BY BookType
  <2>3. Pooled(b) = [lots |-> lots, pooled |-> TRUE, qty |-> BookQty(b), basis |-> BookBasis(b)]
    BY <1>3 DEF Pooled
  <2> HIDE DEF lots
  <2> QED BY <2>1, <2>2, <2>3 DEF Books
<1> QED BY <1>1, <1>2, <1>3

\* What is taken from a lot, its basis and its quantity, the book loses; a lot that is
\* used up leaves no basis behind.
LEMMA LotTaken ==
  ASSUME NEW b \in Books, ~b.pooled, NEW i \in OpenLots(b), NEW t \in Nat, t <= b.lots[i].qty,
         NEW portion \in Int, t = b.lots[i].qty => portion = b.lots[i].basis,
         NEW c \in Books, ~c.pooled, DOMAIN c.lots = DOMAIN b.lots,
         c.lots[i].qty = b.lots[i].qty - t, c.lots[i].basis = b.lots[i].basis - portion,
         \A j \in DOMAIN b.lots \ {i} : c.lots[j] = b.lots[j]
  PROVE  BookQty(c) = BookQty(b) - t /\ BookBasis(c) = BookBasis(b) - portion
<1> DEFINE l == c.lots[i]
<1>1. b.lots \in Seq(Lots) /\ b.qty \in Nat /\ b.basis \in Int /\ i \in DOMAIN b.lots
  BY DEF Books, OpenLots
<1>2. /\ b.lots[i].qty \in Nat /\ b.lots[i].basis \in Int
      /\ \A j \in DOMAIN b.lots : b.lots[j].qty \in Nat /\ b.lots[j].basis \in Int
  BY <1>1, LotValues
<1>3. l.qty = b.lots[i].qty - t /\ l.basis = b.lots[i].basis - portion
  OBVIOUS
<1> HIDE DEF l
<1>7. /\ c \in Books /\ ~c.pooled /\ DOMAIN c.lots = DOMAIN b.lots
      /\ c.lots[i] = l /\ \A j \in DOMAIN b.lots \ {i} : c.lots[j] = b.lots[j]
  BY DEF l
<1>8. BookQty(c) = BookQty(b) - t
  <2> DEFINE f == QtyOf(b.lots)
             g == QtyOf(c.lots)
             D == DOMAIN b.lots
  <2>1. DOMAIN f = D /\ DOMAIN g = D /\ \A j \in D : f[j] = b.lots[j].qty /\ g[j] = c.lots[j].qty
    BY <1>7 DEF QtyOf
  <2>2. BookQty(b) = SumFunctionOnSet(f, D) /\ BookQty(c) = SumFunctionOnSet(g, D)
    BY <1>7, <2>1 DEF BookQty, SumFunction
  <2>3. IsFiniteSet(D)
    BY <1>1, LotsFinite
  <2> HIDE DEF f, g
  <2>4. g[i] = f[i] - t /\ g[i] \in Int /\ f[i] \in Int
    BY <1>1, <1>2, <1>3, <1>7, <2>1
  <2>5. /\ \A j \in D : f[j] \in Int
        /\ \A j \in D \ {i} : g[j] = f[j]
    BY <1>2, <1>7, <2>1
  <2> HIDE DEF D
  <2>6. SumFunctionOnSet(g, D) = SumFunctionOnSet(f, D) - f[i] + g[i]
    BY <1>1, <2>3, <2>4, <2>5, SumChange DEF D
  <2>7. SumFunctionOnSet(f, D) \in Int
    BY <2>3, <2>5, SumType
  <2> QED BY <2>2, <2>4, <2>6, <2>7
<1>9. BookBasis(c) = BookBasis(b) - portion
  <2> DEFINE f == BasisOf(b.lots)
             g == BasisOf(c.lots)
             O == OpenLots(b)
             P == OpenLots(c)
  <2>1. \A j \in DOMAIN b.lots : f[j] = b.lots[j].basis /\ g[j] = c.lots[j].basis
    BY <1>7 DEF BasisOf
  <2>2. BookBasis(b) = SumFunctionOnSet(f, O) /\ BookBasis(c) = SumFunctionOnSet(g, P)
    BY <1>7 DEF BookBasis
  <2>3. O \subseteq DOMAIN b.lots /\ IsFiniteSet(O)
    BY <1>1, LotsFinite DEF OpenLots
  <2>4. P \subseteq O /\ \A j \in O \ P : j = i /\ b.lots[i].qty = t
    <3>1. l.qty \in Int /\ l.qty = b.lots[i].qty - t
      BY <1>2, <1>3
    <3>2. i \in O /\ (i \notin P => b.lots[i].qty = t)
      BY <1>1, <1>2, <1>7, <3>1 DEF OpenLots
    <3>3. \A j \in DOMAIN b.lots \ {i} : j \in O <=> j \in P
      BY <1>7 DEF OpenLots
    <3>4. P \subseteq DOMAIN b.lots
      BY <1>7 DEF OpenLots
    <3> HIDE DEF O, P
    <3> QED BY <2>3, <3>2, <3>3, <3>4
  <2> HIDE DEF f, g
  <2>5. g[i] = f[i] - portion /\ g[i] \in Int /\ f[i] \in Int
    BY <1>1, <1>2, <1>3, <1>7, <2>1
  <2>6. /\ \A j \in O : f[j] \in Int
        /\ \A j \in O \ {i} : g[j] = f[j]
    BY <1>2, <1>7, <2>1, <2>3
  <2>7. \A j \in O \ P : g[j] = 0
    <3>1. b.lots[i].qty = t => f[i] = portion
      BY <1>1, <2>1
    <3> QED BY <2>4, <2>5, <3>1
  <2> HIDE DEF O, P
  <2>8. SumFunctionOnSet(g, O) = SumFunctionOnSet(f, O) - f[i] + g[i]
    BY <2>3, <2>5, <2>6, SumChange DEF O
  <2>9. \A j \in O : g[j] \in Int
    BY <2>5, <2>6
  <2>10. SumFunctionOnSet(g, O) = SumFunctionOnSet(g, P)
    BY <2>3, <2>4, <2>7, <2>9, SumZeros
  <2>11. SumFunctionOnSet(f, O) \in Int
    BY <2>3, <2>6, SumType
  <2> QED BY <2>2, <2>5, <2>8, <2>10, <2>11
<1> QED BY <1>8, <1>9

\* Exact lots of no quantity have no basis.
LEMMA NothingLeft ==
  ASSUME NEW b \in Books, ~b.pooled, BookQty(b) = 0
  PROVE  OpenLots(b) = {} /\ BookBasis(b) = 0
<1>1. b.lots \in Seq(Lots)
  BY DEF Books
<1>2. /\ DOMAIN QtyOf(b.lots) = DOMAIN b.lots /\ IsFiniteSet(DOMAIN b.lots)
      /\ \A i \in DOMAIN b.lots : QtyOf(b.lots)[i] = b.lots[i].qty /\ QtyOf(b.lots)[i] \in Nat
  BY <1>1, LotsFinite, LotValues DEF QtyOf
<1>3. SumFunctionOnSet(QtyOf(b.lots), DOMAIN b.lots) = 0
  BY <1>2 DEF BookQty, SumFunction
<1>4. \A i \in DOMAIN b.lots : QtyOf(b.lots)[i] <= 0
  BY <1>2, <1>3, SumBounds
<1>5. OpenLots(b) = {}
  BY <1>2, <1>4 DEF OpenLots
<1> QED BY <1>5, SumEmpty DEF BookBasis

\* The lots beside a pool stay lots when the oldest are used up.
LEMMA OldestType ==
  ASSUME NEW lots \in Seq(Lots), NEW q \in Nat
  PROVE  OldestConsumed(lots, q) \in Seq(Lots) /\ DOMAIN OldestConsumed(lots, q) = DOMAIN lots
<1>1. Len(lots) \in Nat /\ DOMAIN lots = 1..Len(lots)
  OBVIOUS
<1> DEFINE ahead(i) == SumFunctionOnSet(QtyOf(lots), 1..(i - 1))
           taken(i) == Max({0, Min({lots[i].qty, q - ahead(i)})})
<1>2. ASSUME NEW i \in DOMAIN lots PROVE [lots[i] EXCEPT !.qty = @ - taken(i)] \in Lots
  <2>1. lots[i] \in Lots /\ lots[i].qty \in Nat
    BY LotValues
  <2>2. ahead(i) \in Int
    <3>1. 1..(i - 1) \subseteq DOMAIN lots /\ IsFiniteSet(1..(i - 1))
      <4>1. i - 1 \in Int /\ 1..(i - 1) \subseteq DOMAIN lots
        BY <1>1
      <4> QED BY <4>1, FS_Interval
    <3>2. \A j \in 1..(i - 1) : QtyOf(lots)[j] \in Int
      BY <3>1, LotValues
    <3> QED BY <3>1, <3>2, SumType
  <2> DEFINE m == Min({lots[i].qty, q - ahead(i)})
  <2> HIDE DEF ahead
  <2>3. m \in Int /\ m <= lots[i].qty
    BY <2>1, <2>2, MinOfTwo
  <2> HIDE DEF m
  <2>4. Max({0, m}) \in 0..lots[i].qty
    BY <2>1, <2>3, MaxOfTwo
  <2>5. taken(i) \in 0..lots[i].qty
    BY <2>4 DEF m
  <2> HIDE DEF taken
  <2>6. lots[i].qty - taken(i) \in Nat
    BY <2>1, <2>5
  <2> QED BY <2>1, <2>6 DEF Lots
<1>3. OldestConsumed(lots, q) = [i \in DOMAIN lots |-> [lots[i] EXCEPT !.qty = @ - taken(i)]]
  BY DEF OldestConsumed
<1> HIDE DEF taken
<1>4. /\ DOMAIN OldestConsumed(lots, q) = 1..Len(lots)
      /\ OldestConsumed(lots, q) \in [1..Len(lots) -> Lots]
  <2> DEFINE lot(i) == [lots[i] EXCEPT !.qty = @ - taken(i)]
             D == 1..Len(lots)
  <2>1. (\A i \in D : lot(i) \in Lots) /\ OldestConsumed(lots, q) = [i \in D |-> lot(i)]
    BY <1>1, <1>2, <1>3
  <2> HIDE DEF lot, D
  <2>2. OldestConsumed(lots, q) \in [D -> Lots]
    BY <2>1
  <2>3. DOMAIN OldestConsumed(lots, q) = D
    BY <2>2
  <2> QED BY <2>2, <2>3 DEF D
<1> QED BY <1>1, <1>4

-----------------------------------------------------------------------------
(* The order of disposal.                                                  *)

\* A quotient that is not below another, which is not below a third.
LEMMA CrossMultiplied ==
  ASSUME NEW a \in Int, NEW b \in Int, NEW c \in Int,
         NEW x \in Nat \ {0}, NEW y \in Nat \ {0}, NEW z \in Nat \ {0},
         a * y >= b * x, b * z >= c * y
  PROVE  /\ a * z >= c * x
         /\ a * z = c * x => a * y = b * x /\ b * z = c * y
<1> DEFINE p == a * y
           q == b * x
           r == b * z
           s == c * y
           d == a * z
           e == c * x
<1>1. p \in Int /\ q \in Int /\ r \in Int /\ s \in Int /\ d \in Int /\ e \in Int
  OBVIOUS
<1>2. q * z = r * x /\ d * y = p * z /\ e * y = s * x
  OBVIOUS
<1> HIDE DEF p, q, r, s, d, e
<1>3. p >= q /\ r >= s
  BY DEF p, q, r, s
<1>4. p * z >= q * z /\ (p > q => p * z > q * z)
  BY <1>1, <1>3
<1>5. r * x >= s * x /\ (r > s => r * x > s * x)
  BY <1>1, <1>3
<1>6. d * y >= e * y /\ (d = e => p = q /\ r = s)
  <2>1. q * z \in Int /\ p * z \in Int /\ r * x \in Int /\ s * x \in Int
    BY <1>1
  <2>2. d = e => d * y = e * y
    OBVIOUS
  <2> QED BY <1>1, <1>2, <1>3, <1>4, <1>5, <2>1, <2>2
<1>7. d >= e
  BY <1>1, <1>6
<1> QED BY <1>6, <1>7 DEF p, q, r, s, d, e

\* The pairs of open lots of which the first is taken from first.
Earlier(b) == {w \in OpenLots(b) \X OpenLots(b) : Before(b.lots, w[1], w[2])}

LEMMA LotsAreOrdered ==
  ASSUME NEW b \in Books
  PROVE  Orders(Earlier(b), OpenLots(b))
<1> DEFINE S == OpenLots(b)
<1>1. b.lots \in Seq(Lots)
  BY DEF Books
<1>2. \A i \in S : i \in Nat /\ b.lots[i].qty \in Nat \ {0} /\ b.lots[i].basis \in Int
  <2>1. \A i \in DOMAIN b.lots : i \in Nat /\ b.lots[i].qty \in Nat /\ b.lots[i].basis \in Int
    BY <1>1, LotValues
  <2> QED BY <2>1 DEF OpenLots
<1>3. \A i, j \in S : <<i, j>> \in Earlier(b) <=> Before(b.lots, i, j)
  BY DEF Earlier
<1> HIDE DEF S
<1>4. CASE method = "hifo"
  <2> DEFINE q(i) == b.lots[i].qty
             v(i) == b.lots[i].basis
             up(i, j) == v(i) * q(j) > v(j) * q(i)
  <2>1. \A i, j \in S : <<i, j>> \in Earlier(b) <=> up(i, j) \/ (~up(j, i) /\ i < j)
    <3>1. \A i, j : Before(b.lots, i, j)
                      <=> \/ UnitCostAbove(b.lots[i], b.lots[j])
                          \/ ~UnitCostAbove(b.lots[j], b.lots[i]) /\ i < j
      BY <1>4 DEF Before
    <3>2. \A i, j : UnitCostAbove(b.lots[i], b.lots[j]) <=> up(i, j)
      BY DEF UnitCostAbove
    <3> HIDE DEF up
    <3> QED BY <1>3, <3>1, <3>2
  <2>2. \A i, j \in S : v(i) * q(j) \in Int /\ v(j) * q(i) \in Int
    BY <1>2
  <2>3. ASSUME NEW i \in S, NEW j \in S, NEW k \in S, ~up(j, i), ~up(k, j)
        PROVE  ~up(k, i) /\ (~up(i, k) => ~up(i, j) /\ ~up(j, k))
    <3>1. v(i) * q(j) >= v(j) * q(i) /\ v(j) * q(k) >= v(k) * q(j)
      BY <2>2, <2>3
    <3>2. /\ v(i) \in Int /\ v(j) \in Int /\ v(k) \in Int
          /\ q(i) \in Nat \ {0} /\ q(j) \in Nat \ {0} /\ q(k) \in Nat \ {0}
      BY <1>2
    <3> HIDE DEF q, v
    <3>3. /\ v(i) * q(k) >= v(k) * q(i)
          /\ v(i) * q(k) = v(k) * q(i) => v(i) * q(j) = v(j) * q(i) /\ v(j) * q(k) = v(k) * q(j)
      BY <3>1, <3>2, CrossMultiplied
    <3> QED BY <2>2, <3>3
  <2> HIDE DEF q, v
  <2>4. \A i, j \in S : ~(up(i, j) /\ up(j, i))
    BY <2>2
  <2> HIDE DEF up
  <2>5. \A i \in S : <<i, i>> \notin Earlier(b)
    BY <1>2, <2>1, <2>4
  <2>6. \A i, j \in S : i # j => <<i, j>> \in Earlier(b) \/ <<j, i>> \in Earlier(b)
    <3>1. \A i, j \in S : i # j => i < j \/ j < i
      BY <1>2
    <3> QED BY <2>1, <2>4, <3>1
  <2>7. ASSUME NEW i \in S, NEW j \in S, NEW k \in S, <<i, j>> \in Earlier(b), <<j, k>> \in Earlier(b)
        PROVE  <<i, k>> \in Earlier(b)
    <3>1. ~up(j, i) /\ ~up(k, j)
      BY <2>1, <2>4, <2>7
    <3>2. ~up(k, i) /\ (~up(i, k) => ~up(i, j) /\ ~up(j, k))
      BY <2>3, <3>1
    <3>3. up(i, k) \/ (i < j /\ j < k)
      BY <2>1, <2>7, <3>2
    <3>4. i < j /\ j < k => i < k
      BY <1>2
    <3> QED BY <2>1, <3>2, <3>3, <3>4
  <2> QED BY <2>5, <2>6, <2>7 DEF Orders, S
<1>5. CASE method # "hifo"
  <2>1. \A i, j \in S : <<i, j>> \in Earlier(b) <=> IF method = "lifo" THEN i > j ELSE i < j
    BY <1>3, <1>5 DEF Before
  <2> QED BY <1>2, <2>1 DEF Orders, S
<1> QED BY <1>4, <1>5

\* A disposal that starts has all open lots in its queue, each once, in the order of disposal.
LEMMA QueueHolds ==
  ASSUME NEW b \in Books
  PROVE  LET q == DisposalOrder(b)
         IN /\ q \in Seq(OpenLots(b))
            /\ \A m, n \in DOMAIN q : m < n => Before(b.lots, q[m], q[n])
            /\ \A m, n \in DOMAIN q : m # n => q[m] # q[n]
            /\ \A i \in OpenLots(b) : \E m \in DOMAIN q : q[m] = i
<1> DEFINE S == OpenLots(b)
           N == Cardinality(S)
           q == DisposalOrder(b)
<1>1. IsFiniteSet(S) /\ N \in Nat
  <2>1. b.lots \in Seq(Lots) /\ S \subseteq DOMAIN b.lots
    BY DEF Books, OpenLots
  <2> QED BY <2>1, LotsFinite, FS_CardinalityType
<1>2. Orders(Earlier(b), S)
  BY LotsAreOrdered
<1>3. \A t \in [1..N -> S] :
         Sorted(Earlier(b), t) <=> \A m, n \in DOMAIN t : m < n => Before(b.lots, t[m], t[n])
  BY DEF Sorted, Earlier
<1>4. \E t \in [1..N -> S] : Sorted(Earlier(b), t)
  <2> HIDE DEF S
  <2> QED BY <1>1, <1>2, SortedExists
<1>5. q \in [1..N -> S] /\ \A m, n \in DOMAIN q : m < n => Before(b.lots, q[m], q[n])
  <2>1. \E t \in [1..N -> S] : \A m, n \in DOMAIN t : m < n => Before(b.lots, t[m], t[n])
    BY <1>3, <1>4
  <2> QED BY <2>1 DEF DisposalOrder
<1> HIDE DEF q, S
<1>6. Sorted(Earlier(b), q)
  BY <1>3, <1>5
<1>7. /\ \A m, n \in DOMAIN q : m # n => q[m] # q[n]
      /\ \A i \in S : \E m \in DOMAIN q : q[m] = i
  BY <1>1, <1>2, <1>5, <1>6, SortedHoldsAll
<1>8. q \in Seq(S)
  BY <1>1, <1>5
<1> QED BY <1>5, <1>7, <1>8 DEF q, S

-----------------------------------------------------------------------------
(* Sums over the history.                                                  *)

LEMMA PrefixSum ==
  ASSUME NEW f, NEW n \in Nat, \A i \in 1..(n + 1) : f[i] \in Int
  PROVE  /\ SumFunctionOnSet(f, 1..(n + 1)) = SumFunctionOnSet(f, 1..n) + f[n + 1]
         /\ SumFunctionOnSet(f, 1..n) \in Int
<1> DEFINE S == 1..n
           x == n + 1
<1>1. IsFiniteSet(S)
  BY FS_Interval
<1>2. 1..(n + 1) = S \cup {x} /\ x \notin S /\ f[x] \in Int
  OBVIOUS
<1>3. \A i \in S : f[i] \in Int
  OBVIOUS
<1> HIDE DEF S, x
<1>4. SumFunctionOnSet(f, S \cup {x}) = SumFunctionOnSet(f, S) + f[x]
  BY <1>1, <1>2, <1>3, SumMore
<1>5. SumFunctionOnSet(f, S) \in Int
  BY <1>1, <1>3, SumType
<1>6. SumFunctionOnSet(f, 1..(n + 1)) = SumFunctionOnSet(f, S) + f[x]
  BY <1>2, <1>4
<1> QED BY <1>5, <1>6 DEF S, x

\* What the first n activities of the report cost.
CostOf(n) == Total(Replayed(n), LAMBDA i : IsBuy(Inputs[i]), LAMBDA i : Inputs[i].amount)

LEMMA ReplayedIs ==
  ASSUME Inputs \in Seq(Activities), NEW n \in 0..Len(Inputs)
  PROVE  /\ DOMAIN Replayed(n) = 1..n /\ Replayed(n) \in Seq(Activities) /\ Len(Replayed(n)) = n
         /\ \A i \in 1..n : Replayed(n)[i] = Inputs[i] /\ Inputs[i] \in Activities
<1>1. Len(Inputs) \in Nat /\ \A i \in 1..Len(Inputs) : Inputs[i] \in Activities
  OBVIOUS
<1>2. /\ SubSeq(Inputs, 1, n) \in Seq(Activities) /\ Len(SubSeq(Inputs, 1, n)) = n
      /\ \A i \in 1..n : SubSeq(Inputs, 1, n)[i] = Inputs[i]
  BY <1>1, SubSeqProperties
<1> QED BY <1>1, <1>2 DEF Replayed

LEMMA CostStart == Inputs \in Seq(Activities) => CostOf(0) = 0
<1> SUFFICES ASSUME Inputs \in Seq(Activities) PROVE CostOf(0) = 0
  OBVIOUS
<1>1. DOMAIN Replayed(0) = {}
  BY ReplayedIs
<1>2. {i \in DOMAIN Replayed(0) : IsBuy(Inputs[i])} = {}
  BY <1>1
<1> QED BY <1>2, SumEmpty DEF CostOf, Total

LEMMA CostMore ==
  ASSUME Inputs \in Seq(Activities), NEW n \in 0..(Len(Inputs) - 1)
  PROVE  /\ CostOf(n) \in Int
         /\ CostOf(n + 1) = CostOf(n) + IF IsBuy(Inputs[n + 1]) THEN Inputs[n + 1].amount ELSE 0
<1> DEFINE f == [i \in 1..n |-> Inputs[i].amount]
           g == [i \in 1..(n + 1) |-> Inputs[i].amount]
           F == {i \in 1..n : IsBuy(Inputs[i])}
           G == {i \in 1..(n + 1) : IsBuy(Inputs[i])}
<1>1. DOMAIN Replayed(n) = 1..n /\ DOMAIN Replayed(n + 1) = 1..(n + 1)
  <2>1. n \in 0..Len(Inputs) /\ n + 1 \in 0..Len(Inputs)
    OBVIOUS
  <2> QED BY <2>1, ReplayedIs
<1>2. CostOf(n) = SumFunctionOnSet(f, F) /\ CostOf(n + 1) = SumFunctionOnSet(g, G)
  BY <1>1 DEF CostOf, Total
<1>3. \A i \in 1..(n + 1) : Inputs[i].amount \in Int
  <2>1. \A i \in 1..(n + 1) : Inputs[i] \in Activities
    OBVIOUS
  <2> QED BY <2>1, ActivityType
<1>4. IsFiniteSet(F) /\ F \subseteq 1..n
  <2>1. IsFiniteSet(1..n)
    BY FS_Interval
  <2> QED BY <2>1, FS_Subset
<1>5. \A i \in F : f[i] = g[i] /\ f[i] \in Int /\ g[i] \in Int
  BY <1>3
<1>6. g[n + 1] = Inputs[n + 1].amount /\ g[n + 1] \in Int /\ n + 1 \notin F
  BY <1>3
<1>7. G = IF IsBuy(Inputs[n + 1]) THEN F \cup {n + 1} ELSE F
  OBVIOUS
<1> HIDE DEF f, g, F, G
<1>8. SumFunctionOnSet(f, F) = SumFunctionOnSet(g, F) /\ SumFunctionOnSet(f, F) \in Int
  BY <1>4, <1>5, SumSame, SumType
<1>9. SumFunctionOnSet(g, F \cup {n + 1}) = SumFunctionOnSet(g, F) + g[n + 1]
  BY <1>4, <1>5, <1>6, SumMore
<1> QED BY <1>2, <1>6, <1>7, <1>8, <1>9

LEMMA AllocatedStart == Allocated(<<>>) = 0
  BY SumEmpty DEF Allocated, SumFunction

LEMMA AllocatedMore ==
  ASSUME NEW audit \in Seq(AuditEntries), NEW e \in AuditEntries
  PROVE  /\ Allocated(audit) \in Int
         /\ Allocated(Append(audit, e)) = Allocated(audit) + e.allocated
<1> DEFINE n == Len(audit)
           t == Append(audit, e)
           f == [i \in DOMAIN audit |-> audit[i].allocated]
           g == [i \in DOMAIN t |-> t[i].allocated]
<1>1. /\ n \in Nat /\ DOMAIN audit = 1..n /\ DOMAIN t = 1..(n + 1) /\ t[n + 1] = e
      /\ \A i \in 1..n : t[i] = audit[i] /\ audit[i] \in AuditEntries
  OBVIOUS
<1>2. Allocated(audit) = SumFunctionOnSet(f, 1..n) /\ Allocated(t) = SumFunctionOnSet(g, 1..(n + 1))
  <2>1. DOMAIN f = 1..n /\ DOMAIN g = 1..(n + 1)
    BY <1>1
  <2> QED BY <2>1 DEF Allocated, SumFunction
<1>3. /\ g[n + 1] = e.allocated /\ e.allocated \in Int
      /\ \A i \in 1..n : f[i] = g[i] /\ g[i] \in Int
  BY <1>1 DEF AuditEntries
<1> HIDE DEF n, t, f, g
<1>4. \A i \in 1..(n + 1) : g[i] \in Int
  BY <1>1, <1>3
<1>5. /\ SumFunctionOnSet(g, 1..(n + 1)) = SumFunctionOnSet(g, 1..n) + g[n + 1]
      /\ SumFunctionOnSet(g, 1..n) \in Int
  BY <1>1, <1>4, PrefixSum
<1>6. SumFunctionOnSet(f, 1..n) = SumFunctionOnSet(g, 1..n)
  <2>1. IsFiniteSet(1..n)
    BY <1>1, FS_Interval
  <2> QED BY <1>3, <2>1, SumSame
<1> QED BY <1>2, <1>3, <1>5, <1>6 DEF t

-----------------------------------------------------------------------------
(* The invariant.                                                          *)

\* A disposal that goes through lots: its activity is the next one; its queue holds open
\* lots only, each once, in the order of disposal, and all of them while some is left.
Queued ==
  /\ \A m \in DOMAIN work.queue : work.queue[m] \in OpenLots(Book)
  /\ \A m, n \in DOMAIN work.queue :
       m < n => work.queue[m] # work.queue[n] /\ Before(Book.lots, work.queue[m], work.queue[n])
  /\ work.left > 0 => \A i \in OpenLots(Book) : \E m \in DOMAIN work.queue : work.queue[m] = i
Working == Replaying /\ pos < Len(Inputs) /\ Input.kind # "buy" /\ ~Book.pooled /\ Queued
WorkInv == IF work.on THEN Working ELSE work = NoWork

\* Only two methods have pools.
PoolInv == \A k \in Keys : books[k].pooled => method \in {"hybrid", "average"}

AtRest == ~Replaying => pos = 0

IInv == TypeOK /\ AtRest /\ WorkInv /\ PoolInv /\ BasisConserved

LEMMA InputsType == TypeOK => Inputs \in Seq(Activities) /\ Len(Inputs) \in Nat /\ Len(Inputs) <= Len(history)
<1> SUFFICES ASSUME TypeOK
             PROVE Inputs \in Seq(Activities) /\ Len(Inputs) \in Nat /\ Len(Inputs) <= Len(history)
  OBVIOUS
<1>1. year \in Int /\ history \in Seq(Activities)
  BY DEF TypeOK, Years
<1> QED BY <1>1, ThroughType DEF Inputs

\* The activity being replayed, its scope and its book.
LEMMA InputType ==
  ASSUME TypeOK, pos < Len(Inputs)
  PROVE  /\ Input \in Activities /\ Key(Inputs, Input) \in Keys /\ Book \in Books
         /\ Input.qty \in Nat \ {0} /\ Input.amount \in Int
<1>1. Inputs \in Seq(Activities) /\ pos + 1 \in 1..Len(Inputs)
  BY InputsType DEF TypeOK
<1>2. Input \in Activities
  BY <1>1 DEF Input
<1> QED BY <1>2, KeyType, ActivityType DEF Book, TypeOK

LEMMA NewTypes == /\ NoReport.replay = NewReplay /\ NewReplay \in Replays /\ NoWork \in Works
                  /\ NewReplay.audit = <<>> /\ NoWork.allocated = 0 /\ ~NoWork.on
                  /\ [k \in Keys |-> NewBook] \in [Keys -> Books]
<1>1. <<>> \in Seq(AuditEntries) /\ <<>> \in Seq(Nat)
  OBVIOUS
<1> QED BY <1>1, NewBookHolds DEF NoReport, NewReplay, Replays, NoWork, Works

\* New books hold nothing.
LEMMA NewBooksHold == OpenBasis([k \in Keys |-> NewBook]) = 0
<1> DEFINE f == [k \in Keys |-> BookBasis([j \in Keys |-> NewBook][k])]
<1>1. \A k \in Keys : f[k] = 0
  BY NewBookHolds
<1>2. DOMAIN f = Keys
  OBVIOUS
<1>3. OpenBasis([k \in Keys |-> NewBook]) = SumFunctionOnSet(f, Keys)
  BY <1>2 DEF OpenBasis, SumFunction
<1> HIDE DEF f
<1>4. SumFunctionOnSet(f, Keys) = SumFunctionOnSet(f, {})
  BY <1>1, KeysFinite, SumZeros
<1> QED BY <1>3, <1>4, SumEmpty

LEMMA NewPools ==
  ASSUME method' = method, books' = [k \in Keys |-> NewBook]
  PROVE  PoolInv'
<1>1. \A k \in Keys : books'[k].pooled => method = "average"
  BY DEF NewBook
<1> QED BY <1>1 DEF PoolInv

-----------------------------------------------------------------------------
(* How steps end.                                                          *)

\* The activities of a report stay what they were.
LEMMA InputsSame ==
  ASSUME history' = history, year' = year
  PROVE  Inputs' = Inputs /\ (Replaying' <=> Replaying)
  BY DEF Inputs, Through, Replaying

\* What they cost then only follows from how many were replayed.
LEMMA BasisThen ==
  ASSUME history' = history, year' = year
  PROVE  BasisConserved' <=>
           (Replaying => CostOf(pos') = OpenBasis(books') + Allocated(acc'.audit) + work'.allocated)
<1>1. Inputs' = Inputs /\ (Replaying' <=> Replaying)
  BY InputsSame
<1>2. BasisConserved' <=>
        (Replaying' =>
           SumFunctionOnSet([i \in DOMAIN SubSeq(Inputs', 1, pos') |-> Inputs'[i].amount],
                            {i \in DOMAIN SubSeq(Inputs', 1, pos') : IsBuy(Inputs'[i])})
             = OpenBasis(books') + Allocated(acc'.audit) + work'.allocated)
  BY DEF BasisConserved, Total, Replayed, IsBuy
<1>3. CostOf(pos') = SumFunctionOnSet([i \in DOMAIN SubSeq(Inputs, 1, pos') |-> Inputs[i].amount],
                                      {i \in DOMAIN SubSeq(Inputs, 1, pos') : IsBuy(Inputs[i])})
  BY DEF CostOf, Total, Replayed
<1> QED BY <1>1, <1>2, <1>3

\* A report that fails leaves nothing behind.
LEMMA Aborted ==
  ASSUME IInv, Replaying, Abort
  PROVE  IInv'
<1> USE DEF IInv
<1>1. /\ reports' = [reports EXCEPT ![year] = [NoReport EXCEPT !.status = "failed"]]
      /\ year' = 0 /\ pos' = 0 /\ work' = NoWork /\ acc' = NewReplay
      /\ books' = [k \in Keys |-> NewBook] /\ history' = history /\ method' = method
  BY DEF Abort
<1>2. year \in Years /\ 0 \in Int
  BY DEF TypeOK, Replaying
<1>3. Len(Inputs') \in Nat
  <2>1. history' \in Seq(Activities)
    BY <1>1 DEF TypeOK
  <2>2. Inputs' = Through(0)'
    BY <1>1 DEF Inputs, Through
  <2> QED BY <2>1, <2>2, ThroughLength
<1>4. TypeOK'
  <2>1. reports' \in [Years -> [status : {"none", "made", "failed"}, replay : Replays,
                                closeQty : Int, closeBasis : Int, main : BOOLEAN]]
    <3>1. [NoReport EXCEPT !.status = "failed"]
            \in [status : {"none", "made", "failed"}, replay : Replays,
                 closeQty : Int, closeBasis : Int, main : BOOLEAN]
      <4> DEFINE Reports == [status : {"none", "made", "failed"}, replay : Replays,
                             closeQty : Int, closeBasis : Int, main : BOOLEAN]
      <4>1. NoReport \in Reports
        BY NewTypes DEF NoReport
      <4>2. ASSUME NEW r \in Reports PROVE [r EXCEPT !.status = "failed"] \in Reports
        OBVIOUS
      <4> HIDE DEF Reports
      <4>3. [NoReport EXCEPT !.status = "failed"] \in Reports
        BY <4>1, <4>2
      <4> QED BY <4>3 DEF Reports
    <3> QED BY <1>1, <1>2, <3>1 DEF TypeOK
  <2>2. acc' \in Replays /\ Len(acc'.audit) = 0 /\ work' \in Works /\ books' \in [Keys -> Books]
    BY <1>1, NewTypes
  <2> QED BY <1>1, <1>3, <2>1, <2>2 DEF TypeOK
<1>5. WorkInv' /\ AtRest' /\ BasisConserved'
  BY <1>1, NewTypes DEF WorkInv, AtRest, BasisConserved, Replaying
<1>6. PoolInv'
  BY <1>1, NewPools
<1> QED BY <1>4, <1>5, <1>6

\* The end of an activity: the books hold what they held, plus what the activity cost if it
\* is an acquisition, minus what is allocated to it if it is not.
LEMMA Completed ==
  ASSUME IInv, Replaying, pos < Len(Inputs),
         NEW before \in Replays, before.audit = acc.audit,
         NEW bs \in [Keys -> Books], \A k \in Keys : bs[k].pooled => method \in {"hybrid", "average"},
         NEW allocated \in Int, NEW zero \in BOOLEAN,
         OpenBasis(bs) + allocated = OpenBasis(books) + work.allocated
                                       + (IF IsBuy(Input) THEN Input.amount ELSE 0),
         Complete(before, bs, allocated, zero)
  PROVE  IInv'
<1> USE DEF IInv
<1>1. CASE ~ValidReplayState(bs)
  BY <1>1, Aborted DEF Complete
<1>2. CASE ValidReplayState(bs)
  <2>1. /\ books' = bs /\ acc' = Applied(before, bs, allocated, zero)
        /\ pos' = pos + 1 /\ work' = NoWork /\ history' = history /\ method' = method
        /\ reports' = reports /\ year' = year
    BY <1>2 DEF Complete
  <2>2. Inputs' = Inputs /\ (Replaying' <=> Replaying)
    BY <2>1, InputsSame
  <2>3. Inputs \in Seq(Activities) /\ Len(Inputs) \in Nat /\ pos \in Nat
    BY InputsType DEF TypeOK
  <2>4. AuditEntry(allocated, zero) \in AuditEntries
    BY DEF AuditEntry, AuditEntries
  <2>5. /\ acc' \in Replays /\ acc'.audit = Append(acc.audit, AuditEntry(allocated, zero))
        /\ acc.audit \in Seq(AuditEntries) /\ Len(acc.audit) = pos
    <3>1. /\ before \in Replays /\ before.net \in Int /\ before.count \in Nat
          /\ before.inYear \in BOOLEAN /\ before.audit \in Seq(AuditEntries)
      BY DEF Replays
    <3>2. before.net + YearlyNetDelta(allocated) \in Int
      <4>1. Input.amount \in Int
        BY InputType
      <4> QED BY <3>1, <4>1 DEF YearlyNetDelta
    <3>3. (IF Liquidated(bs, zero) THEN before.count + 1 ELSE before.count) \in Nat
      BY <3>1
    <3>4. (before.inYear \/ (Liquidated(bs, zero) /\ Input.year = year)) \in BOOLEAN
      BY <3>1
    <3>5. Append(before.audit, AuditEntry(allocated, zero)) \in Seq(AuditEntries)
      BY <2>4, <3>1
    <3> DEFINE net == before.net + YearlyNetDelta(allocated)
               count == IF Liquidated(bs, zero) THEN before.count + 1 ELSE before.count
               inYear == before.inYear \/ (Liquidated(bs, zero) /\ Input.year = year)
               audit == Append(before.audit, AuditEntry(allocated, zero))
    <3>6. acc' = [before EXCEPT !.net = net, !.count = count, !.inYear = inYear, !.audit = audit]
      BY <2>1 DEF Applied
    <3>7. net \in Int /\ count \in Nat /\ inYear \in BOOLEAN /\ audit \in Seq(AuditEntries)
      BY <3>2, <3>3, <3>4, <3>5
    <3> HIDE DEF net, count, inYear, audit
    <3>8. acc' \in Replays /\ acc'.audit = audit
      BY <3>1, <3>6, <3>7 DEF Replays
    <3>9. acc.audit \in Seq(AuditEntries) /\ Len(acc.audit) = pos
      BY DEF TypeOK, Replays
    <3> QED BY <3>8, <3>9 DEF audit
  <2>6. TypeOK'
    <3>1. pos' \in 0..Len(Inputs') /\ Len(acc'.audit) = pos'
      <4>1. Len(Append(acc.audit, AuditEntry(allocated, zero))) = pos + 1
        BY <2>4, <2>5
      <4> QED BY <2>1, <2>2, <2>3, <2>5, <4>1
    <3>2. work' \in Works
      BY <2>1, NewTypes
    <3> QED BY <2>1, <2>5, <3>1, <3>2 DEF TypeOK
  <2>7. BasisConserved'
    <3> DEFINE e == AuditEntry(allocated, zero)
    <3>1. CostOf(pos) = OpenBasis(books) + Allocated(acc.audit) + work.allocated
      BY DEF BasisConserved, CostOf
    <3>2. /\ CostOf(pos) \in Int
          /\ CostOf(pos + 1) = CostOf(pos) + IF IsBuy(Input) THEN Input.amount ELSE 0
      BY <2>3, CostMore DEF Input
    <3>3. Allocated(acc.audit) \in Int /\ Allocated(acc'.audit) = Allocated(acc.audit) + allocated
      <4>1. e.allocated = allocated
        BY DEF AuditEntry
      <4> HIDE DEF e
      <4>2. e \in AuditEntries
        BY <2>4 DEF e
      <4> QED BY <2>5, <4>1, <4>2, AllocatedMore DEF e
    <3>4. /\ OpenBasis(bs) \in Int /\ OpenBasis(books) \in Int /\ work.allocated \in Int
          /\ Input.amount \in Int
      BY OpenType, InputType DEF TypeOK, Works
    <3>5. work'.allocated = 0
      BY <2>1, NewTypes
    <3> DEFINE c == IF IsBuy(Input) THEN Input.amount ELSE 0
               held == OpenBasis(books)
               holds == OpenBasis(bs)
               booked == Allocated(acc.audit)
               w == work.allocated
               cost == CostOf(pos)
    <3>6. /\ c \in Int /\ held \in Int /\ holds \in Int /\ booked \in Int /\ w \in Int /\ cost \in Int
          /\ holds + allocated = held + w + c /\ cost = held + booked + w
          /\ CostOf(pos + 1) = cost + c
      BY <3>1, <3>2, <3>3, <3>4
    <3> HIDE DEF c, held, holds, booked, w, cost, e
    <3>7. cost + c = holds + (booked + allocated) + 0
      BY <3>6
    <3>8. CostOf(pos + 1) = OpenBasis(bs) + Allocated(acc'.audit) + work'.allocated
      BY <3>3, <3>5, <3>6, <3>7 DEF holds, booked
    <3> QED BY <2>1, <3>8, BasisThen
  <2>8. PoolInv' /\ WorkInv' /\ AtRest'
    BY <2>1, <2>2, NewTypes DEF PoolInv, WorkInv, AtRest
  <2> QED BY <2>6, <2>7, <2>8
<1> QED BY <1>1, <1>2

-----------------------------------------------------------------------------
(* The steps.                                                              *)

LEMMA Started == Init => IInv
<1> SUFFICES ASSUME Init PROVE IInv
  OBVIOUS
<1>1. /\ history = <<>> /\ method \in Selectable /\ reports = [y \in Years |-> NoReport]
      /\ year = 0 /\ pos = 0 /\ books = [k \in Keys |-> NewBook] /\ work = NoWork /\ acc = NewReplay
  BY DEF Init
<1>2. history \in Seq(Activities) /\ Len(history) = 0
  BY <1>1
<1>3. Len(Inputs) \in Nat
  <2>1. Inputs \in Seq(Activities)
    BY <1>1, <1>2, ThroughType DEF Inputs
  <2> QED BY <2>1
<1>4. MaxActivities[method] \in Nat
  BY <1>1, ReplayAssumption
<1>5. reports \in [Years -> [status : {"none", "made", "failed"}, replay : Replays,
                             closeQty : Int, closeBasis : Int, main : BOOLEAN]]
  <2>1. NoReport \in [status : {"none", "made", "failed"}, replay : Replays,
                      closeQty : Int, closeBasis : Int, main : BOOLEAN]
    BY NewTypes DEF NoReport
  <2> QED BY <1>1, <2>1
<1>6. acc \in Replays /\ Len(acc.audit) = 0 /\ work \in Works /\ books \in [Keys -> Books]
  BY <1>1, NewTypes
<1>7. TypeOK
  BY <1>1, <1>2, <1>3, <1>4, <1>5, <1>6 DEF TypeOK
<1>8. PoolInv
  BY <1>1 DEF PoolInv, NewBook
<1>9. AtRest /\ WorkInv /\ BasisConserved
  BY <1>1, NewTypes DEF AtRest, WorkInv, BasisConserved, Replaying
<1> QED BY <1>7, <1>8, <1>9 DEF IInv

\* The history is synced before any report is made.
LEMMA RecordKeeps ==
  ASSUME IInv, NEW a \in Activities, Record(a)
  PROVE  IInv'
<1> USE DEF IInv
<1>1. /\ ~Replaying /\ Len(history) < MaxActivities[method] /\ history' = Append(history, a)
      /\ method' = method /\ reports' = reports /\ year' = year /\ pos' = pos /\ books' = books
      /\ work' = work /\ acc' = acc
  BY DEF Record
<1>2. history \in Seq(Activities) /\ Len(history) \in Nat
  BY DEF TypeOK
<1>3. history' \in Seq(Activities) /\ Len(history') = Len(history) + 1
  BY <1>1, <1>2
<1>4. Len(history') <= MaxActivities[method']
  <2>1. MaxActivities[method] \in Nat
    BY ReplayAssumption DEF TypeOK
  <2> QED BY <1>1, <1>2, <1>3, <2>1
<1>5. year \in Int /\ year = 0 /\ pos = 0 /\ ~Replaying'
  BY <1>1 DEF AtRest, Replaying
<1>6. Len(Inputs') \in Nat
  <2>1. Inputs' = Through(0)'
    BY <1>1, <1>5 DEF Inputs, Through
  <2> QED BY <1>3, <2>1, ThroughLength
<1>7. pos' \in 0..Len(Inputs')
  BY <1>1, <1>5, <1>6
<1>8. TypeOK'
  BY <1>1, <1>3, <1>4, <1>7 DEF TypeOK
<1>9. ~work.on /\ work = NoWork
  BY <1>1, NewTypes DEF WorkInv, Working
<1> QED BY <1>1, <1>5, <1>8, <1>9 DEF WorkInv, PoolInv, AtRest, BasisConserved

\* A report starts with new books.
LEMMA BeginKeeps ==
  ASSUME IInv, NEW y \in Years, Begin(y)
  PROVE  IInv'
<1> USE DEF IInv
<1>1. /\ ~Replaying /\ year' = y /\ pos' = 0 /\ books' = [k \in Keys |-> NewBook] /\ acc' = NewReplay
      /\ history' = history /\ method' = method /\ reports' = reports /\ work' = work
  BY DEF Begin
<1>2. history' \in Seq(Activities) /\ y \in Int
  BY <1>1 DEF TypeOK, Years
<1>3. Len(Inputs') \in Nat
  <2>1. Inputs' = Through(y)'
    BY <1>1 DEF Inputs, Through
  <2> QED BY <1>2, <2>1, ThroughLength
<1>4. acc' \in Replays /\ Len(acc'.audit) = 0 /\ books' \in [Keys -> Books]
  BY <1>1, NewTypes
<1>5. TypeOK'
  BY <1>1, <1>3, <1>4 DEF TypeOK
<1>6. work = NoWork /\ ~work.on
  BY <1>1, NewTypes DEF WorkInv, Working
<1>7. BasisConserved'
  <2>1. DOMAIN SubSeq(Inputs', 1, pos') = {}
    <3>1. SubSeq(Inputs', 1, 0) = [i \in 1..0 |-> Inputs'[i]]
      BY SMT
    <3> QED BY <1>1, <3>1
  <2> DEFINE costs == [i \in DOMAIN SubSeq(Inputs', 1, pos') |-> Inputs'[i].amount]
             bought == {i \in DOMAIN SubSeq(Inputs', 1, pos') : IsBuy(Inputs'[i])}
  <2>2. BasisConserved' <=>
          (Replaying' => SumFunctionOnSet(costs, bought)
                           = OpenBasis(books') + Allocated(acc'.audit) + work'.allocated)
    BY DEF BasisConserved, Total, Replayed, IsBuy
  <2>3. bought = {}
    BY <2>1
  <2> HIDE DEF costs, bought
  <2>4. OpenBasis(books') = 0 /\ Allocated(acc'.audit) = 0 /\ work'.allocated = 0
    BY <1>1, <1>6, NewTypes, NewBooksHold, AllocatedStart
  <2> QED BY <2>2, <2>3, <2>4, SumEmpty
<1>8. PoolInv'
  BY <1>1, NewPools
<1> QED BY <1>1, <1>5, <1>6, <1>7, <1>8, NewTypes DEF AtRest, WorkInv

\* The opening position does not touch the audit trail.
LEMMA CapturedType ==
  ASSUME TypeOK
  PROVE  Captured \in Replays /\ Captured.audit = acc.audit
<1>1. acc \in Replays /\ OpenQty(books) \in Int /\ OpenBasis(books) \in Int
  BY OpenType DEF TypeOK
<1> QED BY <1>1 DEF Captured, Replays

\* The book of the activity, put back changed.
LEMMA PutHolds ==
  ASSUME IInv, pos < Len(Inputs), NEW b \in Books, b.pooled => method \in {"hybrid", "average"}
  PROVE  /\ Put(b) \in [Keys -> Books]
         /\ \A k \in Keys : Put(b)[k].pooled => method \in {"hybrid", "average"}
         /\ OpenBasis(Put(b)) = OpenBasis(books) - BookBasis(Book) + BookBasis(b)
         /\ OpenQty(Put(b)) = OpenQty(books) - BookQty(Book) + BookQty(b)
<1> DEFINE k == Key(Inputs, Input)
<1>1. k \in Keys /\ books \in [Keys -> Books]
  BY InputType DEF IInv, TypeOK
<1>2. Put(b) = [books EXCEPT ![k] = b] /\ Book = books[k]
  BY DEF Put, Book
<1>3. \A j \in Keys : books[j].pooled => method \in {"hybrid", "average"}
  BY DEF IInv, PoolInv
<1> HIDE DEF k
<1>4. Put(b) \in [Keys -> Books] /\ \A j \in Keys : Put(b)[j] = IF j = k THEN b ELSE books[j]
  BY <1>1, <1>2
<1>5. OpenBasis([books EXCEPT ![k] = b]) = OpenBasis(books) - BookBasis(books[k]) + BookBasis(b)
  BY <1>1, OpenBasisChange
<1>6. OpenQty([books EXCEPT ![k] = b]) = OpenQty(books) - BookQty(books[k]) + BookQty(b)
  BY <1>1, OpenQtyChange
<1> QED BY <1>2, <1>3, <1>4, <1>5, <1>6

LEMMA BuyKeeps == ASSUME IInv, Buy PROVE IInv'
<1> DEFINE b == BuyInto(Book, Input)
<1>1. /\ Replaying /\ pos < Len(Inputs) /\ ~work.on /\ IsBuy(Input)
      /\ Complete(Captured, Put(b), 0, FALSE)
  BY DEF Buy, AtActivity, IInv, IsBuy
<1>2. /\ Input \in Activities /\ Book \in Books /\ Input.amount \in Int
      /\ Book.pooled => method \in {"hybrid", "average"}
  BY <1>1, InputType DEF IInv, PoolInv, Book
<1>3. b \in Books /\ b.pooled = Book.pooled /\ BookBasis(b) = BookBasis(Book) + Input.amount
  BY <1>2, Bought1
<1> HIDE DEF b
<1>4. /\ Put(b) \in [Keys -> Books]
      /\ \A k \in Keys : Put(b)[k].pooled => method \in {"hybrid", "average"}
      /\ OpenBasis(Put(b)) = OpenBasis(books) - BookBasis(Book) + BookBasis(b)
  BY <1>1, <1>2, <1>3, PutHolds
<1>5. work.allocated = 0
  BY <1>1, NewTypes DEF IInv, WorkInv
<1>6. OpenBasis(books) \in Int /\ BookBasis(Book) \in Int
  BY <1>2, OpenType, BookType DEF IInv, TypeOK
<1>7. OpenBasis(Put(b)) + 0 = OpenBasis(books) + work.allocated
                                + (IF IsBuy(Input) THEN Input.amount ELSE 0)
  BY <1>1, <1>2, <1>3, <1>4, <1>5, <1>6
<1>8. Captured \in Replays /\ Captured.audit = acc.audit
  BY CapturedType DEF IInv
<1>9. 0 \in Int /\ FALSE \in BOOLEAN
  OBVIOUS
<1> QED BY <1>1, <1>4, <1>7, <1>8, <1>9, Completed

\* The order of disposal only looks at the two lots and their places.
LEMMA BeforeSame ==
  ASSUME NEW l, NEW m, NEW i, NEW j, m[i] = l[i], m[j] = l[j]
  PROVE  Before(m, i, j) <=> Before(l, i, j)
  BY DEF Before, UnitCostAbove

\* The queue after a step.
LEMMA QueuedThen ==
  ASSUME method' = method,
         \A m \in DOMAIN work'.queue : work'.queue[m] \in OpenLots(Book'),
         \A m, n \in DOMAIN work'.queue :
           m < n => /\ work'.queue[m] # work'.queue[n]
                    /\ Before(Book'.lots, work'.queue[m], work'.queue[n]),
         work'.left > 0 => \A i \in OpenLots(Book') : \E m \in DOMAIN work'.queue : work'.queue[m] = i
  PROVE  Queued'
<1>1. \A m, n \in DOMAIN work'.queue : m < n => Before(Book.lots, work.queue[m], work.queue[n])'
  BY DEF Before, UnitCostAbove
<1>2. OpenLots(Book)' = OpenLots(Book')
  BY DEF OpenLots
<1> QED BY <1>1, <1>2 DEF Queued

\* A disposal through lots starts with all open lots before it.
LEMMA DisposeLotsKeeps == ASSUME IInv, DisposeLots PROVE IInv'
<1> USE DEF IInv
<1>0. PICK q : q = DisposalOrder(Book)
  OBVIOUS
<1>1. /\ Replaying /\ pos < Len(Inputs) /\ ~work.on /\ Input.kind # "buy" /\ ~Book.pooled
      /\ work' = [on |-> TRUE, queue |-> q, left |-> Input.qty, allocated |-> 0]
      /\ acc' = Captured /\ history' = history /\ method' = method /\ reports' = reports
      /\ year' = year /\ pos' = pos /\ books' = books
  BY <1>0 DEF DisposeLots, AtActivity, Exact
<1>2. Book \in Books /\ Input.qty \in Nat
  BY <1>1, InputType
<1>3. /\ q \in Seq(OpenLots(Book))
      /\ \A m, n \in DOMAIN q : m < n => Before(Book.lots, q[m], q[n])
      /\ \A m, n \in DOMAIN q : m # n => q[m] # q[n]
      /\ \A i \in OpenLots(Book) : \E m \in DOMAIN q : q[m] = i
  BY <1>0, <1>2, QueueHolds
<1>4. /\ Inputs' = Inputs /\ (Replaying' <=> Replaying) /\ Input' = Input
      /\ Book' = Book /\ OpenLots(Book)' = OpenLots(Book)
  <2>1. Inputs' = Inputs /\ (Replaying' <=> Replaying)
    BY <1>1, InputsSame
  <2>2. Input' = Input
    BY <1>1, <2>1 DEF Input
  <2>3. Book' = Book
    BY <1>1, <2>1, <2>2 DEF Book, Key, Broadened
  <2> QED BY <2>1, <2>2, <2>3 DEF OpenLots
<1>5. TypeOK'
  <2>1. work' \in Works
    <3>1. OpenLots(Book) \subseteq Nat
      BY <1>2, LotValues DEF OpenLots, Books
    <3>2. q \in Seq(Nat)
      BY <1>3, <3>1
    <3> QED BY <1>1, <1>2, <3>2 DEF Works
  <2>2. acc' \in Replays /\ acc'.audit = acc.audit
    BY <1>1, CapturedType
  <2> QED BY <1>1, <1>4, <2>1, <2>2 DEF TypeOK
<1>6. WorkInv'
  <2>1. work'.on /\ work'.queue = q
    BY <1>1
  <2>2. DOMAIN q \subseteq Nat /\ \A m, n \in DOMAIN q : m < n => m # n
    BY <1>3
  <2>3. \A m \in DOMAIN q : q[m] \in OpenLots(Book)
    BY <1>3
  <2>4. Queued'
    BY <1>1, <1>3, <1>4, <2>1, <2>2, <2>3, QueuedThen
  <2> QED BY <1>1, <1>4, <2>1, <2>4 DEF WorkInv, Working
<1>7. BasisConserved'
  <2>1. work'.allocated = 0 /\ work.allocated = 0 /\ acc'.audit = acc.audit
    BY <1>1, NewTypes, CapturedType DEF WorkInv
  <2>2. CostOf(pos) = OpenBasis(books) + Allocated(acc.audit) + work.allocated
    BY <1>1 DEF BasisConserved, CostOf
  <2> QED BY <1>1, <2>1, <2>2, BasisThen
<1> QED BY <1>1, <1>4, <1>5, <1>6, <1>7 DEF PoolInv, AtRest

\* What is taken from the next lot: all of it while more is left, and never more than there is.
LEMMA TakenIs ==
  ASSUME TypeOK, NEW lot \in Lots, lot.qty > 0, work.left > 0
  PROVE  /\ Taken(lot) \in Nat \ {0} /\ Taken(lot) <= lot.qty
         /\ work.left - Taken(lot) \in Nat
         /\ work.left - Taken(lot) > 0 => Taken(lot) = lot.qty
         /\ Allocate(lot.basis, lot.qty, Taken(lot)) \in Int
         /\ Taken(lot) = lot.qty => Allocate(lot.basis, lot.qty, Taken(lot)) = lot.basis
<1>1. lot.qty \in Nat \ {0} /\ lot.basis \in Int /\ work.left \in Nat \ {0}
  BY DEF Lots, TypeOK, Works
<1>2. Taken(lot) = IF lot.qty <= work.left THEN lot.qty ELSE work.left
  BY <1>1, MinOfTwo DEF Taken
<1>3. Taken(lot) \in Nat \ {0}
  BY <1>1, <1>2
<1>4. Allocate(lot.basis, lot.qty, Taken(lot)) \in Int
  BY <1>1, <1>3, AllocateType
<1>5. Taken(lot) = lot.qty => Allocate(lot.basis, lot.qty, Taken(lot)) = lot.basis
  BY DEF Allocate
<1> QED BY <1>1, <1>2, <1>3, <1>4, <1>5

\* One lot of a disposal.
LEMMA TakeLotKeeps == ASSUME IInv, TakeLot PROVE IInv'
<1> USE DEF IInv
<1>0. PICK i, lot, t, portion, c :
        /\ i = Head(work.queue) /\ lot = Book.lots[i] /\ t = Taken(lot)
        /\ portion = Allocate(lot.basis, lot.qty, t)
        /\ c = [Book EXCEPT !.lots[i].qty = @ - t, !.lots[i].basis = @ - portion]
  OBVIOUS
<1>1. /\ Replaying /\ pos < Len(Inputs) /\ Input.kind # "buy" /\ ~Book.pooled /\ Queued
      /\ work.left > 0 /\ work.queue # <<>> /\ work \in Works /\ work.on
  BY DEF TakeLot, WorkInv, Working, TypeOK
<1>2. CASE lot.basis < 0
  <2>1. Abort
    BY <1>0, <1>2 DEF TakeLot
  <2> QED BY <1>1, <2>1, Aborted
<1>3. CASE ~(lot.basis < 0)
  <2>1. /\ books' = Put(c) /\ history' = history /\ method' = method /\ reports' = reports
        /\ year' = year /\ pos' = pos /\ acc' = acc
        /\ work' = [work EXCEPT !.queue = Tail(@), !.left = @ - t, !.allocated = @ + portion]
    BY <1>0, <1>3 DEF TakeLot
  <2>2. /\ work.queue \in Seq(Nat) /\ Len(work.queue) \in Nat \ {0} /\ DOMAIN work.queue = 1..Len(work.queue)
        /\ i = work.queue[1] /\ 1 \in DOMAIN work.queue
    BY <1>0, <1>1 DEF Works
  <2>3. /\ Tail(work.queue) \in Seq(Nat) /\ DOMAIN Tail(work.queue) = 1..(Len(work.queue) - 1)
        /\ \A m \in DOMAIN Tail(work.queue) : /\ Tail(work.queue)[m] = work.queue[m + 1]
                                              /\ m + 1 \in DOMAIN work.queue
    BY <1>1, <2>2
  <2>4. Book \in Books /\ i \in OpenLots(Book) /\ lot \in Lots /\ lot.qty > 0
    <3>1. Book \in Books /\ i \in OpenLots(Book)
      BY <1>1, <2>2, InputType DEF Queued
    <3>2. Book.lots \in Seq(Lots)
      BY <3>1 DEF Books
    <3>3. i \in DOMAIN Book.lots /\ Book.lots[i].qty > 0
      BY <3>1 DEF OpenLots
    <3>4. Book.lots[i] \in Lots
      BY <3>2, <3>3
    <3>5. lot = Book.lots[i]
      BY <1>0
    <3> QED BY <3>1, <3>3, <3>4, <3>5
  <2>5. /\ t \in Nat \ {0} /\ t <= lot.qty /\ work.left - t \in Nat
        /\ work.left - t > 0 => t = lot.qty
        /\ portion \in Int /\ (t = lot.qty => portion = lot.basis)
    BY <1>0, <1>1, <2>4, TakenIs
  <2>6. /\ c \in Books /\ ~c.pooled /\ DOMAIN c.lots = DOMAIN Book.lots
        /\ c.lots[i].qty = lot.qty - t
        /\ \A j \in DOMAIN Book.lots \ {i} : c.lots[j] = Book.lots[j]
        /\ BookBasis(c) = BookBasis(Book) - portion
    <3>1. /\ t \in Nat /\ t <= Book.lots[i].qty
          /\ t = Book.lots[i].qty => portion = Book.lots[i].basis
      BY <1>0, <2>5
    <3> DEFINE l == [Book.lots[i] EXCEPT !.qty = @ - t, !.basis = @ - portion]
               lots == [Book.lots EXCEPT ![i] = l]
    <3>2. Book.lots \in Seq(Lots) /\ i \in DOMAIN Book.lots
      BY <2>4 DEF Books, OpenLots
    <3>3. Book.lots[i] \in Lots
      BY <3>2
    <3>4. /\ l \in Lots /\ l.qty = Book.lots[i].qty - t /\ l.basis = Book.lots[i].basis - portion
      <4>1. Book.lots[i].qty \in Nat /\ Book.lots[i].basis \in Int
        BY <3>3 DEF Lots
      <4>2. Book.lots[i].qty - t \in Nat /\ Book.lots[i].basis - portion \in Int
        BY <2>5, <3>1, <4>1
      <4> QED BY <3>3, <4>2 DEF Lots
    <3>5. c = [Book EXCEPT !.lots = lots]
      <4> DEFINE d == [Book EXCEPT !.lots[i].qty = @ - t, !.lots[i].basis = @ - portion]
      <4>1. d = [Book EXCEPT !.lots = lots]
        BY <2>4 DEF Books
      <4>2. c = d
        BY <1>0
      <4> HIDE DEF d, lots
      <4> QED BY <4>1, <4>2
    <3> HIDE DEF l
    <3>6. lots \in Seq(Lots) /\ DOMAIN lots = DOMAIN Book.lots
          /\ lots[i] = l /\ \A j \in DOMAIN Book.lots \ {i} : lots[j] = Book.lots[j]
      BY <3>2, <3>4, ExceptSeq
    <3> HIDE DEF lots
    <3>7. c \in Books /\ ~c.pooled /\ c.lots = lots
      BY <1>1, <2>4, <3>5, <3>6 DEF Books
    <3>8. BookBasis(c) = BookBasis(Book) - portion
      BY <1>1, <2>4, <2>5, <3>1, <3>4, <3>6, <3>7, LotTaken
    <3> QED BY <1>0, <3>4, <3>6, <3>7, <3>8
  <2>7. /\ Put(c) \in [Keys -> Books]
        /\ \A k \in Keys : Put(c)[k].pooled => method \in {"hybrid", "average"}
        /\ OpenBasis(Put(c)) = OpenBasis(books) - BookBasis(Book) + BookBasis(c)
    BY <1>1, <2>6, PutHolds
  <2>8. /\ Inputs' = Inputs /\ (Replaying' <=> Replaying) /\ Input' = Input /\ Book' = c
    <3>1. Inputs' = Inputs /\ (Replaying' <=> Replaying)
      BY <2>1, InputsSame
    <3>2. Input' = Input
      BY <2>1, <3>1 DEF Input
    <3>3. Book' = Put(c)[Key(Inputs, Input)]
      BY <2>1, <3>1, <3>2 DEF Book, Key, Broadened
    <3>4. Key(Inputs, Input) \in Keys /\ books \in [Keys -> Books]
      BY <1>1, InputType DEF TypeOK
    <3>5. Put(c)[Key(Inputs, Input)] = c
      BY <3>4 DEF Put
    <3> QED BY <3>1, <3>2, <3>3, <3>5
  <2>9. /\ work'.on /\ work'.queue = Tail(work.queue) /\ work'.left = work.left - t
        /\ work'.allocated = work.allocated + portion /\ work' \in Works
    <3> DEFINE q == Tail(work.queue)
               left == work.left - t
               allocated == work.allocated + portion
    <3>1. work' = [work EXCEPT !.queue = q, !.left = left, !.allocated = allocated]
      BY <2>1
    <3>2. q \in Seq(Nat) /\ left \in Nat /\ allocated \in Int
      BY <1>1, <2>3, <2>5 DEF Works
    <3> HIDE DEF q, left, allocated
    <3>3. /\ work' \in Works /\ work'.on /\ work'.queue = q /\ work'.left = left
          /\ work'.allocated = allocated
      BY <1>1, <3>1, <3>2 DEF Works
    <3> QED BY <3>3 DEF q, left, allocated
  <2>10. TypeOK'
    BY <2>1, <2>7, <2>8, <2>9 DEF TypeOK
  <2>11. WorkInv'
    <3>1. \A m \in DOMAIN Tail(work.queue) :
            work.queue[m + 1] # i /\ work.queue[m + 1] \in OpenLots(Book)
      <4> SUFFICES ASSUME NEW m \in DOMAIN Tail(work.queue)
                   PROVE  work.queue[m + 1] # i /\ work.queue[m + 1] \in OpenLots(Book)
        OBVIOUS
      <4>1. 1 < m + 1 /\ m + 1 \in DOMAIN work.queue
        BY <2>2, <2>3
      <4> QED BY <1>1, <2>2, <4>1 DEF Queued
    <3>2. \A j \in OpenLots(Book) \ {i} : j \in OpenLots(c) /\ c.lots[j] = Book.lots[j]
      BY <2>6 DEF OpenLots
    <3>3. \A m \in DOMAIN Tail(work.queue) : Tail(work.queue)[m] \in OpenLots(c)
      BY <2>3, <3>1, <3>2
    <3>4. ASSUME NEW m \in DOMAIN Tail(work.queue), NEW n \in DOMAIN Tail(work.queue), m < n
          PROVE  /\ Tail(work.queue)[m] # Tail(work.queue)[n]
                 /\ Before(c.lots, Tail(work.queue)[m], Tail(work.queue)[n])
      <4>1. m + 1 < n + 1 /\ m + 1 \in DOMAIN work.queue /\ n + 1 \in DOMAIN work.queue
        BY <2>2, <2>3, <3>4
      <4>2. /\ work.queue[m + 1] # work.queue[n + 1]
            /\ Before(Book.lots, work.queue[m + 1], work.queue[n + 1])
        BY <1>1, <4>1 DEF Queued
      <4>3. /\ c.lots[work.queue[m + 1]] = Book.lots[work.queue[m + 1]]
            /\ c.lots[work.queue[n + 1]] = Book.lots[work.queue[n + 1]]
        BY <3>1, <3>2
      <4>4. Before(c.lots, work.queue[m + 1], work.queue[n + 1])
        BY <4>2, <4>3, BeforeSame
      <4> QED BY <2>3, <4>2, <4>4
    <3>5. ASSUME work.left - t > 0, NEW j \in OpenLots(c)
          PROVE  \E m \in DOMAIN Tail(work.queue) : Tail(work.queue)[m] = j
      <4>1. j # i /\ j \in OpenLots(Book)
        <5>1. lot.qty \in Nat /\ c.lots[i].qty = 0
          BY <2>4, <2>5, <2>6, <3>5 DEF Lots
        <5>2. j \in DOMAIN Book.lots /\ c.lots[j].qty > 0
          BY <2>6 DEF OpenLots
        <5> QED BY <2>6, <5>1, <5>2 DEF OpenLots
      <4>2. PICK n \in DOMAIN work.queue : work.queue[n] = j
        BY <1>1, <4>1 DEF Queued
      <4>3. n - 1 \in DOMAIN Tail(work.queue) /\ (n - 1) + 1 = n
        BY <2>2, <2>3, <4>1, <4>2
      <4> QED BY <2>3, <4>2, <4>3
    <3>6. Queued'
      BY <2>1, <2>8, <2>9, <3>3, <3>4, <3>5, QueuedThen
    <3> QED BY <1>1, <2>1, <2>6, <2>8, <2>9, <3>6 DEF WorkInv, Working
  <2>12. BasisConserved'
    <3>1. CostOf(pos) = OpenBasis(books) + Allocated(acc.audit) + work.allocated
      BY <1>1 DEF BasisConserved, CostOf
    <3>2. /\ OpenBasis(books) \in Int /\ BookBasis(Book) \in Int /\ work.allocated \in Int
          /\ Allocated(acc.audit) \in Int
      <4>1. acc.audit \in Seq(AuditEntries)
        BY DEF TypeOK, Replays
      <4>2. [allocated |-> 0, zero |-> FALSE] \in AuditEntries
        BY DEF AuditEntries
      <4> QED BY <1>1, <2>4, <4>1, <4>2, OpenType, BookType, AllocatedMore DEF TypeOK, Works
    <3>3. OpenBasis(books') = OpenBasis(books) - portion
      BY <2>1, <2>5, <2>6, <2>7, <3>2
    <3>4. CostOf(pos) = OpenBasis(books') + Allocated(acc'.audit) + work'.allocated
      BY <2>1, <2>5, <2>9, <3>1, <3>2, <3>3
    <3> QED BY <2>1, <3>4, BasisThen
  <2> QED BY <1>1, <2>1, <2>7, <2>8, <2>10, <2>11, <2>12 DEF PoolInv, AtRest
<1> QED BY <1>2, <1>3

\* The disposal is complete, or fails; a scope it empties has no basis left.
LEMMA EndLotsKeeps == ASSUME IInv, EndLots PROVE IInv'
<1> USE DEF IInv
<1>1. /\ Replaying /\ pos < Len(Inputs) /\ ~IsBuy(Input) /\ ~Book.pooled
      /\ work \in Works /\ work.on /\ acc \in Replays
  BY DEF EndLots, WorkInv, Working, TypeOK, IsBuy
<1>2. CASE work.left > 0
  <2>1. Abort
    BY <1>2 DEF EndLots
  <2> QED BY <1>1, <2>1, Aborted
<1>3. CASE ~(work.left > 0)
  <2> DEFINE zero == BookQty(Book) = 0
             b == IF zero THEN Emptied(Book) ELSE Book
  <2>1. Complete(acc, Put(b), work.allocated, zero)
    BY <1>3 DEF EndLots
  <2>2. Book \in Books
    BY <1>1, InputType
  <2>3. b \in Books /\ BookBasis(b) = BookBasis(Book) /\ (b.pooled => method \in {"hybrid", "average"})
    <3>1. NewBook \in Books /\ BookBasis(NewBook) = 0 /\ (NewBook.pooled => method = "average")
      BY NewBookHolds DEF NewBook
    <3>2. zero => BookBasis(Book) = 0
      BY <1>1, <2>2, NothingLeft
    <3> QED BY <1>1, <2>2, <3>1, <3>2 DEF Emptied
  <2>4. zero \in BOOLEAN
    OBVIOUS
  <2> HIDE DEF b, zero
  <2>5. /\ Put(b) \in [Keys -> Books]
        /\ \A k \in Keys : Put(b)[k].pooled => method \in {"hybrid", "average"}
        /\ OpenBasis(Put(b)) = OpenBasis(books) - BookBasis(Book) + BookBasis(b)
    BY <1>1, <2>3, PutHolds
  <2>6. OpenBasis(books) \in Int /\ BookBasis(Book) \in Int /\ work.allocated \in Int
    BY <1>1, <2>2, OpenType, BookType DEF TypeOK, Works
  <2>7. OpenBasis(Put(b)) + work.allocated = OpenBasis(books) + work.allocated
                                               + (IF IsBuy(Input) THEN Input.amount ELSE 0)
    BY <1>1, <2>3, <2>5, <2>6
  <2> QED BY <1>1, <2>1, <2>4, <2>5, <2>6, <2>7, Completed
<1> QED BY <1>2, <1>3

\* A disposal from a pool; one that empties it takes all of its basis.
LEMMA DisposePoolKeeps == ASSUME IInv, DisposePool PROVE IInv'
<1> USE DEF IInv
<1>0. PICK b, zero, portion : /\ b = Pooled(Book) /\ zero = (b.qty = Input.qty)
                              /\ portion = Allocate(b.basis, b.qty, Input.qty)
  OBVIOUS
<1>1. /\ Replaying /\ pos < Len(Inputs) /\ ~work.on /\ ~IsBuy(Input) /\ work = NoWork
      /\ (Book.pooled \/ method = "hybrid")
  BY DEF DisposePool, AtActivity, Exact, IsBuy, WorkInv
<1>2. Book \in Books /\ Input.qty \in Nat \ {0} /\ (Book.pooled => method \in {"hybrid", "average"})
  BY <1>1, InputType DEF PoolInv, Book
<1>3. method \in {"hybrid", "average"}
  BY <1>1, <1>2
<1>4. b \in Books /\ b.pooled /\ b.qty = BookQty(Book) /\ b.basis = BookBasis(Book) /\ b.qty \in Nat
  BY <1>0, <1>2, PooledHolds DEF Books
<1>5. CASE Abort
  BY <1>1, <1>5, Aborted
<1>6. CASE ~Abort
  <2> DEFINE lots == OldestConsumed(b.lots, Input.qty)
             rest == [b EXCEPT !.qty = @ - Input.qty, !.basis = @ - portion,
                               !.lots = OldestConsumed(@, Input.qty)]
             c == IF zero THEN Emptied(b) ELSE rest
  <2>1. ~(b.qty < Input.qty) /\ Complete(Captured, Put(c), portion, zero)
    BY <1>0, <1>6 DEF DisposePool
  <2>2. /\ b.qty \in Nat \ {0} /\ b.qty - Input.qty \in Nat /\ b.basis \in Int /\ b.lots \in Seq(Lots)
        /\ portion \in Int /\ (zero => portion = b.basis)
    <3>1. b.qty \in Nat \ {0} /\ b.qty - Input.qty \in Nat
      BY <1>2, <1>4, <2>1
    <3>2. b.basis \in Int /\ b.lots \in Seq(Lots)
      BY <1>4 DEF Books
    <3>3. Allocate(b.basis, b.qty, Input.qty) \in Int
      BY <1>2, <3>1, <3>2, AllocateType
    <3>4. zero => Allocate(b.basis, b.qty, Input.qty) = b.basis
      BY <1>0 DEF Allocate
    <3> QED BY <1>0, <3>1, <3>2, <3>3, <3>4
  <2>3. rest \in Books /\ rest.pooled /\ rest.basis = b.basis - portion
    <3> DEFINE qty == b.qty - Input.qty
               basis == b.basis - portion
    <3>1. rest = [b EXCEPT !.qty = qty, !.basis = basis, !.lots = lots]
      OBVIOUS
    <3>2. qty \in Nat /\ basis \in Int /\ lots \in Seq(Lots)
      <4>1. Input.qty \in Nat
        BY <1>2
      <4> HIDE DEF lots
      <4>2. lots \in Seq(Lots)
        BY <2>2, <4>1, OldestType DEF lots
      <4>3. basis \in Int
        BY <2>2
      <4> QED BY <2>2, <4>2, <4>3
    <3> HIDE DEF qty, basis, lots, rest
    <3>3. rest \in Books /\ rest.pooled /\ rest.basis = basis
      BY <1>4, <3>1, <3>2 DEF Books
    <3> QED BY <3>3 DEF basis
  <2> HIDE DEF rest, lots
  <2>4. c \in Books /\ BookBasis(c) = BookBasis(Book) - portion
    <3>1. NewBook \in Books /\ BookBasis(NewBook) = 0 /\ Emptied(b) = NewBook
      BY <1>3, NewBookHolds DEF Emptied
    <3>2. BookBasis(rest) = b.basis - portion
      BY <2>3 DEF BookBasis
    <3>3. CASE zero
      BY <1>4, <2>2, <3>1, <3>3
    <3>4. CASE ~zero
      BY <1>4, <2>3, <3>2, <3>4
    <3> QED BY <3>3, <3>4
  <2> HIDE DEF c
  <2>5. /\ Put(c) \in [Keys -> Books]
        /\ \A k \in Keys : Put(c)[k].pooled => method \in {"hybrid", "average"}
        /\ OpenBasis(Put(c)) = OpenBasis(books) - BookBasis(Book) + BookBasis(c)
    BY <1>1, <1>3, <2>4, PutHolds
  <2>6. OpenBasis(books) \in Int /\ BookBasis(Book) \in Int /\ work.allocated = 0
    BY <1>1, <1>2, NewTypes, OpenType, BookType DEF TypeOK
  <2>7. OpenBasis(Put(c)) + portion = OpenBasis(books) + work.allocated
                                        + (IF IsBuy(Input) THEN Input.amount ELSE 0)
    BY <1>1, <2>2, <2>4, <2>5, <2>6
  <2>8. Captured \in Replays /\ Captured.audit = acc.audit /\ zero \in BOOLEAN
    BY <1>0, CapturedType
  <2> QED BY <1>1, <2>1, <2>2, <2>5, <2>7, <2>8, Completed
<1> QED BY <1>5, <1>6

\* A report that is made is put where there was none.
LEMMA FinishKeeps == ASSUME IInv, Finish PROVE IInv'
<1> USE DEF IInv
<1> DEFINE qty == OpenQty(books)
           basis == OpenBasis(books)
           replay == IF acc.captured THEN acc ELSE [acc EXCEPT !.openQty = qty, !.openBasis = basis]
           main == IncludeInMain(qty)
           report == [status |-> "made", closeQty |-> qty, closeBasis |-> basis, main |-> main,
                      replay |-> replay]
<1>1. /\ Replaying /\ ~work.on /\ year' = 0 /\ pos' = 0 /\ books' = [k \in Keys |-> NewBook]
      /\ acc' = NewReplay /\ history' = history /\ method' = method /\ work' = work
      /\ reports' = [reports EXCEPT ![year] = report]
  BY DEF Finish
<1>2. year \in Years /\ 0 \in Int /\ qty \in Int /\ basis \in Int /\ acc \in Replays /\ (qty > 0) \in BOOLEAN
  BY <1>1, OpenType DEF TypeOK, Replaying
<1>3. replay \in Replays
  <2> HIDE DEF qty, basis
  <2> QED BY <1>2 DEF Replays
<1>4. main \in BOOLEAN
  BY <1>2 DEF IncludeInMain, Replays
<1> HIDE DEF replay, qty, basis, main
<1>5. report \in [status : {"none", "made", "failed"}, replay : Replays,
                  closeQty : Int, closeBasis : Int, main : BOOLEAN]
  BY <1>2, <1>3, <1>4
<1> HIDE DEF report
<1>6. reports' \in [Years -> [status : {"none", "made", "failed"}, replay : Replays,
                              closeQty : Int, closeBasis : Int, main : BOOLEAN]]
  BY <1>1, <1>2, <1>5 DEF TypeOK
<1>7. Len(Inputs') \in Nat
  <2>1. history' \in Seq(Activities)
    BY <1>1 DEF TypeOK
  <2>2. Inputs' = Through(0)'
    BY <1>1 DEF Inputs, Through
  <2> QED BY <1>2, <2>1, <2>2, ThroughLength
<1>8. acc' \in Replays /\ Len(acc'.audit) = 0 /\ books' \in [Keys -> Books]
  BY <1>1, NewTypes
<1>9. TypeOK'
  BY <1>1, <1>6, <1>7, <1>8 DEF TypeOK
<1>10. PoolInv'
  BY <1>1, NewPools
<1> QED BY <1>1, <1>9, <1>10, NewTypes DEF WorkInv, AtRest, BasisConserved, Replaying

LEMMA Stuttered == ASSUME IInv, UNCHANGED vars PROVE IInv'
<1> USE DEF IInv, vars
<1>1. Inputs' = Inputs /\ (Replaying' <=> Replaying)
  BY InputsSame
<1>2. Input' = Input /\ Book' = Book
  BY <1>1 DEF Input, Book, Key, Broadened
<1>3. TypeOK' /\ PoolInv' /\ AtRest'
  BY <1>1 DEF TypeOK, PoolInv, AtRest
<1>4. Queued => Queued'
  BY <1>2, QueuedThen DEF Queued
<1>5. WorkInv'
  BY <1>1, <1>2, <1>4 DEF WorkInv, Working
<1>6. BasisConserved'
  BY BasisThen DEF BasisConserved, CostOf
<1> QED BY <1>3, <1>5, <1>6

THEOREM ReplayInv == Spec => []IInv
<1>1. ASSUME IInv, [Next]_vars PROVE IInv'
  <2>1. ASSUME NEW a \in Activities, Record(a) PROVE IInv'
    BY <1>1, <2>1, RecordKeeps
  <2>2. ASSUME NEW y \in Years, Begin(y) PROVE IInv'
    BY <1>1, <2>2, BeginKeeps
  <2>3. CASE Replay
    BY <1>1, <2>3, BuyKeeps, DisposeLotsKeeps, TakeLotKeeps, EndLotsKeeps, DisposePoolKeeps,
       FinishKeeps DEF Replay
  <2>4. CASE UNCHANGED vars
    BY <1>1, <2>4, Stuttered
  <2> QED BY <1>1, <2>1, <2>2, <2>3, <2>4 DEF Next
<1> QED BY <1>1, Started, PTL DEF Spec

-----------------------------------------------------------------------------
(* Every variable of the replay stays in its type: no quantity of a lot or a pool is ever
   below zero, and the audit trail has an entry for each activity replayed. *)
THEOREM ReplayTypeCorrect == Spec => []TypeOK
<1>1. IInv => TypeOK
  BY DEF IInv
<1> QED BY <1>1, ReplayInv, PTL

(* FR-019b, for every method and history: what the replayed acquisitions cost is what the
   open lots and pools hold and the audit trail allocated, to the last unit. *)
THEOREM BasisIsConserved == Spec => []BasisConserved
<1>1. IInv => BasisConserved
  BY DEF IInv
<1> QED BY <1>1, ReplayInv, PTL

(* FR-024, for every history: HIFO takes from an open lot of the highest remaining unit cost,
   and the oldest of those. *)
THEOREM DearestFirst == Spec => DearestTaken
<1> DEFINE Dearest == LET i == Head(work.queue)
                      IN \A j \in OpenLots(Book) \ {i} :
                           \/ UnitCostAbove(Book.lots[i], Book.lots[j])
                           \/ ~UnitCostAbove(Book.lots[j], Book.lots[i]) /\ i < j
<1>1. ASSUME IInv, method = "hifo", TakeLot PROVE Dearest
  <2>1. Queued /\ work.left > 0 /\ work.queue # <<>> /\ work.queue \in Seq(Nat)
    BY <1>1 DEF IInv, WorkInv, Working, TakeLot, TypeOK, Works
  <2>2. 1 \in DOMAIN work.queue /\ Head(work.queue) = work.queue[1] /\ DOMAIN work.queue \subseteq Nat \ {0}
    BY <2>1
  <2> SUFFICES ASSUME NEW j \in OpenLots(Book), j # work.queue[1]
               PROVE  Before(Book.lots, work.queue[1], j)
    BY <1>1, <2>2 DEF Before
  <2>3. PICK m \in DOMAIN work.queue : work.queue[m] = j
    BY <2>1 DEF Queued
  <2>4. 1 < m
    BY <2>2, <2>3
  <2> QED BY <2>1, <2>2, <2>3, <2>4 DEF Queued
<1>2. IInv /\ [Next]_vars => [method = "hifo" /\ TakeLot /\ work'.on => Dearest]_vars
  BY <1>1
<1> QED BY <1>2, ReplayInv, PTL DEF Spec, DearestTaken

-----------------------------------------------------------------------------
(* What the first activities of a history leave.                           *)

\* The sum over the first numbers of a set grows by one value at a time.
LEMMA SumNext ==
  ASSUME NEW f, NEW n \in Nat, NEW P, \A i \in 1..(n + 1) : f[i] \in Int
  PROVE  /\ SumFunctionOnSet(f, P \cap (1..n)) \in Int
         /\ SumFunctionOnSet(f, P \cap (1..(n + 1)))
              = SumFunctionOnSet(f, P \cap (1..n)) + IF n + 1 \in P THEN f[n + 1] ELSE 0
<1> DEFINE S == P \cap (1..n)
           T == P \cap (1..(n + 1))
           x == n + 1
<1>1. IsFiniteSet(S)
  <2>1. IsFiniteSet(1..n)
    BY FS_Interval
  <2> QED BY <2>1, FS_Subset
<1>2. x \notin S /\ f[x] \in Int /\ \A i \in S : f[i] \in Int
  OBVIOUS
<1>3. T = IF x \in P THEN S \cup {x} ELSE S
  <2>1. \A i : i \in 1..(n + 1) <=> i \in 1..n \/ i = x
    OBVIOUS
  <2> QED BY <2>1
<1> HIDE DEF S, T, x
<1>4. SumFunctionOnSet(f, S) \in Int
  BY <1>1, <1>2, SumType
<1>5. SumFunctionOnSet(f, S \cup {x}) = SumFunctionOnSet(f, S) + f[x]
  BY <1>1, <1>2, SumMore
<1>6. SumFunctionOnSet(f, T) = SumFunctionOnSet(f, S) + IF x \in P THEN f[x] ELSE 0
  BY <1>3, <1>4, <1>5
<1> QED BY <1>4, <1>6 DEF S, T, x

SignedOf(h) == [i \in DOMAIN h |-> Signed(h[i])]

LEMMA SignedIs ==
  ASSUME NEW h \in Seq(Activities), NEW i \in DOMAIN h
  PROVE  /\ SignedOf(h)[i] = Signed(h[i]) /\ Signed(h[i]) \in Int /\ h[i].qty \in Nat \ {0}
         /\ Signed(h[i]) = IF IsBuy(h[i]) THEN h[i].qty ELSE -h[i].qty
<1>1. h[i] \in Activities
  OBVIOUS
<1>2. h[i].qty \in Nat \ {0}
  BY <1>1, ActivityType
<1> QED BY <1>2 DEF SignedOf, Signed, IsBuy

\* What the first n activities leave of the asset.
Net(h, n) == SumFunctionOnSet(SignedOf(h), 1..n)

LEMMA NetStart == ASSUME NEW h PROVE Net(h, 0) = 0
<1>1. 1..0 = {}
  OBVIOUS
<1> QED BY <1>1, SumEmpty DEF Net

LEMMA NetMore ==
  ASSUME NEW h \in Seq(Activities), NEW n \in 0..(Len(h) - 1)
  PROVE  /\ Net(h, n) \in Int /\ n + 1 \in DOMAIN h
         /\ Net(h, n + 1) = Net(h, n) + Signed(h[n + 1])
<1>1. n + 1 \in DOMAIN h /\ 1..(n + 1) \subseteq DOMAIN h
  OBVIOUS
<1>2. \A i \in 1..(n + 1) : SignedOf(h)[i] \in Int
  BY <1>1, SignedIs
<1>3. /\ SumFunctionOnSet(SignedOf(h), 1..(n + 1)) = SumFunctionOnSet(SignedOf(h), 1..n) + SignedOf(h)[n + 1]
      /\ SumFunctionOnSet(SignedOf(h), 1..n) \in Int
  BY <1>2, PrefixSum
<1> QED BY <1>1, <1>3, SignedIs DEF Net

\* What they leave in one scope.
LEMMA HeldStart == ASSUME NEW h, NEW k PROVE HeldIn(h, 0, k) = 0
<1>1. {i \in 1..0 : Key(h, h[i]) = k} = {}
  OBVIOUS
<1> QED BY <1>1, SumEmpty DEF HeldIn

LEMMA HeldMore ==
  ASSUME NEW h \in Seq(Activities), NEW n \in 0..(Len(h) - 1), NEW k
  PROVE  /\ HeldIn(h, n, k) \in Int /\ n + 1 \in DOMAIN h
         /\ HeldIn(h, n + 1, k)
              = HeldIn(h, n, k) + IF Key(h, h[n + 1]) = k THEN Signed(h[n + 1]) ELSE 0
<1> DEFINE f == SignedOf(h)
           P == {i \in 1..(n + 1) : Key(h, h[i]) = k}
<1>1. n + 1 \in DOMAIN h /\ 1..(n + 1) \subseteq DOMAIN h /\ n \in Nat
  OBVIOUS
<1>2. \A i \in 1..(n + 1) : f[i] \in Int /\ f[i] = Signed(h[i])
  BY <1>1, SignedIs
<1>3. /\ {i \in 1..n : Key(h, h[i]) = k} = P \cap (1..n)
      /\ {i \in 1..(n + 1) : Key(h, h[i]) = k} = P \cap (1..(n + 1))
  OBVIOUS
<1>4. n + 1 \in P <=> Key(h, h[n + 1]) = k
  OBVIOUS
<1>5. /\ HeldIn(h, n, k) = SumFunctionOnSet(f, P \cap (1..n))
      /\ HeldIn(h, n + 1, k) = SumFunctionOnSet(f, P \cap (1..(n + 1)))
  BY <1>3 DEF HeldIn, SignedOf
<1> HIDE DEF f, P
<1>6. /\ SumFunctionOnSet(f, P \cap (1..n)) \in Int
      /\ SumFunctionOnSet(f, P \cap (1..(n + 1)))
           = SumFunctionOnSet(f, P \cap (1..n)) + IF n + 1 \in P THEN f[n + 1] ELSE 0
  BY <1>1, <1>2, SumNext
<1> QED BY <1>1, <1>2, <1>4, <1>5, <1>6

LEMMA HeldType ==
  ASSUME NEW h \in Seq(Activities), NEW n \in 0..Len(h), NEW k
  PROVE  HeldIn(h, n, k) \in Int /\ Net(h, n) \in Int
<1>1. CASE n = 0
  BY <1>1, HeldStart, NetStart
<1>2. CASE n # 0
  <2>1. n - 1 \in 0..(Len(h) - 1) /\ (n - 1) + 1 = n
    BY <1>2
  <2>2. HeldIn(h, (n - 1) + 1, k) \in Int /\ Net(h, (n - 1) + 1) \in Int
    <3> DEFINE m == n - 1
    <3>1. m \in 0..(Len(h) - 1)
      BY <2>1
    <3> HIDE DEF m
    <3>2. /\ HeldIn(h, m, k) \in Int /\ m + 1 \in DOMAIN h
          /\ HeldIn(h, m + 1, k) = HeldIn(h, m, k) + IF Key(h, h[m + 1]) = k THEN Signed(h[m + 1]) ELSE 0
          /\ Net(h, m) \in Int /\ Net(h, m + 1) = Net(h, m) + Signed(h[m + 1])
      BY <3>1, HeldMore, NetMore
    <3>3. Signed(h[m + 1]) \in Int
      BY <3>2, SignedIs
    <3>4. HeldIn(h, m + 1, k) \in Int /\ Net(h, m + 1) \in Int
      BY <3>2, <3>3
    <3> QED BY <3>4 DEF m
  <2> QED BY <2>1, <2>2
<1> QED BY <1>1, <1>2

\* The sums that the properties are written with.
LEMMA HeldIsNet ==
  ASSUME NEW h \in Seq(Activities)
  PROVE  Held(h, Keys) = Net(h, Len(h))
<1>1. \A i \in DOMAIN h : h[i] \in Activities
  OBVIOUS
<1>2. {i \in DOMAIN h : h[i].scope \in Keys} = 1..Len(h)
  BY <1>1, ActivityType
<1> QED BY <1>2 DEF Held, Net, SignedOf

\* Where every activity is the asset's, the scope Asset holds what the asset does.
LEMMA AssetHeld ==
  ASSUME NEW h, NEW n, \A i \in 1..n : Key(h, h[i]) = Asset
  PROVE  HeldIn(h, n, Asset) = Net(h, n)
<1>1. {i \in 1..n : Key(h, h[i]) = Asset} = 1..n
  OBVIOUS
<1> QED BY <1>1 DEF HeldIn, Net, SignedOf

\* Two histories that agree on the first n activities.
LEMMA NetSame ==
  ASSUME NEW g \in Seq(Activities), NEW h \in Seq(Activities), NEW n \in Nat, n <= Len(g), n <= Len(h),
         \A i \in 1..n : g[i] = h[i]
  PROVE  Net(g, n) = Net(h, n)
<1>1. IsFiniteSet(1..n)
  BY FS_Interval
<1>2. \A i \in 1..n : SignedOf(g)[i] = SignedOf(h)[i]
  <2>1. 1..n \subseteq DOMAIN g /\ 1..n \subseteq DOMAIN h
    OBVIOUS
  <2> QED BY <2>1 DEF SignedOf
<1> QED BY <1>1, <1>2, SumSame DEF Net

-----------------------------------------------------------------------------
(* The history.                                                            *)

\* What the sync accepts: in order, at a cost, and never more disposed of than held.
InOrder == \A i, j \in DOMAIN history : i < j => history[i].year <= history[j].year
AtCost == \A i \in DOMAIN history : IsBuy(history[i]) => history[i].amount \in Costs
Covered == \A n \in 0..Len(history) : Net(history, n) >= 0
HistInv == InOrder /\ AtCost /\ Covered

LEMMA HistStarts == Init => HistInv
<1> SUFFICES ASSUME Init PROVE HistInv
  OBVIOUS
<1>1. history = <<>> /\ Len(history) = 0 /\ DOMAIN history = {} /\ 0..Len(history) = {0}
  BY DEF Init
<1>2. Net(history, 0) = 0
  BY NetStart
<1> QED BY <1>1, <1>2 DEF HistInv, InOrder, AtCost, Covered

LEMMA HistThen ==
  ASSUME history' = history
  PROVE  HistInv' <=> HistInv
BY DEF HistInv, InOrder, AtCost, Covered, Net, SignedOf, Signed, IsBuy

LEMMA HistRecords ==
  ASSUME TypeOK, HistInv, NEW a \in Activities, Record(a)
  PROVE  HistInv'
<1> DEFINE h == Append(history, a)
           n == Len(history)
<1>1. /\ history' = h /\ \A i \in DOMAIN history : history[i].year <= a.year
      /\ a.kind = "buy" => a.amount \in Costs
      /\ Held(h, Keys) >= 0
  BY DEF Record
<1>2. history \in Seq(Activities) /\ n \in Nat /\ DOMAIN history = 1..n
  BY DEF TypeOK
<1>3. /\ h \in Seq(Activities) /\ Len(h) = n + 1 /\ DOMAIN h = 1..(n + 1) /\ h[n + 1] = a
      /\ \A i \in 1..n : h[i] = history[i]
  BY <1>2
<1> HIDE DEF h, n
<1>4. \A i, j \in DOMAIN h : i < j => h[i].year <= h[j].year
  <2> SUFFICES ASSUME NEW i \in DOMAIN h, NEW j \in DOMAIN h, i < j PROVE h[i].year <= h[j].year
    OBVIOUS
  <2>1. i \in 1..n
    BY <1>2, <1>3
  <2>2. CASE j = n + 1
    BY <1>1, <1>2, <1>3, <2>1, <2>2
  <2>3. CASE j # n + 1
    <3>1. j \in 1..n
      BY <1>2, <1>3, <2>3
    <3> QED BY <1>2, <1>3, <2>1, <3>1 DEF HistInv, InOrder
  <2> QED BY <2>2, <2>3
<1>5. \A i \in DOMAIN h : IsBuy(h[i]) => h[i].amount \in Costs
  <2> SUFFICES ASSUME NEW i \in DOMAIN h, IsBuy(h[i]) PROVE h[i].amount \in Costs
    OBVIOUS
  <2>1. CASE i = n + 1
    BY <1>1, <1>3, <2>1 DEF IsBuy
  <2>2. CASE i # n + 1
    <3>1. i \in 1..n
      BY <1>2, <1>3, <2>2
    <3> QED BY <1>2, <1>3, <3>1 DEF HistInv, AtCost
  <2> QED BY <2>1, <2>2
<1>6. \A m \in 0..Len(h) : Net(h, m) >= 0
  <2> SUFFICES ASSUME NEW m \in 0..(n + 1) PROVE Net(h, m) >= 0
    BY <1>3
  <2>1. CASE m = n + 1
    BY <1>1, <1>3, <2>1, HeldIsNet
  <2>2. CASE m # n + 1
    <3>1. m \in 0..n /\ m \in Nat /\ m <= Len(h) /\ m <= Len(history)
      BY <1>2, <1>3, <2>2 DEF n
    <3>2. \A i \in 1..m : h[i] = history[i]
      BY <1>2, <1>3, <3>1
    <3>3. Net(h, m) = Net(history, m)
      BY <1>2, <1>3, <3>1, <3>2, NetSame
    <3> QED BY <3>1, <3>3 DEF HistInv, Covered, n
  <2> QED BY <2>1, <2>2
<1>7. /\ HistInv' <=> /\ \A i, j \in DOMAIN h : i < j => h[i].year <= h[j].year
                      /\ \A i \in DOMAIN h : IsBuy(h[i]) => h[i].amount \in Costs
                      /\ \A m \in 0..Len(h) : Net(h, m) >= 0
  BY <1>1 DEF HistInv, InOrder, AtCost, Covered, Net, SignedOf, Signed, IsBuy
<1> QED BY <1>4, <1>5, <1>6, <1>7

\* Every step but Record leaves the history as it is.
LEMMA HistoryStays ==
  ASSUME [Next]_vars
  PROVE  history' = history \/ \E a \in Activities : Record(a)
<1>1. Abort => history' = history
  BY DEF Abort
<1>2. \A before, bs, allocated, zero : Complete(before, bs, allocated, zero) => history' = history
  BY <1>1 DEF Complete
<1>3. Buy => history' = history
  BY <1>2 DEF Buy
<1>4. DisposeLots => history' = history
  BY DEF DisposeLots
<1>5. TakeLot => history' = history
  BY <1>1 DEF TakeLot
<1>6. EndLots => history' = history
  BY <1>1, <1>2 DEF EndLots
<1>7. DisposePool => history' = history
  BY <1>1, <1>2 DEF DisposePool
<1>8. Finish => history' = history
  BY DEF Finish
<1>9. \A y \in Years : Begin(y) => history' = history
  BY DEF Begin
<1> QED BY <1>3, <1>4, <1>5, <1>6, <1>7, <1>8, <1>9 DEF Next, Replay, vars

LEMMA HistAlways == Spec => [](IInv /\ HistInv)
<1>1. ASSUME IInv, HistInv, [Next]_vars PROVE HistInv'
  <2>1. TypeOK
    BY <1>1 DEF IInv
  <2>2. CASE history' = history
    BY <1>1, <2>2, HistThen
  <2>3. ASSUME NEW a \in Activities, Record(a) PROVE HistInv'
    BY <1>1, <2>1, <2>3, HistRecords
  <2> QED BY <1>1, <2>2, <2>3, HistoryStays
<1> QED BY <1>1, HistStarts, ReplayInv, PTL DEF Spec

\* A report is about the activities up to the end of its year.
LEMMA ThroughIs ==
  ASSUME TypeOK, HistInv, NEW y \in Int
  PROVE  /\ Through(y) \in Seq(Activities) /\ Len(Through(y)) \in 0..Len(history) /\ Len(history) \in Nat
         /\ \A i \in DOMAIN Through(y) : Through(y)[i] = history[i] /\ history[i].year <= y
         /\ \A i \in DOMAIN history : history[i].year <= y => i <= Len(Through(y))
<1> DEFINE n == Len(history)
           early == {i \in DOMAIN history : history[i].year <= y}
           late == {i \in DOMAIN history : ~(history[i].year <= y)}
           N == Cardinality(early)
<1>1. history \in Seq(Activities) /\ n \in Nat /\ DOMAIN history = 1..n
  BY DEF TypeOK
<1>2. \A i \in DOMAIN history : history[i].year \in Int
  <2>1. \A i \in DOMAIN history : history[i] \in Activities
    BY <1>1
  <2> QED BY <2>1 DEF Activities, Years
<1>3. N \in 0..n /\ early = 1..N
  <2>1. CASE late = {}
    <3>1. early = 1..n
      BY <1>1, <2>1
    <3>2. Cardinality(1..n) = n
      BY <1>1, FS_Interval
    <3>3. N = n
      BY <3>1, <3>2
    <3> HIDE DEF early, N, n
    <3> QED BY <1>1, <3>1, <3>3
  <2>2. CASE late # {}
    <3>1. late \in SUBSET Nat
      BY <1>1
    <3>2. PICK m \in late : \A i \in late : m <= i
      <4> HIDE DEF late
      <4> QED BY <2>2, <3>1, LeastNumber
    <3>3. m \in 1..n /\ m - 1 \in 0..n /\ m - 1 \in Nat
      BY <1>1
    <3>4. ASSUME NEW i \in 1..n PROVE history[i].year <= y <=> i < m
      <4>1. CASE i < m
        <5>1. i \notin late
          BY <3>2, <3>3, <4>1
        <5> QED BY <1>1, <4>1, <5>1
      <4>2. CASE i = m
        BY <3>3, <4>2
      <4>3. CASE m < i
        <5>1. history[m].year <= history[i].year
          BY <1>1, <3>3, <4>3 DEF HistInv, InOrder
        <5>2. ~(history[m].year <= y)
          OBVIOUS
        <5> QED BY <1>1, <1>2, <3>3, <4>3, <5>1, <5>2
      <4> QED BY <3>3, <4>1, <4>2, <4>3
    <3>5. early = 1..(m - 1)
      BY <1>1, <3>3, <3>4
    <3>6. Cardinality(1..(m - 1)) = m - 1
      BY <3>3, FS_Interval
    <3>7. N = m - 1
      BY <3>5, <3>6
    <3> HIDE DEF early, N, n
    <3> QED BY <3>3, <3>5, <3>7
  <2> QED BY <2>1, <2>2
<1>4. Through(y) = SubSeq(history, 1, N)
  BY DEF Through
<1> HIDE DEF N, early, late, n
<1>5. /\ SubSeq(history, 1, N) \in Seq(Activities) /\ Len(SubSeq(history, 1, N)) = N
      /\ \A i \in 1..N : SubSeq(history, 1, N)[i] = history[i]
  <2>1. 1 \in 1..(Len(history) + 1) /\ N \in 0..Len(history) /\ Len(history) \in Nat
    BY <1>1, <1>3 DEF n
  <2> QED BY <1>1, <2>1, SubSeqProperties
<1>6. Through(y) \in Seq(Activities) /\ Len(Through(y)) = N /\ DOMAIN Through(y) = 1..N
  BY <1>4, <1>5
<1>7. \A i \in 1..N : Through(y)[i] = history[i] /\ history[i].year <= y
  BY <1>3, <1>4, <1>5 DEF early
<1>8. \A i \in DOMAIN history : history[i].year <= y => i <= N
  BY <1>1, <1>3 DEF early
<1> QED BY <1>1, <1>3, <1>6, <1>7, <1>8 DEF n

-----------------------------------------------------------------------------
(* What steps do, where the report does not fail.                          *)

\* The end of an activity that left book c.
Done(before, c, allocated, zero) ==
  /\ Replaying /\ pos < Len(Inputs)
  /\ books' = Put(c) /\ acc' = Applied(before, Put(c), allocated, zero)
  /\ pos' = pos + 1 /\ work' = NoWork
  /\ history' = history /\ method' = method /\ reports' = reports /\ year' = year

BuyDone == ~work.on /\ IsBuy(Input) /\ Done(Captured, BuyInto(Book, Input), 0, FALSE)

LotsLeft == IF BookQty(Book) = 0 THEN Emptied(Book) ELSE Book
LotsDone == /\ work.on /\ ~IsBuy(Input) /\ work.left = 0 /\ ~Book.pooled
            /\ Done(acc, LotsLeft, work.allocated, BookQty(Book) = 0)

FromPool(b) == Allocate(b.basis, b.qty, Input.qty)
Rest(b) == [b EXCEPT !.qty = @ - Input.qty, !.basis = @ - FromPool(b),
                     !.lots = OldestConsumed(@, Input.qty)]
PoolLeft(b) == IF b.qty = Input.qty THEN Emptied(b) ELSE Rest(b)
PoolDone == LET b == Pooled(Book)
            IN /\ ~work.on /\ ~IsBuy(Input) /\ ~Exact(Book) /\ method \in {"hybrid", "average"}
               /\ ~(b.qty < Input.qty)
               /\ Done(Captured, PoolLeft(b), FromPool(b), b.qty = Input.qty)

LotsBegun ==
  /\ Replaying /\ pos < Len(Inputs) /\ ~work.on /\ ~IsBuy(Input) /\ Exact(Book)
  /\ work' = [on |-> TRUE, queue |-> DisposalOrder(Book), left |-> Input.qty, allocated |-> 0]
  /\ acc' = Captured
  /\ books' = books /\ history' = history /\ method' = method /\ reports' = reports
  /\ year' = year /\ pos' = pos

\* The next lot of a disposal, and what is taken from it.
Next1 == Book.lots[Head(work.queue)]
FromLot == Allocate(Next1.basis, Next1.qty, Taken(Next1))
LotsAfter == [Book.lots EXCEPT ![Head(work.queue)] =
                [Next1 EXCEPT !.qty = Next1.qty - Taken(Next1), !.basis = Next1.basis - FromLot]]
LotDone ==
  /\ Replaying /\ pos < Len(Inputs) /\ work.on /\ ~IsBuy(Input) /\ ~Book.pooled
  /\ work.left > 0 /\ work.queue # <<>>
  /\ books' = Put([Book EXCEPT !.lots = LotsAfter])
  /\ work' = [work EXCEPT !.queue = Tail(@), !.left = @ - Taken(Next1), !.allocated = @ + FromLot]
  /\ acc' = acc /\ history' = history /\ method' = method /\ reports' = reports
  /\ year' = year /\ pos' = pos

\* Why a report fails.
Oversold == \/ work.on /\ work.left > 0 /\ work.queue = <<>>
            \/ ~work.on /\ Pooled(Book).qty < Input.qty
Unsound == \/ OpenBasis(books) < 0 \/ BookBasis(Book) < 0
           \/ \E i \in DOMAIN Book.lots : Book.lots[i].basis < 0
           \/ \E c \in Books : /\ OpenBasis(Put(c)) < 0
                               /\ \/ IsBuy(Input) /\ c = BuyInto(Book, Input)
                                  \/ work.on /\ c = LotsLeft
                                  \/ /\ method \in {"hybrid", "average"}
                                     /\ ~(Pooled(Book).qty < Input.qty) /\ c = PoolLeft(Pooled(Book))
Failed == Replaying /\ pos < Len(Inputs) /\ Abort /\ ((~IsBuy(Input) /\ Oversold) \/ Unsound)

\* A lot that something is taken from.
LEMMA LotsAfterType ==
  ASSUME TypeOK, Working, work.on, work.left > 0, work.queue # <<>>
  PROVE  /\ Head(work.queue) \in OpenLots(Book) /\ Next1 \in Lots /\ Next1.qty > 0
         /\ LotsAfter \in Seq(Lots) /\ DOMAIN LotsAfter = DOMAIN Book.lots
         /\ \A j \in DOMAIN Book.lots \ {Head(work.queue)} : LotsAfter[j] = Book.lots[j]
         /\ LotsAfter[Head(work.queue)].qty = Next1.qty - Taken(Next1)
         /\ LotsAfter[Head(work.queue)].basis = Next1.basis - FromLot
         /\ [Book EXCEPT !.lots = LotsAfter] \in Books /\ ~[Book EXCEPT !.lots = LotsAfter].pooled
         /\ [Book EXCEPT !.lots = LotsAfter].lots = LotsAfter
         /\ BookQty([Book EXCEPT !.lots = LotsAfter]) = BookQty(Book) - Taken(Next1)
         /\ work' = [work EXCEPT !.queue = Tail(@), !.left = @ - Taken(Next1),
                                 !.allocated = @ + FromLot]
              => /\ work'.on /\ work'.queue = Tail(work.queue) /\ work'.left = work.left - Taken(Next1)
                 /\ work'.allocated = work.allocated + FromLot
<1>1. PICK i, t, portion : i = Head(work.queue) /\ t = Taken(Next1) /\ portion = FromLot
  OBVIOUS
<1>2. work \in Works /\ Book \in Books /\ pos < Len(Inputs)
  BY InputType DEF TypeOK, Working
<1>3. i \in OpenLots(Book)
  <2>1. work.queue \in Seq(Nat) /\ work.queue # <<>>
    BY <1>2 DEF Works
  <2>2. 1 \in DOMAIN work.queue /\ i = work.queue[1]
    BY <1>1, <2>1
  <2> QED BY <2>2 DEF Working, Queued
<1>4. Book.lots \in Seq(Lots) /\ i \in DOMAIN Book.lots /\ Next1 \in Lots /\ Next1.qty > 0 /\ ~Book.pooled
      /\ Next1 = Book.lots[i]
  BY <1>1, <1>2, <1>3 DEF Books, OpenLots, Next1, Working
<1>5. /\ t \in Nat /\ t <= Next1.qty /\ work.left - t \in Nat /\ portion \in Int
      /\ t = Next1.qty => portion = Next1.basis
  BY <1>1, <1>4, TakenIs DEF FromLot
<1> DEFINE l == [Next1 EXCEPT !.qty = Next1.qty - t, !.basis = Next1.basis - portion]
           lots == [Book.lots EXCEPT ![i] = l]
           c == [Book EXCEPT !.lots = lots]
<1>6. LotsAfter = lots
  BY <1>1 DEF LotsAfter
<1>7. l \in Lots /\ l.qty = Next1.qty - t /\ l.basis = Next1.basis - portion
  <2> DEFINE q == Next1.qty
             basis == Next1.basis
  <2>1. q \in Nat /\ basis \in Int /\ t \in Nat /\ t <= q /\ portion \in Int
    BY <1>4, <1>5 DEF Lots
  <2> HIDE DEF q, basis
  <2>2. q - t \in Nat
    BY <2>1
  <2>3. basis - portion \in Int
    BY <2>1
  <2> QED BY <1>4, <2>2, <2>3 DEF Lots, q, basis
<1> HIDE DEF l
<1>8. /\ lots \in Seq(Lots) /\ DOMAIN lots = DOMAIN Book.lots /\ lots[i] = l
      /\ \A j \in DOMAIN Book.lots \ {i} : lots[j] = Book.lots[j]
  BY <1>4, <1>7, ExceptSeq
<1> HIDE DEF lots
<1>9. c \in Books /\ ~c.pooled /\ c.lots = lots
  BY <1>2, <1>4, <1>8 DEF Books
<1> HIDE DEF c
<1>10. BookQty(c) = BookQty(Book) - t
  <2>1. /\ Book \in Books /\ ~Book.pooled /\ i \in OpenLots(Book) /\ t \in Nat /\ t <= Book.lots[i].qty
        /\ portion \in Int /\ (t = Book.lots[i].qty => portion = Book.lots[i].basis)
    BY <1>2, <1>3, <1>4, <1>5
  <2>2. /\ c \in Books /\ ~c.pooled /\ DOMAIN c.lots = DOMAIN Book.lots
        /\ \A j \in DOMAIN Book.lots \ {i} : c.lots[j] = Book.lots[j]
    BY <1>8, <1>9
  <2>3. /\ c.lots[i].qty = Book.lots[i].qty - t
        /\ c.lots[i].basis = Book.lots[i].basis - portion
    BY <1>4, <1>7, <1>8, <1>9
  <2> QED BY <2>1, <2>2, <2>3, LotTaken
<1>11. ASSUME work' = [work EXCEPT !.queue = Tail(@), !.left = @ - Taken(Next1), !.allocated = @ + FromLot]
       PROVE  /\ work'.on /\ work'.queue = Tail(work.queue) /\ work'.left = work.left - t
              /\ work'.allocated = work.allocated + portion
  BY <1>1, <1>2, <1>11 DEF Works
<1> QED BY <1>1, <1>3, <1>4, <1>6, <1>7, <1>8, <1>9, <1>10, <1>11 DEF c

LEMMA LotsLeftType ==
  ASSUME TypeOK, Working, PoolInv
  PROVE  /\ LotsLeft \in Books /\ BookQty(LotsLeft) = BookQty(Book)
         /\ LotsLeft.pooled => method = "average" \/ LotsLeft = NewBook
         /\ LotsLeft = NewBook \/ LotsLeft = Book
<1>1. Book \in Books /\ ~Book.pooled
  BY InputType DEF Working
<1>2. NewBook \in Books /\ BookQty(NewBook) = 0
  BY NewBookHolds
<1> QED BY <1>1, <1>2 DEF LotsLeft, Emptied

LEMMA PoolLeftType ==
  ASSUME TypeOK, pos < Len(Inputs), NEW b, b = Pooled(Book), ~(b.qty < Input.qty),
         method \in {"hybrid", "average"}
  PROVE  /\ b \in Books /\ b.pooled /\ b.qty = BookQty(Book) /\ b.basis = BookBasis(Book)
         /\ PoolLeft(b) \in Books /\ BookQty(PoolLeft(b)) = BookQty(Book) - Input.qty
         /\ b.qty = Input.qty => PoolLeft(b) = NewBook
         /\ b.qty # Input.qty =>
              /\ PoolLeft(b).pooled /\ PoolLeft(b).qty = b.qty - Input.qty
              /\ PoolLeft(b).basis = b.basis - FromPool(b)
              /\ PoolLeft(b).lots = OldestConsumed(b.lots, Input.qty)
<1>1. Book \in Books /\ Input.qty \in Nat \ {0}
  BY InputType
<1>2. /\ b \in Books /\ b.pooled /\ b.qty = BookQty(Book) /\ b.basis = BookBasis(Book)
      /\ b.qty \in Nat /\ b.basis \in Int /\ b.lots \in Seq(Lots)
  BY <1>1, PooledHolds DEF Books
<1>3. CASE b.qty = Input.qty
  BY <1>1, <1>2, <1>3, NewBookHolds DEF PoolLeft, Emptied
<1>4. CASE b.qty # Input.qty
  <2> DEFINE q == b.qty - Input.qty
             s == b.basis - FromPool(b)
             lots == OldestConsumed(b.lots, Input.qty)
             c == [b EXCEPT !.qty = q, !.basis = s, !.lots = lots]
  <2>1. q \in Nat
    BY <1>1, <1>2
  <2>2. s \in Int
    <3>1. b.qty \in Nat \ {0} /\ Input.qty \in Nat
      BY <1>1, <1>2
    <3>2. FromPool(b) \in Int
      BY <1>2, <3>1, AllocateType DEF FromPool
    <3> QED BY <1>2, <3>2
  <2>3. lots \in Seq(Lots)
    <3>1. Input.qty \in Nat
      BY <1>1
    <3> QED BY <1>2, <3>1, OldestType
  <2>4. PoolLeft(b) = c
    BY <1>4 DEF PoolLeft, Rest
  <2> HIDE DEF q, s, lots
  <2>5. c \in Books /\ c.pooled /\ c.qty = q /\ c.basis = s /\ c.lots = lots
    BY <1>2, <2>1, <2>2, <2>3 DEF Books
  <2> HIDE DEF c
  <2>6. BookQty(c) = q
    BY <2>5 DEF BookQty
  <2>7. BookQty(Book) = b.qty
    BY <1>2
  <2> QED BY <1>2, <1>4, <2>4, <2>5, <2>6, <2>7 DEF q, s, lots
<1> QED BY <1>3, <1>4

LEMMA CompleteIs ==
  ASSUME IInv, Replaying, pos < Len(Inputs), NEW before, NEW c \in Books, NEW allocated, NEW zero,
         Complete(before, Put(c), allocated, zero)
  PROVE  \/ Done(before, c, allocated, zero)
         \/ Abort /\ OpenBasis(Put(c)) < 0
<1>1. CASE ValidReplayState(Put(c))
  BY <1>1 DEF Complete, Done
<1>2. CASE ~ValidReplayState(Put(c))
  <2>1. books \in [Keys -> Books] /\ Key(Inputs, Input) \in Keys
    BY InputType DEF IInv, TypeOK
  <2>2. Put(c) \in [Keys -> Books]
    BY <2>1 DEF Put
  <2>3. OpenQty(Put(c)) \in Nat /\ OpenBasis(Put(c)) \in Int
    BY <2>2, OpenType
  <2> QED BY <1>2, <2>3 DEF Complete, ValidReplayState
<1> QED BY <1>1, <1>2

LEMMA BuyIs == ASSUME IInv, Buy PROVE BuyDone \/ Failed
<1>1. /\ Replaying /\ pos < Len(Inputs) /\ ~work.on /\ IsBuy(Input)
      /\ Complete(Captured, Put(BuyInto(Book, Input)), 0, FALSE)
  BY DEF Buy, AtActivity, IsBuy
<1>2. BuyInto(Book, Input) \in Books
  BY <1>1, InputType, Bought1 DEF IInv
<1>3. \/ Done(Captured, BuyInto(Book, Input), 0, FALSE)
      \/ Abort /\ OpenBasis(Put(BuyInto(Book, Input))) < 0
  BY <1>1, <1>2, CompleteIs
<1> QED BY <1>1, <1>2, <1>3 DEF BuyDone, Failed, Unsound

LEMMA DisposeLotsIs == ASSUME IInv, DisposeLots PROVE LotsBegun
BY DEF DisposeLots, LotsBegun, AtActivity, IsBuy

LEMMA TakeLotIs == ASSUME IInv, TakeLot PROVE LotDone \/ Failed
<1>1. /\ Working /\ work.left > 0 /\ work.queue # <<>> /\ TypeOK /\ work.on /\ Replaying
      /\ pos < Len(Inputs) /\ ~IsBuy(Input) /\ ~Book.pooled
  BY DEF IInv, TakeLot, WorkInv, Working, IsBuy
<1>2. Head(work.queue) \in OpenLots(Book) /\ Next1 \in Lots
  BY <1>1, LotsAfterType
<1>3. Head(work.queue) \in DOMAIN Book.lots /\ Book \in Books
  BY <1>1, <1>2, InputType DEF OpenLots
<1>4. CASE Next1.basis < 0
  <2>1. Abort
    BY <1>4 DEF TakeLot, Next1
  <2> QED BY <1>1, <1>3, <1>4, <2>1 DEF Failed, Unsound, Next1
<1>5. CASE ~(Next1.basis < 0)
  <2> DEFINE i == Head(work.queue)
             lot == Book.lots[i]
             portion == Allocate(lot.basis, lot.qty, Taken(lot))
             c == [Book EXCEPT !.lots[i].qty = @ - Taken(lot), !.lots[i].basis = @ - portion]
  <2>1. /\ books' = Put(c)
        /\ work' = [work EXCEPT !.queue = Tail(@), !.left = @ - Taken(lot), !.allocated = @ + portion]
        /\ acc' = acc /\ history' = history /\ method' = method /\ reports' = reports
        /\ year' = year /\ pos' = pos
    BY <1>5 DEF TakeLot, Next1
  <2>2. lot = Next1 /\ portion = FromLot
    BY DEF Next1, FromLot
  <2>3. c = [Book EXCEPT !.lots = LotsAfter]
    <3> DEFINE l == [Book.lots[i] EXCEPT !.qty = @ - Taken(lot), !.basis = @ - portion]
    <3>1. c = [Book EXCEPT !.lots = [Book.lots EXCEPT ![i] = l]]
      BY <1>3 DEF Books
    <3>2. l = [Next1 EXCEPT !.qty = Next1.qty - Taken(Next1), !.basis = Next1.basis - FromLot]
      BY <2>2 DEF Next1
    <3> HIDE DEF l
    <3> QED BY <3>1, <3>2 DEF LotsAfter
  <2> HIDE DEF c, portion, lot
  <2>4. work' = [work EXCEPT !.queue = Tail(@), !.left = @ - Taken(Next1), !.allocated = @ + FromLot]
    BY <2>1, <2>2
  <2> QED BY <1>1, <2>1, <2>3, <2>4 DEF LotDone
<1> QED BY <1>4, <1>5

LEMMA EndLotsIs == ASSUME IInv, EndLots PROVE LotsDone \/ Failed
<1>1. /\ Working /\ TypeOK /\ work.on /\ Replaying /\ PoolInv
      /\ pos < Len(Inputs) /\ ~IsBuy(Input) /\ ~Book.pooled /\ work.left \in Nat
  BY DEF IInv, EndLots, WorkInv, Working, IsBuy, TypeOK, Works
<1>2. CASE work.left > 0
  BY <1>1, <1>2 DEF EndLots, Failed, Oversold
<1>3. CASE ~(work.left > 0)
  <2>1. Complete(acc, Put(LotsLeft), work.allocated, BookQty(Book) = 0)
    BY <1>3 DEF EndLots, LotsLeft
  <2>2. LotsLeft \in Books
    BY <1>1, LotsLeftType
  <2>3. \/ Done(acc, LotsLeft, work.allocated, BookQty(Book) = 0)
        \/ Abort /\ OpenBasis(Put(LotsLeft)) < 0
    BY <1>1, <2>1, <2>2, CompleteIs
  <2> QED BY <1>1, <1>3, <2>2, <2>3 DEF LotsDone, Failed, Unsound
<1> QED BY <1>2, <1>3

LEMMA DisposePoolIs == ASSUME IInv, DisposePool PROVE PoolDone \/ Failed
<1>0. PICK b : b = Pooled(Book)
  OBVIOUS
<1>1. /\ Replaying /\ pos < Len(Inputs) /\ ~work.on /\ ~IsBuy(Input) /\ ~Exact(Book) /\ TypeOK
      /\ (Book.pooled \/ method = "hybrid")
  BY DEF DisposePool, AtActivity, Exact, IsBuy, IInv
<1>2. Key(Inputs, Input) \in Keys /\ Book \in Books
  BY <1>1, InputType
<1>3. method \in {"hybrid", "average"}
  BY <1>1, <1>2 DEF IInv, PoolInv, Book
<1>4. b.basis = BookBasis(Book) /\ OpenLots(Book) \subseteq DOMAIN Book.lots
  BY <1>0, <1>2, PooledHolds DEF OpenLots
<1>5. CASE b.qty < Input.qty
  <2>1. Abort
    BY <1>0, <1>5 DEF DisposePool
  <2> QED BY <1>0, <1>1, <1>5, <2>1 DEF Failed, Oversold
<1>6. CASE ~(b.qty < Input.qty) /\ (b.basis < 0 \/ \E i \in OpenLots(Book) : Book.lots[i].basis < 0)
  <2>1. Abort
    BY <1>0, <1>6 DEF DisposePool
  <2> QED BY <1>1, <1>4, <1>6, <2>1 DEF Failed, Unsound
<1>7. CASE ~(b.qty < Input.qty) /\ ~(b.basis < 0 \/ \E i \in OpenLots(Book) : Book.lots[i].basis < 0)
  <2>1. Complete(Captured, Put(PoolLeft(b)), FromPool(b), b.qty = Input.qty)
    BY <1>0, <1>7 DEF DisposePool, PoolLeft, Rest, FromPool
  <2>2. PoolLeft(b) \in Books
    BY <1>0, <1>1, <1>3, <1>7, PoolLeftType
  <2>3. \/ Done(Captured, PoolLeft(b), FromPool(b), b.qty = Input.qty)
        \/ Abort /\ OpenBasis(Put(PoolLeft(b))) < 0
    BY <1>1, <2>1, <2>2, CompleteIs
  <2> QED BY <1>0, <1>1, <1>3, <1>7, <2>2, <2>3 DEF PoolDone, Failed, Unsound
<1> QED BY <1>5, <1>6, <1>7

\* Every step is one of these.
LEMMA Steps ==
  ASSUME IInv, [Next]_vars
  PROVE  \/ UNCHANGED vars
         \/ \E a \in Activities : Record(a)
         \/ \E y \in Years : Begin(y)
         \/ BuyDone \/ LotsBegun \/ LotDone \/ LotsDone \/ PoolDone \/ Failed \/ Finish
BY BuyIs, DisposeLotsIs, TakeLotIs, EndLotsIs, DisposePoolIs DEF Next, Replay

-----------------------------------------------------------------------------
(* Books hold what the activities left.                                    *)

\* What the disposal that goes through lots took from scope k already.
Pending(k) == IF work.on /\ k = Key(Inputs, Input) THEN Input.qty - work.left ELSE 0

\* Each book holds what its activities left, and all of them what the asset did.
QtyInv == Replaying =>
  /\ \A k \in Keys : BookQty(books[k]) = HeldIn(Inputs, pos, k) - Pending(k)
  /\ \A n \in 0..pos : \A k \in Keys : HeldIn(Inputs, n, k) >= 0
  /\ OpenQty(books) = Net(Inputs, pos) - IF work.on THEN Input.qty - work.left ELSE 0

LEMMA QtyThen ==
  ASSUME history' = history, year' = year, method' = method
  PROVE  /\ Inputs' = Inputs /\ (Replaying' <=> Replaying)
         /\ \A a : Key(Inputs, a)' = Key(Inputs, a)
         /\ QtyInv' <=>
              (Replaying =>
                 /\ \A k \in Keys : BookQty(books'[k]) =
                      HeldIn(Inputs, pos', k) - IF work'.on /\ k = Key(Inputs, Inputs[pos' + 1])
                                                THEN Inputs[pos' + 1].qty - work'.left ELSE 0
                 /\ \A n \in 0..pos' : \A k \in Keys : HeldIn(Inputs, n, k) >= 0
                 /\ OpenQty(books') = Net(Inputs, pos')
                                        - IF work'.on THEN Inputs[pos' + 1].qty - work'.left ELSE 0)
<1>1. Inputs' = Inputs /\ (Replaying' <=> Replaying)
  BY InputsSame
<1>2. \A a : Key(Inputs, a)' = Key(Inputs, a)
  BY <1>1 DEF Key, Broadened
<1> QED BY <1>1, <1>2 DEF QtyInv, Pending, Input, HeldIn, Net, SignedOf, Signed, BookQty, OpenQty, QtyOf,
  Key, Broadened

\* An activity that is complete leaves in its book what it should, and in no other book anything else.
LEMMA DoneQty ==
  ASSUME IInv, QtyInv, NEW before, NEW c \in Books, NEW allocated, NEW zero,
         Done(before, c, allocated, zero),
         BookQty(c) = BookQty(Book) + Signed(Input) + Pending(Key(Inputs, Input))
  PROVE  /\ QtyInv'
         /\ HeldIn(Inputs, pos + 1, Key(Inputs, Input)) = BookQty(c)
<1> DEFINE K == Key(Inputs, Input)
<1>1. /\ Replaying /\ pos < Len(Inputs) /\ books' = Put(c) /\ pos' = pos + 1 /\ work' = NoWork
      /\ history' = history /\ method' = method /\ year' = year /\ TypeOK
  BY DEF Done, IInv
<1>2. /\ Inputs \in Seq(Activities) /\ pos \in 0..(Len(Inputs) - 1) /\ pos \in Nat
      /\ K \in Keys /\ Book \in Books /\ books \in [Keys -> Books] /\ Book = books[K]
      /\ Input \in Activities /\ Input = Inputs[pos + 1] /\ Signed(Input) \in Int
  <2>1. Inputs \in Seq(Activities) /\ pos \in 0..(Len(Inputs) - 1) /\ pos \in Nat
    BY <1>1, InputsType DEF TypeOK
  <2>2. pos + 1 \in DOMAIN Inputs /\ Input = Inputs[pos + 1]
    BY <2>1 DEF Input
  <2> QED BY <1>1, <2>1, <2>2, InputType, SignedIs DEF TypeOK, Book
<1>3. \A k \in Keys :
        /\ HeldIn(Inputs, pos, k) \in Int /\ Net(Inputs, pos) \in Int
        /\ HeldIn(Inputs, pos + 1, k) = HeldIn(Inputs, pos, k) + IF K = k THEN Signed(Input) ELSE 0
        /\ Net(Inputs, pos + 1) = Net(Inputs, pos) + Signed(Input)
  BY <1>2, HeldMore, NetMore
<1>4. /\ \A k \in Keys : BookQty(books[k]) = HeldIn(Inputs, pos, k) - Pending(k)
      /\ \A n \in 0..pos : \A k \in Keys : HeldIn(Inputs, n, k) >= 0
      /\ OpenQty(books) = Net(Inputs, pos) - Pending(K)
  BY <1>1 DEF QtyInv, Pending
<1>5. Put(c) \in [Keys -> Books] /\ \A k \in Keys : Put(c)[k] = IF k = K THEN c ELSE books[k]
  BY <1>2 DEF Put
<1>6. OpenQty(Put(c)) = OpenQty(books) - BookQty(Book) + BookQty(c)
  BY <1>2, OpenQtyChange DEF Put
<1>7. BookQty(c) \in Nat /\ BookQty(Book) \in Nat
  BY <1>2, BookType
<1>8. \A k \in Keys : k # K => Pending(k) = 0
  BY DEF Pending
<1>9. Pending(K) \in Int
  <2>1. work.left \in Nat /\ Input.qty \in Nat
    BY <1>1, InputType DEF TypeOK, Works
  <2> QED BY <2>1 DEF Pending
<1> HIDE DEF K
<1>10. \A k \in Keys : BookQty(Put(c)[k]) = HeldIn(Inputs, pos + 1, k)
  <2> SUFFICES ASSUME NEW k \in Keys PROVE BookQty(Put(c)[k]) = HeldIn(Inputs, pos + 1, k)
    OBVIOUS
  <2>1. CASE k = K
    <3>1. BookQty(Put(c)[k]) = BookQty(c)
      BY <1>5, <2>1
    <3>2. BookQty(c) = BookQty(Book) + Signed(Input) + Pending(K)
      BY DEF K
    <3>3. BookQty(Book) = HeldIn(Inputs, pos, K) - Pending(K)
      BY <1>2, <1>4
    <3>4. HeldIn(Inputs, pos + 1, K) = HeldIn(Inputs, pos, K) + Signed(Input) /\ HeldIn(Inputs, pos, K) \in Int
      BY <1>2, <1>3
    <3> QED BY <1>2, <1>9, <2>1, <3>1, <3>2, <3>3, <3>4
  <2>2. CASE k # K
    <3>1. BookQty(Put(c)[k]) = BookQty(books[k])
      BY <1>5, <2>2
    <3>2. BookQty(books[k]) = HeldIn(Inputs, pos, k) - 0
      BY <1>4, <1>8, <2>2
    <3>3. HeldIn(Inputs, pos + 1, k) = HeldIn(Inputs, pos, k) + 0 /\ HeldIn(Inputs, pos, k) \in Int
      BY <1>3, <2>2
    <3> QED BY <3>1, <3>2, <3>3
  <2> QED BY <2>1, <2>2
<1>11. \A n \in 0..(pos + 1) : \A k \in Keys : HeldIn(Inputs, n, k) >= 0
  <2>1. \A k \in Keys : HeldIn(Inputs, pos + 1, k) >= 0
    <3>1. \A k \in Keys : BookQty(Put(c)[k]) \in Nat
      BY <1>5, BookType
    <3>2. \A k \in Keys : HeldIn(Inputs, pos + 1, k) \in Nat
      BY <1>10, <3>1
    <3> QED BY <3>2
  <2>2. \A n \in 0..(pos + 1) : n \in 0..pos \/ n = pos + 1
    BY <1>2
  <2> QED BY <1>4, <2>1, <2>2
<1>12. OpenQty(Put(c)) = Net(Inputs, pos + 1)
  <2>1. BookQty(c) = BookQty(Book) + Signed(Input) + Pending(K)
    BY DEF K
  <2>2. /\ OpenQty(books) = Net(Inputs, pos) - Pending(K) /\ Net(Inputs, pos) \in Int
        /\ Net(Inputs, pos + 1) = Net(Inputs, pos) + Signed(Input)
    BY <1>2, <1>3, <1>4
  <2> QED BY <1>2, <1>6, <1>7, <1>9, <2>1, <2>2
<1>13. ~work'.on
  BY <1>1, NewTypes
<1>14. /\ \A k \in Keys : BookQty(books'[k]) = HeldIn(Inputs, pos', k)
       /\ \A n \in 0..pos' : \A k \in Keys : HeldIn(Inputs, n, k) >= 0
       /\ OpenQty(books') = Net(Inputs, pos')
  BY <1>1, <1>10, <1>11, <1>12
<1>15. \A k \in Keys : HeldIn(Inputs, pos', k) \in Int /\ Net(Inputs, pos') \in Int
  <2>1. pos' \in 0..Len(Inputs)
    BY <1>1, <1>2
  <2> QED BY <1>2, <2>1, HeldType
<1>16. QtyInv'
  <2>1. \A x \in Int : x = x - 0
    OBVIOUS
  <2> QED BY <1>1, <1>2, <1>13, <1>14, <1>15, <2>1, QtyThen
<1>17. HeldIn(Inputs, pos + 1, K) = BookQty(c)
  BY <1>2, <1>5, <1>10
<1> QED BY <1>16, <1>17 DEF K

LEMMA BuyQty == ASSUME IInv, QtyInv, BuyDone PROVE QtyInv'
<1>1. Done(Captured, BuyInto(Book, Input), 0, FALSE) /\ ~work.on /\ IsBuy(Input) /\ pos < Len(Inputs) /\ TypeOK
  BY DEF BuyDone, Done, IInv
<1>2. Book \in Books /\ Input \in Activities /\ Input.qty \in Nat
  BY <1>1, InputType
<1>3. BuyInto(Book, Input) \in Books /\ BookQty(BuyInto(Book, Input)) = BookQty(Book) + Input.qty
  BY <1>2, Bought1
<1>4. Signed(Input) = Input.qty /\ Pending(Key(Inputs, Input)) = 0
  BY <1>1 DEF Signed, IsBuy, Pending
<1>5. BookQty(BuyInto(Book, Input)) = BookQty(Book) + Signed(Input) + Pending(Key(Inputs, Input))
  BY <1>2, <1>3, <1>4, BookType
<1> QED BY <1>1, <1>3, <1>5, DoneQty

\* The audit entry says whether the scope holds nothing any more.
LEMMA LotsQty ==
  ASSUME IInv, QtyInv, LotsDone
  PROVE  QtyInv' /\ (BookQty(Book) = 0 <=> HeldIn(Inputs, pos + 1, Key(Inputs, Input)) = 0)
<1>1. /\ Done(acc, LotsLeft, work.allocated, BookQty(Book) = 0) /\ work.on /\ ~IsBuy(Input)
      /\ pos < Len(Inputs) /\ TypeOK /\ work.left = 0 /\ Working /\ PoolInv
  BY DEF LotsDone, Done, IInv, WorkInv
<1>2. Book \in Books /\ Input \in Activities /\ Input.qty \in Nat
  BY <1>1, InputType
<1>3. LotsLeft \in Books /\ BookQty(LotsLeft) = BookQty(Book)
  BY <1>1, LotsLeftType
<1>4. Signed(Input) = -Input.qty /\ Pending(Key(Inputs, Input)) = Input.qty - 0
  BY <1>1 DEF Signed, IsBuy, Pending
<1>5. BookQty(LotsLeft) = BookQty(Book) + Signed(Input) + Pending(Key(Inputs, Input))
  BY <1>2, <1>3, <1>4, BookType
<1> QED BY <1>1, <1>3, <1>5, DoneQty

LEMMA PoolQty ==
  ASSUME IInv, QtyInv, PoolDone
  PROVE  QtyInv' /\ (Pooled(Book).qty = Input.qty <=> HeldIn(Inputs, pos + 1, Key(Inputs, Input)) = 0)
<1>0. PICK b : b = Pooled(Book)
  OBVIOUS
<1>1. /\ Done(Captured, PoolLeft(b), FromPool(b), b.qty = Input.qty) /\ ~work.on /\ ~IsBuy(Input)
      /\ pos < Len(Inputs) /\ TypeOK /\ method \in {"hybrid", "average"} /\ ~(b.qty < Input.qty)
  BY <1>0 DEF PoolDone, Done, IInv
<1>2. Book \in Books /\ Input \in Activities /\ Input.qty \in Nat
  BY <1>1, InputType
<1>3. PoolLeft(b) \in Books /\ BookQty(PoolLeft(b)) = BookQty(Book) - Input.qty /\ b.qty = BookQty(Book)
  BY <1>0, <1>1, PoolLeftType
<1>4. Signed(Input) = -Input.qty /\ Pending(Key(Inputs, Input)) = 0
  BY <1>1 DEF Signed, IsBuy, Pending
<1>5. BookQty(Book) \in Nat
  BY <1>2, BookType
<1>6. BookQty(PoolLeft(b)) = BookQty(Book) + Signed(Input) + Pending(Key(Inputs, Input))
  BY <1>2, <1>3, <1>4, <1>5
<1>7. QtyInv' /\ HeldIn(Inputs, pos + 1, Key(Inputs, Input)) = BookQty(PoolLeft(b))
  BY <1>1, <1>3, <1>6, DoneQty
<1> QED BY <1>0, <1>2, <1>3, <1>5, <1>7

LEMMA BegunQty == ASSUME IInv, QtyInv, LotsBegun PROVE QtyInv'
<1>1. /\ Replaying /\ pos < Len(Inputs) /\ ~work.on /\ TypeOK /\ work'.left = Input.qty /\ books' = books
      /\ history' = history /\ method' = method /\ year' = year /\ pos' = pos
  BY DEF LotsBegun, IInv
<1>2. Input.qty \in Nat /\ Input = Inputs[pos + 1]
  BY <1>1, InputType DEF Input
<1>3. /\ \A k \in Keys : BookQty(books[k]) = HeldIn(Inputs, pos, k) - 0
      /\ \A n \in 0..pos : \A k \in Keys : HeldIn(Inputs, n, k) >= 0
      /\ OpenQty(books) = Net(Inputs, pos) - 0
  BY <1>1 DEF QtyInv, Pending
<1>4. Inputs[pos' + 1].qty - work'.left = 0
  BY <1>1, <1>2
<1> QED BY <1>1, <1>3, <1>4, QtyThen

LEMMA LotQty == ASSUME IInv, QtyInv, LotDone PROVE QtyInv'
<1> DEFINE K == Key(Inputs, Input)
           c == [Book EXCEPT !.lots = LotsAfter]
           t == Taken(Next1)
<1>1. /\ Replaying /\ pos < Len(Inputs) /\ work.on /\ TypeOK /\ books' = Put(c) /\ Working
      /\ history' = history /\ method' = method /\ year' = year /\ pos' = pos
      /\ work.left > 0 /\ work.queue # <<>>
      /\ work' = [work EXCEPT !.queue = Tail(@), !.left = @ - t, !.allocated = @ + FromLot]
  BY DEF LotDone, IInv, WorkInv
<1>2. /\ c \in Books /\ BookQty(c) = BookQty(Book) - t /\ work'.on /\ work'.left = work.left - t
      /\ Next1 \in Lots /\ Next1.qty > 0
  BY <1>1, LotsAfterType
<1>3. t \in Nat
  BY <1>1, <1>2, TakenIs
<1> HIDE DEF t, c
<1>4. /\ K \in Keys /\ Book \in Books /\ books \in [Keys -> Books] /\ Book = books[K]
      /\ Input.qty \in Nat /\ work.left \in Nat /\ Input = Inputs[pos + 1]
  BY <1>1, InputType DEF TypeOK, Works, Book, Input
<1>5. /\ \A k \in Keys : BookQty(books[k]) = HeldIn(Inputs, pos, k) - Pending(k)
      /\ \A n \in 0..pos : \A k \in Keys : HeldIn(Inputs, n, k) >= 0
      /\ OpenQty(books) = Net(Inputs, pos) - (Input.qty - work.left)
  BY <1>1 DEF QtyInv
<1>6. Put(c) \in [Keys -> Books] /\ \A k \in Keys : Put(c)[k] = IF k = K THEN c ELSE books[k]
  BY <1>2, <1>4 DEF Put
<1>7. OpenQty(Put(c)) = OpenQty(books) - BookQty(Book) + BookQty(c)
  BY <1>2, <1>4, OpenQtyChange DEF Put
<1>8. BookQty(Book) \in Nat /\ OpenQty(books) \in Nat
  BY <1>4, BookType, OpenType
<1>9. \A k \in Keys : HeldIn(Inputs, pos, k) \in Int /\ Net(Inputs, pos) \in Int
  <2>1. Inputs \in Seq(Activities) /\ pos \in 0..Len(Inputs)
    BY <1>1, InputsType DEF TypeOK
  <2> QED BY <2>1, HeldType
<1>10. \A k \in Keys : Pending(k) = IF k = K THEN Input.qty - work.left ELSE 0
  BY <1>1 DEF Pending
<1> HIDE DEF K
<1>11. \A k \in Keys : BookQty(books'[k]) = HeldIn(Inputs, pos, k) - IF k = K THEN Input.qty - work'.left ELSE 0
  <2> SUFFICES ASSUME NEW k \in Keys
               PROVE  BookQty(books'[k]) = HeldIn(Inputs, pos, k) - IF k = K THEN Input.qty - work'.left ELSE 0
    OBVIOUS
  <2>1. CASE k = K
    <3>1. BookQty(books'[k]) = BookQty(Book) - t
      BY <1>1, <1>2, <1>6, <2>1
    <3>2. BookQty(Book) = HeldIn(Inputs, pos, k) - (Input.qty - work.left)
      BY <1>4, <1>5, <1>10, <2>1
    <3> QED BY <1>2, <1>3, <1>4, <1>9, <2>1, <3>1, <3>2
  <2>2. CASE k # K
    <3>1. BookQty(books'[k]) = HeldIn(Inputs, pos, k) - 0
      BY <1>1, <1>5, <1>6, <1>10, <2>2
    <3> QED BY <2>2, <3>1
  <2> QED BY <2>1, <2>2
<1>12. OpenQty(books') = Net(Inputs, pos) - (Input.qty - work'.left)
  <2>1. Net(Inputs, pos) \in Int
    BY <1>4, <1>9
  <2> QED BY <1>1, <1>2, <1>3, <1>4, <1>5, <1>7, <1>8, <2>1, SMTT(20)
<1>13. \A k \in Keys :
         BookQty(books'[k]) = HeldIn(Inputs, pos', k) - IF work'.on /\ k = Key(Inputs, Inputs[pos' + 1])
                                                        THEN Inputs[pos' + 1].qty - work'.left ELSE 0
  BY <1>1, <1>2, <1>4, <1>11 DEF K
<1> QED BY <1>1, <1>2, <1>4, <1>5, <1>12, <1>13, QtyThen

LEMMA BeginQty == ASSUME IInv, NEW y \in Years, Begin(y) PROVE QtyInv'
<1>1. pos' = 0 /\ books' = [k \in Keys |-> NewBook] /\ ~Replaying /\ method' = method /\ work' = work
  BY DEF Begin
<1>2. ~work'.on
  BY <1>1, NewTypes DEF IInv, WorkInv, Working
<1>3. \A k \in Keys : BookQty([j \in Keys |-> NewBook][k]) = 0
  BY NewBookHolds
<1>4. \A k \in Keys : BookQty(books[k])' = 0
  BY <1>1, <1>3 DEF BookQty, QtyOf
<1>5. \A n \in 0..pos' : n = 0
  BY <1>1
<1>6. \A k : HeldIn(Inputs, 0, k)' = 0
  <2>1. 1..0 = {}
    OBVIOUS
  <2>2. \A k : {i \in 1..0 : Key(Inputs, Inputs[i])' = k} = {}
    BY <2>1
  <2> QED BY <2>2, SumEmpty DEF HeldIn
<1>7. Net(Inputs, 0)' = 0
  <2>1. 1..0 = {}
    OBVIOUS
  <2> QED BY <2>1, SumEmpty DEF Net
<1>8. OpenQty(books)' = 0
  <2> DEFINE f == [k \in Keys |-> BookQty([j \in Keys |-> NewBook][k])]
  <2>1. \A k \in Keys : f[k] = 0
    BY <1>3
  <2>2. DOMAIN f = Keys
    OBVIOUS
  <2>3. OpenQty([k \in Keys |-> NewBook]) = SumFunctionOnSet(f, Keys)
    BY <2>2 DEF OpenQty, SumFunction
  <2> HIDE DEF f
  <2>4. SumFunctionOnSet(f, Keys) = SumFunctionOnSet(f, {})
    BY <2>1, KeysFinite, SumZeros
  <2>5. OpenQty(books') = 0
    BY <1>1, <2>3, <2>4, SumEmpty
  <2> QED BY <2>5 DEF OpenQty, BookQty, QtyOf
<1>9. \A k \in Keys : HeldIn(Inputs, pos, k)' = 0 /\ Pending(k)' = 0
  BY <1>1, <1>2, <1>6 DEF Pending
<1>10. Net(Inputs, pos)' = 0
  BY <1>1, <1>7
<1>11. \A n \in 0..pos' : \A k \in Keys : HeldIn(Inputs, n, k)' >= 0
  BY <1>5, <1>6
<1> QED BY <1>2, <1>4, <1>8, <1>9, <1>10, <1>11 DEF QtyInv

-----------------------------------------------------------------------------
(* No basis below zero.                                                    *)

Grained(x) == x \in Nat /\ \E m \in Nat : x = Grain * m

\* Costs have no more decimal places than divisions are rounded to.
GrainedCosts == \A c \in Costs : \E m \in Nat : c = Grain * m

LEMMA CostGrained == GrainedCosts => \A c \in Costs : Grained(c)
BY ReplayAssumption DEF GrainedCosts, Grained

LEMMA GrainedSum ==
  ASSUME NEW x, NEW y, Grained(x), Grained(y)
  PROVE  Grained(x + y) /\ (x <= y => Grained(y - x))
<1>1. PICK m \in Nat : x = Grain * m
  BY DEF Grained
<1>2. PICK n \in Nat : y = Grain * n
  BY DEF Grained
<1>3. Grain \in Nat \ {0} /\ x \in Nat /\ y \in Nat
  BY ReplayAssumption DEF Grained
<1>4. x + y = Grain * (m + n) /\ m + n \in Nat
  BY <1>1, <1>2, <1>3
<1>5. x <= y => m <= n
  <2> SUFFICES ASSUME n < m PROVE y < x
    BY <1>3
  <2>1. m - n \in Nat \ {0} /\ x - y = Grain * (m - n)
    BY <1>1, <1>2, <1>3
  <2>2. Grain * (m - n) > 0
    BY <1>3, <2>1
  <2> QED BY <1>3, <2>1, <2>2
<1>6. y - x = Grain * (n - m)
  BY <1>1, <1>2, <1>3
<1>7. x <= y => n - m \in Nat /\ y - x \in Nat
  BY <1>3, <1>5
<1>8. Grained(x + y)
  <2>1. x + y \in Nat
    BY <1>3
  <2> QED BY <1>4, <2>1 DEF Grained
<1>9. x <= y => Grained(y - x)
  BY <1>6, <1>7 DEF Grained
<1> QED BY <1>8, <1>9

LEMMA GrainedZero == Grained(0)
<1>1. Grain \in Nat /\ 0 = Grain * 0
  BY ReplayAssumption
<1> QED BY <1>1 DEF Grained

LEMMA GrainedTotal ==
  ASSUME NEW f, NEW S, IsFiniteSet(S), \A x \in S : Grained(f[x])
  PROVE  Grained(SumFunctionOnSet(f, S))
<1> DEFINE P(A) == Grained(SumFunctionOnSet(f, A))
           Bad == {A \in SUBSET S : ~ P(A)}
<1> SUFFICES ASSUME Bad # {} PROVE FALSE
  OBVIOUS
<1>0. Bad \in SUBSET SUBSET S /\ Bad # {}
  OBVIOUS
<1>1. PICK A \in Bad : \A u \in Bad : ~ (u \subseteq A /\ u # A)
  <2> HIDE DEF Bad
  <2> QED BY <1>0, LeastSet
<1>2. A \subseteq S /\ IsFiniteSet(A)
  BY FS_Subset
<1>3. A # {}
  BY SumEmpty, GrainedZero
<1>4. Some(A) \in A
  BY <1>3 DEF Some
<1>5. P(A \ {Some(A)})
  BY <1>1, <1>2, <1>4
<1>6. SumFunctionOnSet(f, A) = f[Some(A)] + SumFunctionOnSet(f, A \ {Some(A)})
  BY <1>2, <1>3, SumFirst
<1>7. Grained(f[Some(A)])
  BY <1>2, <1>4
<1>8. P(A)
  BY <1>5, <1>6, <1>7, GrainedSum
<1> QED BY <1>8

\* What is allocated of such a basis is never more than there is.
LEMMA AllocateGrained ==
  ASSUME NEW basis, Grained(basis), NEW qty \in Nat \ {0}, NEW portion \in Nat, portion <= qty
  PROVE  Grained(Allocate(basis, qty, portion)) /\ Allocate(basis, qty, portion) <= basis
<1>1. Grain \in Nat \ {0} /\ basis \in Nat
  BY ReplayAssumption DEF Grained
<1>2. PICK m \in Nat : basis = Grain * m
  BY DEF Grained
<1>3. CASE portion = qty
  BY <1>1, <1>3 DEF Allocate
<1>4. CASE portion # qty
  <2> DEFINE x == basis * portion
             y == basis * qty
             d == qty * Grain
             n == 2 * x + d
             D == 2 * qty * Grain
             r == n \div D
  <2>1. x \in Nat /\ y \in Nat /\ d \in Nat \ {0} /\ D = 2 * d
    BY <1>1
  <2>2. x <= y
    BY <1>1
  <2>3. y = m * d
    BY <1>1, <1>2
  <2>4. Allocate(basis, qty, portion) = Grain * r
    BY <1>4 DEF Allocate, RoundHalfUp
  <2> HIDE DEF x, y, d
  <2>5. n \in Nat /\ D \in Nat \ {0}
    BY <2>1
  <2> HIDE DEF n, D
  <2>6. r \in Nat /\ D * r <= n
    BY <2>5
  <2> HIDE DEF r
  <2>7. r <= m
    <3> SUFFICES ASSUME m < r PROVE FALSE
      BY <2>6
    <3>1. m + 1 <= r /\ r - (m + 1) \in Nat
      BY <2>6
    <3>2. D * r = D * (m + 1) + D * (r - (m + 1)) /\ D * (r - (m + 1)) \in Nat
      BY <2>5, <2>6, <3>1
    <3>3. D * (m + 1) = 2 * y + D
      BY <2>1, <2>3
    <3>4. D * (m + 1) <= n
      <4> DEFINE p == D * (m + 1)
                 q == D * r
                 s == D * (r - (m + 1))
      <4>1. q = p + s /\ s \in Nat /\ q <= n /\ p \in Nat
        BY <2>5, <2>6, <3>2
      <4> HIDE DEF p, q, s
      <4>2. p <= n
        BY <2>5, <4>1
      <4> QED BY <4>2 DEF p
    <3>5. n = 2 * x + d
      BY DEF n
    <3> QED BY <2>1, <2>2, <3>3, <3>4, <3>5
  <2>8. Grain * r \in Nat /\ Grain * r <= Grain * m
    <3>1. m - r \in Nat
      BY <2>6, <2>7
    <3>2. Grain * m = Grain * r + Grain * (m - r) /\ Grain * (m - r) \in Nat /\ Grain * r \in Nat
      BY <1>1, <2>6, <3>1
    <3> DEFINE p == Grain * m
               q == Grain * r
               s == Grain * (m - r)
    <3>3. p = q + s /\ s \in Nat /\ q \in Nat
      BY <3>2
    <3> HIDE DEF p, q, s
    <3>4. q <= p
      BY <3>3
    <3> QED BY <3>2, <3>4 DEF p, q
  <2> QED BY <1>2, <2>4, <2>6, <2>8 DEF Grained
<1> QED BY <1>3, <1>4

GrainedBook(b) == Grained(b.basis) /\ \A i \in DOMAIN b.lots : Grained(b.lots[i].basis)
BasisInv == \A k \in Keys : GrainedBook(books[k])

LEMMA GrainedBasis ==
  ASSUME NEW b \in Books, GrainedBook(b)
  PROVE  Grained(BookBasis(b))
<1>1. b.lots \in Seq(Lots) /\ OpenLots(b) \subseteq DOMAIN b.lots
  BY DEF Books, OpenLots
<1>2. IsFiniteSet(OpenLots(b)) /\ \A i \in OpenLots(b) : Grained(BasisOf(b.lots)[i])
  BY <1>1, LotsFinite DEF GrainedBook, BasisOf
<1>3. Grained(SumFunctionOnSet(BasisOf(b.lots), OpenLots(b)))
  BY <1>2, GrainedTotal
<1> QED BY <1>3 DEF BookBasis, GrainedBook

LEMMA GrainedOpen ==
  ASSUME NEW bs \in [Keys -> Books], \A k \in Keys : GrainedBook(bs[k])
  PROVE  OpenBasis(bs) >= 0
<1> DEFINE f == [k \in Keys |-> BookBasis(bs[k])]
<1>1. \A k \in Keys : Grained(f[k])
  BY GrainedBasis
<1>2. OpenBasis(bs) = SumFunctionOnSet(f, Keys)
  BY DEF OpenBasis, SumFunction
<1> HIDE DEF f
<1>3. Grained(SumFunctionOnSet(f, Keys))
  BY <1>1, KeysFinite, GrainedTotal
<1> QED BY <1>2, <1>3 DEF Grained

LEMMA GrainedNew == GrainedBook(NewBook)
BY GrainedZero DEF GrainedBook, NewBook

LEMMA GrainedBought ==
  ASSUME NEW b \in Books, GrainedBook(b), NEW a \in Activities, Grained(a.amount)
  PROVE  GrainedBook(BuyInto(b, a))
<1> DEFINE Lot(x) == [qty |-> a.qty, basis |-> x]
<1>1. /\ b.lots \in Seq(Lots) /\ \A i \in DOMAIN b.lots : Grained(b.lots[i].basis)
      /\ a.qty \in Nat /\ b.basis \in Int /\ a.amount \in Int
  BY ActivityType DEF Books, GrainedBook
<1>2. ASSUME NEW x \in Int, Grained(x)
      PROVE  \A i \in DOMAIN Append(b.lots, Lot(x)) : Grained(Append(b.lots, Lot(x))[i].basis)
  <2>1. Lot(x) \in Lots /\ Lot(x).basis = x
    BY <1>1 DEF Lots
  <2> HIDE DEF Lot
  <2>2. \A i \in DOMAIN Append(b.lots, Lot(x)) :
          Append(b.lots, Lot(x))[i] = Lot(x) \/ (i \in DOMAIN b.lots /\ Append(b.lots, Lot(x))[i] = b.lots[i])
    BY <1>1, <2>1
  <2> QED BY <1>1, <1>2, <2>1, <2>2
<1>3. Grained(b.basis) /\ Grained(b.basis + a.amount)
  BY GrainedSum DEF GrainedBook
<1>4. CASE ~b.pooled
  <2>1. BuyInto(b, a).lots = Append(b.lots, Lot(a.amount)) /\ BuyInto(b, a).basis = b.basis
    BY <1>4 DEF BuyInto, AddLot, Books
  <2> QED BY <1>1, <1>2, <1>3, <2>1 DEF GrainedBook
<1>5. CASE b.pooled /\ method = "average"
  <2>1. BuyInto(b, a).lots = b.lots /\ BuyInto(b, a).basis = b.basis + a.amount
    BY <1>5 DEF BuyInto, AddToPool, Books
  <2> QED BY <1>1, <1>3, <2>1 DEF GrainedBook
<1>6. CASE b.pooled /\ method # "average"
  <2>1. BuyInto(b, a).lots = Append(b.lots, Lot(0)) /\ BuyInto(b, a).basis = b.basis + a.amount
    BY <1>6 DEF BuyInto, AddToPool, AddLot, Books
  <2> QED BY <1>2, <1>3, <2>1, GrainedZero DEF GrainedBook
<1> QED BY <1>4, <1>5, <1>6

LEMMA GrainedPooled ==
  ASSUME NEW b \in Books, GrainedBook(b)
  PROVE  GrainedBook(Pooled(b))
<1>1. CASE b.pooled
  BY <1>1 DEF Pooled
<1>2. CASE ~b.pooled
  <2> DEFINE lots == [i \in DOMAIN b.lots |-> [b.lots[i] EXCEPT !.basis = 0]]
  <2>1. Pooled(b).lots = lots /\ Pooled(b).basis = BookBasis(b)
    BY <1>2 DEF Pooled
  <2>2. \A i \in DOMAIN lots : lots[i].basis = 0
    <3>1. \A i \in DOMAIN b.lots : b.lots[i] \in Lots
      BY DEF Books
    <3> QED BY <3>1 DEF Lots
  <2> HIDE DEF lots
  <2> QED BY <2>1, <2>2, GrainedBasis, GrainedZero DEF GrainedBook
<1> QED BY <1>1, <1>2

\* What a disposal from lots or a pool leaves.
LEMMA GrainedLots ==
  ASSUME IInv, GrainedBook(Book), LotDone
  PROVE  GrainedBook([Book EXCEPT !.lots = LotsAfter])
<1>1. /\ TypeOK /\ Working /\ work.on /\ work.left > 0 /\ work.queue # <<>> /\ pos < Len(Inputs)
  BY DEF IInv, LotDone, WorkInv
<1> DEFINE i == Head(work.queue)
<1>2. /\ i \in OpenLots(Book) /\ Next1 \in Lots /\ Next1.qty > 0 /\ DOMAIN LotsAfter = DOMAIN Book.lots
      /\ \A j \in DOMAIN Book.lots \ {i} : LotsAfter[j] = Book.lots[j]
      /\ LotsAfter[i].basis = Next1.basis - FromLot
      /\ [Book EXCEPT !.lots = LotsAfter].lots = LotsAfter
  BY <1>1, LotsAfterType
<1>3. Next1.qty \in Nat \ {0} /\ Taken(Next1) \in Nat /\ Taken(Next1) <= Next1.qty
  BY <1>1, <1>2, TakenIs DEF Lots
<1>4. Grained(Next1.basis)
  BY <1>2 DEF GrainedBook, OpenLots, Next1
<1>5. Grained(FromLot) /\ FromLot <= Next1.basis
  BY <1>3, <1>4, AllocateGrained DEF FromLot
<1>6. Grained(Next1.basis - FromLot)
  BY <1>4, <1>5, GrainedSum
<1>7. [Book EXCEPT !.lots = LotsAfter].basis = Book.basis
  <2>1. Book \in Books
    BY <1>1, InputType
  <2> QED BY <2>1 DEF Books
<1> HIDE DEF i
<1>8. \A j \in DOMAIN LotsAfter : Grained(LotsAfter[j].basis)
  BY <1>2, <1>6 DEF GrainedBook
<1> QED BY <1>2, <1>7, <1>8 DEF GrainedBook

LEMMA GrainedPool ==
  ASSUME TypeOK, pos < Len(Inputs), GrainedBook(Book), NEW b, b = Pooled(Book), ~(b.qty < Input.qty),
         method \in {"hybrid", "average"}
  PROVE  GrainedBook(PoolLeft(b))
<1>1. Book \in Books /\ Input.qty \in Nat \ {0}
  BY InputType
<1>2. /\ b \in Books /\ GrainedBook(b)
      /\ b.qty = Input.qty => PoolLeft(b) = NewBook
      /\ b.qty # Input.qty => /\ PoolLeft(b).basis = b.basis - FromPool(b)
                              /\ PoolLeft(b).lots = OldestConsumed(b.lots, Input.qty)
  BY <1>1, PoolLeftType, GrainedPooled
<1>3. CASE b.qty = Input.qty
  BY <1>2, <1>3, GrainedNew
<1>4. CASE b.qty # Input.qty
  <2>1. b.qty \in Nat \ {0} /\ Input.qty \in Nat /\ Input.qty <= b.qty /\ b.lots \in Seq(Lots)
    BY <1>1, <1>2 DEF Books
  <2>2. Grained(FromPool(b)) /\ FromPool(b) <= b.basis
    BY <1>2, <2>1, AllocateGrained DEF FromPool, GrainedBook
  <2>3. Grained(b.basis - FromPool(b))
    BY <1>2, <2>2, GrainedSum DEF GrainedBook
  <2>4. \A i \in DOMAIN OldestConsumed(b.lots, Input.qty) :
          OldestConsumed(b.lots, Input.qty)[i].basis = b.lots[i].basis
    <3>1. \A i \in DOMAIN b.lots : b.lots[i] \in Lots
      BY <2>1
    <3>2. \A l \in Lots : \A x : [l EXCEPT !.qty = @ - x].basis = l.basis
      BY DEF Lots
    <3> QED BY <3>1, <3>2 DEF OldestConsumed
  <2>5. DOMAIN OldestConsumed(b.lots, Input.qty) = DOMAIN b.lots
    BY <2>1, OldestType
  <2>6. \A i \in DOMAIN OldestConsumed(b.lots, Input.qty) : Grained(OldestConsumed(b.lots, Input.qty)[i].basis)
    BY <1>2, <2>4, <2>5 DEF GrainedBook
  <2> QED BY <1>2, <1>4, <2>3, <2>6 DEF GrainedBook
<1> QED BY <1>3, <1>4

LEMMA InputIs ==
  ASSUME TypeOK, pos < Len(Inputs)
  PROVE  pos + 1 \in DOMAIN history /\ Input = history[pos + 1]
<1>1. /\ Inputs = Through(year) /\ year \in Int /\ history \in Seq(Activities) /\ Len(Inputs) \in Nat
      /\ Len(Inputs) <= Len(history) /\ pos \in Nat /\ DOMAIN Inputs = 1..Len(Inputs)
  BY InputsType DEF Inputs, TypeOK, Years
<1>2. \A i \in DOMAIN Inputs : Inputs[i] = history[i]
  BY <1>1, ThroughType
<1>3. pos + 1 \in DOMAIN Inputs
  BY <1>1
<1> QED BY <1>1, <1>2, <1>3 DEF Input

\* With such costs no step finds a basis below zero.
LEMMA SoundSteps ==
  ASSUME GrainedCosts, IInv, HistInv, BasisInv, Replaying, pos < Len(Inputs)
  PROVE  ~Unsound
<1>1. TypeOK /\ PoolInv /\ (work.on => Working)
  BY DEF IInv, WorkInv
<1>2. /\ Book \in Books /\ Key(Inputs, Input) \in Keys /\ Input \in Activities /\ books \in [Keys -> Books]
      /\ Book = books[Key(Inputs, Input)]
  BY <1>1, InputType DEF TypeOK, Book
<1>3. GrainedBook(Book)
  BY <1>2 DEF BasisInv
<1>4. ASSUME NEW c \in Books, GrainedBook(c) PROVE ~(OpenBasis(Put(c)) < 0)
  <2>1. Put(c) \in [Keys -> Books] /\ \A k \in Keys : GrainedBook(Put(c)[k])
    BY <1>2, <1>4 DEF Put, BasisInv
  <2>2. OpenBasis(Put(c)) >= 0 /\ OpenBasis(Put(c)) \in Int
    BY <2>1, GrainedOpen, OpenType
  <2> QED BY <2>2
<1>5. ~(OpenBasis(books) < 0)
  <2>1. OpenBasis(books) >= 0 /\ OpenBasis(books) \in Int
    BY <1>2, GrainedOpen, OpenType DEF BasisInv
  <2> QED BY <2>1
<1>6. ~(BookBasis(Book) < 0)
  BY <1>2, <1>3, GrainedBasis DEF Grained
<1>7. \A i \in DOMAIN Book.lots : ~(Book.lots[i].basis < 0)
  BY <1>3 DEF GrainedBook, Grained
<1>8. IsBuy(Input) => GrainedBook(BuyInto(Book, Input))
  <2> SUFFICES ASSUME IsBuy(Input) PROVE GrainedBook(BuyInto(Book, Input))
    OBVIOUS
  <2>2. pos + 1 \in DOMAIN history /\ Input = history[pos + 1]
    BY <1>1, InputIs
  <2>3. Input.amount \in Costs
    BY <2>2 DEF HistInv, AtCost
  <2> QED BY <1>2, <1>3, <2>3, CostGrained, GrainedBought
<1>9. GrainedBook(LotsLeft)
  BY <1>3, GrainedNew DEF LotsLeft, Emptied
<1>10. ~(Pooled(Book).qty < Input.qty) /\ method \in {"hybrid", "average"} => GrainedBook(PoolLeft(Pooled(Book)))
  BY <1>1, <1>3, GrainedPool
<1> QED BY <1>4, <1>5, <1>6, <1>7, <1>8, <1>9, <1>10 DEF Unsound

LEMMA BasisStarts == Init => BasisInv
BY GrainedNew DEF Init, BasisInv

LEMMA BasisSteps ==
  ASSUME GrainedCosts, IInv, HistInv, BasisInv, [Next]_vars
  PROVE  BasisInv'
<1>0. TypeOK /\ PoolInv /\ books \in [Keys -> Books]
  BY DEF IInv, TypeOK
<1>1. ASSUME NEW c, GrainedBook(c), books' = Put(c) PROVE BasisInv'
  <2>1. \A k \in Keys : books'[k] = c \/ books'[k] = books[k]
    BY <1>0, <1>1 DEF Put
  <2>2. \A k \in Keys : GrainedBook(books'[k])
    BY <1>1, <2>1 DEF BasisInv
  <2> QED BY <2>2 DEF BasisInv, GrainedBook
<1>2. ASSUME books' = [k \in Keys |-> NewBook]' PROVE BasisInv'
  <2>1. NewBook'.basis = 0 /\ NewBook'.lots = <<>>
    BY DEF NewBook
  <2>2. \A k \in Keys : books'[k] = NewBook'
    BY <1>2
  <2>3. \A k \in Keys : GrainedBook(books[k])'
    BY <2>1, <2>2, GrainedZero DEF GrainedBook
  <2> QED BY <2>3 DEF BasisInv
<1>3. books' = books => BasisInv'
  BY DEF BasisInv, GrainedBook
<1>4. ASSUME method' = method, books' = [k \in Keys |-> NewBook] PROVE BasisInv'
  BY <1>2, <1>4 DEF NewBook
<1>5. ASSUME Replaying, pos < Len(Inputs) PROVE GrainedBook(Book)
  BY <1>0, <1>5, InputType DEF BasisInv, Book
<1>6. CASE BuyDone
  <2>1. /\ TypeOK /\ Replaying /\ pos < Len(Inputs) /\ IsBuy(Input) /\ books' = Put(BuyInto(Book, Input))
    BY <1>0, <1>6 DEF BuyDone, Done
  <2>2. Grained(Input.amount)
    <3>1. pos + 1 \in DOMAIN history /\ Input = history[pos + 1]
      BY <2>1, InputIs
    <3> QED BY <2>1, <3>1, CostGrained DEF HistInv, AtCost
  <2>3. GrainedBook(BuyInto(Book, Input))
    BY <1>5, <2>1, <2>2, InputType, GrainedBought
  <2> QED BY <1>1, <2>1, <2>3
<1>7. CASE LotsDone
  <2>1. Replaying /\ pos < Len(Inputs) /\ books' = Put(LotsLeft)
    BY <1>7 DEF LotsDone, Done
  <2>2. GrainedBook(LotsLeft)
    BY <1>5, <2>1, GrainedNew DEF LotsLeft, Emptied
  <2> QED BY <1>1, <2>1, <2>2
<1>8. CASE LotDone
  <2>1. Replaying /\ pos < Len(Inputs) /\ books' = Put([Book EXCEPT !.lots = LotsAfter])
    BY <1>8 DEF LotDone
  <2>2. GrainedBook([Book EXCEPT !.lots = LotsAfter])
    BY <1>5, <1>8, <2>1, GrainedLots
  <2> QED BY <1>1, <2>1, <2>2
<1>9. CASE PoolDone
  <2>1. /\ Replaying /\ pos < Len(Inputs) /\ books' = Put(PoolLeft(Pooled(Book)))
        /\ ~(Pooled(Book).qty < Input.qty) /\ method \in {"hybrid", "average"}
    BY <1>9 DEF PoolDone, Done
  <2>2. GrainedBook(PoolLeft(Pooled(Book)))
    BY <1>0, <1>5, <2>1, GrainedPool
  <2> QED BY <1>1, <2>1, <2>2
<1>10. CASE LotsBegun
  BY <1>3, <1>10 DEF LotsBegun
<1>11. CASE Failed
  BY <1>4, <1>11 DEF Failed, Abort
<1>12. CASE Finish
  BY <1>4, <1>12 DEF Finish
<1>13. ASSUME NEW y \in Years, Begin(y) PROVE BasisInv'
  BY <1>4, <1>13 DEF Begin
<1>14. ASSUME NEW a \in Activities, Record(a) PROVE BasisInv'
  BY <1>3, <1>14 DEF Record
<1>15. CASE UNCHANGED vars
  BY <1>3, <1>15 DEF vars
<1> QED BY <1>6, <1>7, <1>8, <1>9, <1>10, <1>11, <1>12, <1>13, <1>14, <1>15, Steps

-----------------------------------------------------------------------------
(* Quantities in every step.                                               *)

LEMMA QtySteps ==
  ASSUME IInv, QtyInv, [Next]_vars
  PROVE  QtyInv'
<1>1. CASE BuyDone
  BY <1>1, BuyQty
<1>2. CASE LotsDone
  BY <1>2, LotsQty
<1>3. CASE PoolDone
  BY <1>3, PoolQty
<1>4. CASE LotsBegun
  BY <1>4, BegunQty
<1>5. CASE LotDone
  BY <1>5, LotQty
<1>6. CASE Failed \/ Finish
  <2>1. ~Replaying'
    BY <1>6 DEF Failed, Abort, Finish, Replaying
  <2> QED BY <2>1 DEF QtyInv
<1>7. ASSUME NEW y \in Years, Begin(y) PROVE QtyInv'
  BY <1>7, BeginQty
<1>8. ASSUME NEW a \in Activities, Record(a) PROVE QtyInv'
  <2>1. ~Replaying'
    BY <1>8 DEF Record, Replaying
  <2> QED BY <2>1 DEF QtyInv
<1>9. CASE UNCHANGED vars
  <2>1. /\ history' = history /\ year' = year /\ method' = method /\ pos' = pos /\ work' = work
        /\ books' = books
    BY <1>9 DEF vars
  <2> QED BY <2>1, QtyThen DEF QtyInv, Pending, Input
<1> QED BY <1>1, <1>2, <1>3, <1>4, <1>5, <1>6, <1>7, <1>8, <1>9, Steps

\* A disposal that does not find enough is one of more than its scope held.
LEMMA OversoldIs ==
  ASSUME IInv, QtyInv, Replaying, pos < Len(Inputs), ~IsBuy(Input), Oversold
  PROVE  HeldIn(Inputs, pos + 1, Key(Inputs, Input)) < 0
<1> DEFINE K == Key(Inputs, Input)
<1>1. /\ TypeOK /\ (work.on => Working) /\ work.left \in Nat
  BY DEF IInv, WorkInv, TypeOK, Works
<1>2. /\ Inputs \in Seq(Activities) /\ pos \in 0..(Len(Inputs) - 1) /\ Book \in Books /\ K \in Keys
      /\ Input.qty \in Nat \ {0} /\ Input = Inputs[pos + 1] /\ Book = books[K]
  BY <1>1, InputsType, InputType DEF TypeOK, Input, Book
<1>3. /\ HeldIn(Inputs, pos, K) \in Int
      /\ HeldIn(Inputs, pos + 1, K) = HeldIn(Inputs, pos, K) + Signed(Input)
  BY <1>2, HeldMore
<1>4. Signed(Input) = -Input.qty
  BY DEF Signed, IsBuy
<1>5. BookQty(Book) = HeldIn(Inputs, pos, K) - Pending(K)
  BY <1>2 DEF QtyInv
<1>6. CASE work.on /\ work.left > 0 /\ work.queue = <<>>
  <2>1. OpenLots(Book) = {} /\ ~Book.pooled
    BY <1>1, <1>6 DEF Working, Queued
  <2>2. BookQty(Book) = 0
    <3> DEFINE f == QtyOf(Book.lots)
               D == DOMAIN Book.lots
    <3>1. Book.lots \in Seq(Lots)
      BY <1>2 DEF Books
    <3>2. IsFiniteSet(D) /\ DOMAIN f = D /\ \A i \in D : f[i] \in Nat /\ ~(f[i] > 0)
      BY <2>1, <3>1, LotsFinite, LotValues DEF OpenLots, QtyOf
    <3>3. BookQty(Book) = SumFunctionOnSet(f, D)
      BY <2>1, <3>2 DEF BookQty, SumFunction
    <3> HIDE DEF f, D
    <3>4. {} \subseteq D /\ (\A y \in D : f[y] \in Int) /\ \A y \in D \ {} : f[y] = 0
      BY <3>2
    <3>5. SumFunctionOnSet(f, D) = SumFunctionOnSet(f, {})
      BY <3>2, <3>4, SumZeros
    <3> QED BY <3>3, <3>5, SumEmpty
  <2>3. Pending(K) = Input.qty - work.left
    BY <1>6 DEF Pending
  <2> HIDE DEF K
  <2> QED BY <1>1, <1>2, <1>3, <1>4, <1>5, <1>6, <2>2, <2>3 DEF K
<1>7. CASE ~work.on /\ Pooled(Book).qty < Input.qty
  <2>1. Pending(K) = 0 /\ Pooled(Book).qty = BookQty(Book)
    BY <1>2, <1>7, PooledHolds DEF Pending
  <2> HIDE DEF K
  <2> QED BY <1>2, <1>3, <1>4, <1>5, <1>7, <2>1 DEF K
<1> QED BY <1>6, <1>7 DEF Oversold

\* More than a scope held, where the asset holds enough, is an account or wallet of its own.
LEMMA ScopeIs ==
  ASSUME TypeOK, HistInv, Replaying, pos < Len(Inputs),
         HeldIn(Inputs, pos + 1, Key(Inputs, Input)) < 0
  PROVE  ScopeOversold(Through(year))
<1> DEFINE h == Inputs
           t == pos + 1
           K == Key(h, Input)
<1>1. /\ h = Through(year) /\ year \in Int /\ h \in Seq(Activities) /\ Len(h) \in Nat
      /\ pos \in Nat /\ t \in 1..Len(h) /\ Input = h[t] /\ Input \in Activities
      /\ history \in Seq(Activities)
  BY InputsType, InputType DEF Inputs, TypeOK, Years, Input
<1>2. /\ Len(h) \in 0..Len(history) /\ Len(history) \in Nat
      /\ \A i \in DOMAIN h : h[i] = history[i]
  BY <1>1, ThroughIs
<1>3. Net(h, t) >= 0
  <2>1. t \in Nat /\ t <= Len(h) /\ t <= Len(history) /\ t \in 0..Len(history)
    BY <1>1, <1>2
  <2>2. \A i \in 1..t : h[i] = history[i]
    BY <1>1, <1>2
  <2> HIDE DEF h, t
  <2>3. Net(h, t) = Net(history, t)
    BY <1>1, <2>1, <2>2, NetSame
  <2> QED BY <2>1, <2>3 DEF HistInv, Covered
<1>4. \A i \in 1..Len(h) : h[i] \in Activities /\ h[i].scope \in Keys
  <2>1. \A i \in 1..Len(h) : h[i] \in Activities
    BY <1>1
  <2> QED BY <2>1, ActivityType
<1>5. HeldIn(h, t, K) \in Int /\ Net(h, t) \in Int
  <2>1. t \in 0..Len(h)
    BY <1>1
  <2> QED BY <1>1, <2>1, HeldType
<1>6. method = "hybrid" /\ ~Broadened(h)
  <2> SUFFICES ASSUME ~(method = "hybrid" /\ ~Broadened(h)) PROVE FALSE
    OBVIOUS
  <2>1. \A a : Key(h, a) = Asset
    BY DEF Key
  <2>2. K = Asset /\ \A i \in 1..t : Key(h, h[i]) = Asset
    BY <2>1
  <2> HIDE DEF h, t, K
  <2>3. HeldIn(h, t, Asset) = Net(h, t)
    BY <2>2, AssetHeld
  <2> QED BY <1>3, <1>5, <2>2, <2>3 DEF h, t, K
<1>7. \A i \in DOMAIN h : h[i].scope \in Scopes
  BY <1>1, <1>4, <1>6 DEF Broadened, Keys
<1>8. K \in Scopes /\ \A a : Key(h, a) = a.scope
  BY <1>1, <1>6, <1>7 DEF Key
<1>9. Held(SubSeq(h, 1, t), {K}) = HeldIn(h, t, K)
  <2> DEFINE s == SubSeq(h, 1, t)
             f == [i \in DOMAIN s |-> Signed(s[i])]
             g == [i \in DOMAIN h |-> Signed(h[i])]
             S == {i \in 1..t : h[i].scope = K}
  <2>1. Len(s) = t /\ s \in Seq(Activities) /\ \A i \in 1..t : s[i] = h[i]
    BY <1>1, SubSeqProperties
  <2>2. DOMAIN s = 1..t
    BY <2>1
  <2> HIDE DEF s
  <2>3. {i \in DOMAIN s : s[i].scope \in {K}} = S
    BY <2>1, <2>2
  <2>4. {i \in 1..t : Key(h, h[i]) = K} = S
    BY <1>8
  <2>5. \A i \in S : f[i] = g[i]
    BY <1>1, <2>1, <2>2
  <2>6. IsFiniteSet(S)
    <3>1. 1 \in Int /\ t \in Int
      BY <1>1
    <3> HIDE DEF t
    <3>2. IsFiniteSet(1..t)
      BY <3>1, FS_Interval
    <3> QED BY <3>2, FS_Subset
  <2>7. Held(s, {K}) = SumFunctionOnSet(f, S)
    BY <2>3 DEF Held
  <2>8. HeldIn(h, t, K) = SumFunctionOnSet(g, S)
    BY <2>4 DEF HeldIn
  <2> HIDE DEF f, g, S
  <2> QED BY <2>5, <2>6, <2>7, <2>8, SumSame DEF s
<1>10. t \in DOMAIN h /\ Held(SubSeq(h, 1, t), {K}) < 0
  BY <1>1, <1>9
<1> HIDE DEF h, t, K
<1> QED BY <1>1, <1>6, <1>7, <1>8, <1>10 DEF ScopeOversold

-----------------------------------------------------------------------------
(* Why reports fail.                                                       *)

\* What reports said they say.
LEMMA ScopeOversoldThen ==
  ASSUME history' = history, method' = method, NEW y
  PROVE  ScopeOversold(Through(y))' <=> ScopeOversold(Through(y))
BY DEF ScopeOversold, Through, Held, Signed

LEMMA FailsSteps ==
  ASSUME GrainedCosts, IInv, HistInv, BasisInv, QtyInv, FailsOnlyOversold, [Next]_vars
  PROVE  FailsOnlyOversold'
<1>0. TypeOK
  BY DEF IInv
<1>1. ASSUME history' = history, method' = method, reports' = reports PROVE FailsOnlyOversold'
  BY <1>1, ScopeOversoldThen DEF FailsOnlyOversold
<1>2. CASE BuyDone \/ LotsDone \/ PoolDone
  BY <1>1, <1>2 DEF BuyDone, LotsDone, PoolDone, Done
<1>3. CASE LotsBegun \/ LotDone
  BY <1>1, <1>3 DEF LotsBegun, LotDone
<1>4. CASE Finish
  <2>1. /\ history' = history /\ method' = method
        /\ \A y \in Years : reports'[y].status = "failed" => reports[y].status = "failed"
    BY <1>0, <1>4 DEF Finish, TypeOK
  <2> QED BY <2>1, ScopeOversoldThen DEF FailsOnlyOversold
<1>5. CASE Failed
  <2>1. /\ Replaying /\ pos < Len(Inputs) /\ Abort /\ ~IsBuy(Input) /\ Oversold
    BY <1>5, SoundSteps DEF Failed
  <2>2. ScopeOversold(Through(year))
    BY <1>0, <2>1, OversoldIs, ScopeIs
  <2>3. /\ history' = history /\ method' = method
        /\ \A y \in Years : y # year => reports'[y] = reports[y]
    BY <1>0, <2>1 DEF Abort, TypeOK
  <2>4. \A y \in Years : reports'[y].status = "failed" => ScopeOversold(Through(y))
    BY <2>2, <2>3 DEF FailsOnlyOversold
  <2> QED BY <2>3, <2>4, ScopeOversoldThen DEF FailsOnlyOversold
<1>6. ASSUME NEW y \in Years, Begin(y) PROVE FailsOnlyOversold'
  BY <1>1, <1>6 DEF Begin
<1>7. ASSUME NEW a \in Activities, Record(a) PROVE FailsOnlyOversold'
  BY <1>7 DEF Record, FailsOnlyOversold, NoReport
<1>8. CASE UNCHANGED vars
  BY <1>1, <1>8 DEF vars
<1> QED BY <1>2, <1>3, <1>4, <1>5, <1>6, <1>7, <1>8, Steps

LEMMA QtyStarts == Init => QtyInv /\ FailsOnlyOversold
BY DEF Init, QtyInv, Replaying, FailsOnlyOversold, NoReport

\* The quantities of the books, for every cost.
LEMMA QtyAlways == Spec => [](IInv /\ HistInv /\ QtyInv)
<1>1. ASSUME IInv, QtyInv, [Next]_vars PROVE QtyInv'
  BY <1>1, QtySteps
<1>2. Init => QtyInv
  BY QtyStarts
<1> QED BY <1>1, <1>2, HistAlways, PTL DEF Spec

(* The edge cases of the gains report, for every method and history: where costs have no more
   decimal places than divisions are rounded to, no rounding ever drives a basis below zero, so
   that a report fails only if an account or wallet of its own disposes of more than it holds. *)
THEOREM NoReportFailsInVain == GrainedCosts => (Spec => []FailsOnlyOversold)
<1> SUFFICES ASSUME GrainedCosts PROVE Spec => []FailsOnlyOversold
  OBVIOUS
<1>1. ASSUME IInv, HistInv, QtyInv, BasisInv, FailsOnlyOversold, [Next]_vars
      PROVE  BasisInv' /\ FailsOnlyOversold'
  BY <1>1, BasisSteps, FailsSteps
<1>2. Init => BasisInv /\ FailsOnlyOversold
  BY BasisStarts, QtyStarts
<1> QED BY <1>1, <1>2, QtyAlways, PTL DEF Spec

-----------------------------------------------------------------------------
(* What the report counts.                                                 *)

\* The disposals among the first n activities that emptied their scope.
Zeros(h, n) == {i \in 1..n : ~IsBuy(h[i]) /\ HeldIn(h, i, Key(h, h[i])) = 0}

\* What the first n activities gained in year y.
Gain(h, audit, i) == IF h[i].kind = "sell" THEN h[i].amount - audit[i].allocated ELSE 0
Gains(h, audit, y, n) ==
  SumFunctionOnSet([i \in 1..n |-> Gain(h, audit, i)], {i \in 1..n : h[i].year = y})

AccInv == Replaying =>
  /\ acc.count = Cardinality(Zeros(Inputs, pos))
  /\ acc.inYear <=> \E i \in Zeros(Inputs, pos) : Inputs[i].year = year
  /\ acc.net = Gains(Inputs, acc.audit, year, pos)

LEMMA AccThen ==
  ASSUME history' = history, year' = year, method' = method
  PROVE  AccInv' <=>
           (Replaying =>
              /\ acc'.count = Cardinality(Zeros(Inputs, pos'))
              /\ acc'.inYear <=> \E i \in Zeros(Inputs, pos') : Inputs[i].year = year
              /\ acc'.net = Gains(Inputs, acc'.audit, year, pos'))
<1>1. Inputs' = Inputs /\ (Replaying' <=> Replaying)
  BY InputsSame
<1> QED BY <1>1 DEF AccInv, Zeros, Gains, Gain, HeldIn, Key, Broadened, Signed, IsBuy

LEMMA ZerosMore ==
  ASSUME NEW h, NEW n \in Nat
  PROVE  /\ IsFiniteSet(Zeros(h, n)) /\ Cardinality(Zeros(h, n)) \in Nat /\ Zeros(h, n) \subseteq 1..n
         /\ LET now == ~IsBuy(h[n + 1]) /\ HeldIn(h, n + 1, Key(h, h[n + 1])) = 0
            IN /\ Zeros(h, n + 1) = IF now THEN Zeros(h, n) \cup {n + 1} ELSE Zeros(h, n)
               /\ Cardinality(Zeros(h, n + 1)) = Cardinality(Zeros(h, n)) + IF now THEN 1 ELSE 0
<1> DEFINE now == ~IsBuy(h[n + 1]) /\ HeldIn(h, n + 1, Key(h, h[n + 1])) = 0
<1>1. IsFiniteSet(1..n) /\ IsFiniteSet(1..(n + 1))
  BY FS_Interval
<1>2. Zeros(h, n) \subseteq 1..n /\ IsFiniteSet(Zeros(h, n))
  BY <1>1, FS_Subset DEF Zeros
<1>3. Zeros(h, n + 1) = IF now THEN Zeros(h, n) \cup {n + 1} ELSE Zeros(h, n)
  <2> DEFINE z(i) == ~IsBuy(h[i]) /\ HeldIn(h, i, Key(h, h[i])) = 0
  <2>1. \A m : Zeros(h, m) = {i \in 1..m : z(i)}
    BY DEF Zeros
  <2>2. now <=> z(n + 1)
    OBVIOUS
  <2> HIDE DEF z, now
  <2>3. \A i : i \in 1..(n + 1) <=> i \in 1..n \/ i = n + 1
    OBVIOUS
  <2> QED BY <2>1, <2>2, <2>3
<1>4. n + 1 \notin Zeros(h, n) /\ Cardinality(Zeros(h, n)) \in Nat
  BY <1>2, FS_CardinalityType
<1>5. Cardinality(Zeros(h, n) \cup {n + 1}) = Cardinality(Zeros(h, n)) + 1
  BY <1>2, <1>4, FS_AddElement
<1> HIDE DEF now
<1>6. Cardinality(Zeros(h, n + 1)) = Cardinality(Zeros(h, n)) + IF now THEN 1 ELSE 0
  BY <1>3, <1>4, <1>5
<1> QED BY <1>2, <1>3, <1>4, <1>6 DEF now

LEMMA GainsMore ==
  ASSUME NEW h \in Seq(Activities), NEW n \in 0..(Len(h) - 1), NEW y,
         NEW audit \in Seq(AuditEntries), Len(audit) = n, NEW e \in AuditEntries
  PROVE  /\ Gains(h, audit, y, n) \in Int
         /\ Gains(h, Append(audit, e), y, n + 1)
              = Gains(h, audit, y, n)
                  + IF h[n + 1].kind = "sell" /\ h[n + 1].year = y THEN h[n + 1].amount - e.allocated ELSE 0
<1> DEFINE t == Append(audit, e)
           f == [i \in 1..n |-> Gain(h, audit, i)]
           g == [i \in 1..(n + 1) |-> Gain(h, t, i)]
           P == {i \in 1..(n + 1) : h[i].year = y}
           gain == IF h[n + 1].kind = "sell" THEN h[n + 1].amount - e.allocated ELSE 0
<1>1. /\ n \in Nat /\ t[n + 1] = e /\ \A i \in 1..n : t[i] = audit[i] /\ audit[i] \in AuditEntries
      /\ \A i \in 1..(n + 1) : h[i] \in Activities /\ t[i] \in AuditEntries
  OBVIOUS
<1>2. \A i \in 1..(n + 1) : g[i] \in Int
  <2>1. \A i \in 1..(n + 1) : h[i].amount \in Int /\ t[i].allocated \in Int
    BY <1>1, ActivityType DEF AuditEntries
  <2> HIDE DEF t
  <2> QED BY <2>1 DEF Gain
<1>3. \A i \in 1..n : f[i] = g[i]
  BY <1>1 DEF Gain
<1>4. g[n + 1] = gain
  BY <1>1 DEF Gain
<1>5. /\ {i \in 1..n : h[i].year = y} = P \cap (1..n)
      /\ {i \in 1..(n + 1) : h[i].year = y} = P \cap (1..(n + 1))
      /\ n + 1 \in P <=> h[n + 1].year = y
  OBVIOUS
<1>6. Gains(h, audit, y, n) = SumFunctionOnSet(f, P \cap (1..n))
  BY <1>5 DEF Gains
<1>7. Gains(h, t, y, n + 1) = SumFunctionOnSet(g, P \cap (1..(n + 1)))
  BY <1>5 DEF Gains
<1> HIDE DEF f, g, P, t, gain
<1>8. SumFunctionOnSet(f, P \cap (1..n)) = SumFunctionOnSet(g, P \cap (1..n))
  <2>1. IsFiniteSet(1..n)
    BY <1>1, FS_Interval
  <2>2. IsFiniteSet(P \cap (1..n)) /\ \A i \in P \cap (1..n) : f[i] = g[i]
    BY <1>3, <2>1, FS_Subset
  <2> QED BY <2>2, SumSame
<1>9. /\ SumFunctionOnSet(g, P \cap (1..n)) \in Int
      /\ SumFunctionOnSet(g, P \cap (1..(n + 1)))
           = SumFunctionOnSet(g, P \cap (1..n)) + IF n + 1 \in P THEN g[n + 1] ELSE 0
  BY <1>1, <1>2, SumNext
<1>10. (IF n + 1 \in P THEN g[n + 1] ELSE 0)
          = IF h[n + 1].kind = "sell" /\ h[n + 1].year = y THEN h[n + 1].amount - e.allocated ELSE 0
  BY <1>4, <1>5 DEF gain
<1> QED BY <1>6, <1>7, <1>8, <1>9, <1>10 DEF t

\* What an activity that is complete leaves in the report.
LEMMA AppliedIs ==
  ASSUME NEW before \in Replays, NEW bs, NEW allocated \in Int, NEW zero \in BOOLEAN, Input.amount \in Int
  PROVE  LET r == Applied(before, bs, allocated, zero)
         IN /\ r.captured = before.captured /\ r.openQty = before.openQty /\ r.openBasis = before.openBasis
            /\ r.net = before.net + YearlyNetDelta(allocated)
            /\ r.count = before.count + IF zero THEN 1 ELSE 0
            /\ r.inYear = (before.inYear \/ (zero /\ Input.year = year))
            /\ r.audit = Append(before.audit, AuditEntry(allocated, zero))
<1> DEFINE net == before.net + YearlyNetDelta(allocated)
           count == IF Liquidated(bs, zero) THEN before.count + 1 ELSE before.count
           inYear == before.inYear \/ (Liquidated(bs, zero) /\ Input.year = year)
           audit == Append(before.audit, AuditEntry(allocated, zero))
           r == Applied(before, bs, allocated, zero)
<1>1. r = [before EXCEPT !.net = net, !.count = count, !.inYear = inYear, !.audit = audit]
  BY DEF Applied
<1>2. count = before.count + IF zero THEN 1 ELSE 0
  BY DEF Liquidated, Replays
<1>3. inYear = (before.inYear \/ (zero /\ Input.year = year))
  BY DEF Liquidated
<1> HIDE DEF net, count, inYear, audit, r
<1>4. /\ r.captured = before.captured /\ r.openQty = before.openQty /\ r.openBasis = before.openBasis
      /\ r.net = net /\ r.count = count /\ r.inYear = inYear /\ r.audit = audit
  BY <1>1 DEF Replays
<1> QED BY <1>2, <1>3, <1>4 DEF net, audit, r

LEMMA CapturedIs ==
  ASSUME TypeOK
  PROVE  /\ Captured \in Replays /\ Captured.audit = acc.audit /\ Captured.net = acc.net
         /\ Captured.count = acc.count /\ Captured.inYear = acc.inYear
         /\ IF acc.captured \/ Input.year # year THEN Captured = acc
            ELSE /\ Captured.captured /\ Captured.openQty = OpenQty(books)
                 /\ Captured.openBasis = OpenBasis(books)
<1>1. acc \in Replays /\ OpenQty(books) \in Int /\ OpenBasis(books) \in Int
  BY OpenType DEF TypeOK
<1> QED BY <1>1 DEF Captured, Replays

LEMMA DoneCounts ==
  ASSUME IInv, AccInv, NEW before, before \in {acc, Captured}, NEW c, NEW allocated \in Int, NEW zero \in BOOLEAN,
         Done(before, c, allocated, zero),
         zero <=> ~IsBuy(Input) /\ HeldIn(Inputs, pos + 1, Key(Inputs, Input)) = 0
  PROVE  AccInv'
<1> DEFINE e == AuditEntry(allocated, zero)
<1>1. /\ Replaying /\ pos < Len(Inputs) /\ pos' = pos + 1 /\ acc' = Applied(before, Put(c), allocated, zero)
      /\ history' = history /\ method' = method /\ year' = year /\ TypeOK
  BY DEF Done, IInv
<1>2. /\ Inputs \in Seq(Activities) /\ pos \in 0..(Len(Inputs) - 1) /\ pos \in Nat
      /\ Input = Inputs[pos + 1] /\ Input.amount \in Int /\ acc \in Replays
      /\ acc.audit \in Seq(AuditEntries) /\ Len(acc.audit) = pos
  <2>1. Inputs \in Seq(Activities) /\ pos \in 0..(Len(Inputs) - 1) /\ pos \in Nat
    BY <1>1, InputsType DEF TypeOK
  <2>2. Input = Inputs[pos + 1] /\ Input.amount \in Int
    BY <1>1, InputType DEF Input
  <2>3. acc \in Replays /\ Len(acc.audit) = pos
    BY <1>1 DEF TypeOK
  <2>4. acc.audit \in Seq(AuditEntries)
    BY <2>3 DEF Replays
  <2> QED BY <2>1, <2>2, <2>3, <2>4
<1>3. /\ before \in Replays /\ before.audit = acc.audit /\ before.net = acc.net
      /\ before.count = acc.count /\ before.inYear = acc.inYear
  BY <1>1, <1>2, CapturedIs
<1>4. /\ acc'.net = acc.net + YearlyNetDelta(allocated)
      /\ acc'.count = acc.count + IF zero THEN 1 ELSE 0
      /\ acc'.inYear = (acc.inYear \/ (zero /\ Input.year = year))
      /\ acc'.audit = Append(acc.audit, e)
  BY <1>1, <1>2, <1>3, AppliedIs
<1>5. e \in AuditEntries /\ e.allocated = allocated
  BY DEF AuditEntry, AuditEntries
<1>6. /\ acc.count = Cardinality(Zeros(Inputs, pos))
      /\ acc.inYear <=> \E i \in Zeros(Inputs, pos) : Inputs[i].year = year
      /\ acc.net = Gains(Inputs, acc.audit, year, pos)
  BY <1>1 DEF AccInv
<1> HIDE DEF e
<1>7. acc'.net = Gains(Inputs, acc'.audit, year, pos')
  <2>1. Gains(Inputs, Append(acc.audit, e), year, pos + 1)
          = Gains(Inputs, acc.audit, year, pos)
              + IF Inputs[pos + 1].kind = "sell" /\ Inputs[pos + 1].year = year
                THEN Inputs[pos + 1].amount - e.allocated ELSE 0
    BY <1>2, <1>5, GainsMore
  <2> QED BY <1>1, <1>2, <1>4, <1>5, <1>6, <2>1 DEF YearlyNetDelta
<1>8. /\ Zeros(Inputs, pos + 1) = IF zero THEN Zeros(Inputs, pos) \cup {pos + 1} ELSE Zeros(Inputs, pos)
      /\ Cardinality(Zeros(Inputs, pos + 1)) = Cardinality(Zeros(Inputs, pos)) + IF zero THEN 1 ELSE 0
  BY <1>2, ZerosMore
<1>9. acc'.count = Cardinality(Zeros(Inputs, pos'))
  BY <1>1, <1>4, <1>6, <1>8
<1>10. acc'.inYear <=> \E i \in Zeros(Inputs, pos') : Inputs[i].year = year
  <2>1. CASE zero
    BY <1>1, <1>2, <1>4, <1>6, <1>8, <2>1
  <2>2. CASE ~zero
    BY <1>1, <1>2, <1>4, <1>6, <1>8, <2>2
  <2> QED BY <2>1, <2>2
<1> QED BY <1>1, <1>7, <1>9, <1>10, AccThen

LEMMA AccStarts == Init => AccInv
BY DEF Init, AccInv, Replaying

LEMMA AccSteps ==
  ASSUME IInv, QtyInv, AccInv, [Next]_vars
  PROVE  AccInv'
<1>0. TypeOK /\ PoolInv
  BY DEF IInv
<1>1. CASE BuyDone
  <2>1. Done(Captured, BuyInto(Book, Input), 0, FALSE) /\ IsBuy(Input)
    BY <1>1 DEF BuyDone
  <2>2. 0 \in Int /\ FALSE \in BOOLEAN
    OBVIOUS
  <2> QED BY <2>1, <2>2, DoneCounts
<1>2. CASE LotsDone
  <2>1. Done(acc, LotsLeft, work.allocated, BookQty(Book) = 0) /\ ~IsBuy(Input) /\ work.allocated \in Int
    BY <1>0, <1>2 DEF LotsDone, TypeOK, Works
  <2>2. BookQty(Book) = 0 <=> HeldIn(Inputs, pos + 1, Key(Inputs, Input)) = 0
    BY <1>2, LotsQty
  <2>3. PICK zero \in BOOLEAN : zero = (BookQty(Book) = 0)
    OBVIOUS
  <2> QED BY <2>1, <2>2, <2>3, DoneCounts
<1>3. CASE PoolDone
  <2>0. PICK b, zero, portion : b = Pooled(Book) /\ zero = (b.qty = Input.qty) /\ portion = FromPool(b)
    OBVIOUS
  <2>1. /\ Done(Captured, PoolLeft(b), portion, zero) /\ ~IsBuy(Input) /\ pos < Len(Inputs)
        /\ ~(b.qty < Input.qty) /\ method \in {"hybrid", "average"}
    BY <1>3, <2>0 DEF PoolDone, Done
  <2>2. zero <=> HeldIn(Inputs, pos + 1, Key(Inputs, Input)) = 0
    BY <1>3, <2>0, PoolQty
  <2>3. portion \in Int
    <3>1. b \in Books /\ Input.qty \in Nat \ {0}
      BY <1>0, <2>0, <2>1, PoolLeftType, InputType
    <3>2. b.qty \in Nat \ {0} /\ b.basis \in Int /\ Input.qty \in Nat
      BY <2>1, <3>1 DEF Books
    <3> QED BY <2>0, <3>2, AllocateType DEF FromPool
  <2>4. zero \in BOOLEAN
    BY <2>0
  <2> QED BY <2>1, <2>2, <2>3, <2>4, DoneCounts
<1>4. CASE LotsBegun
  <2>1. /\ acc'.audit = acc.audit /\ acc'.net = acc.net /\ acc'.count = acc.count /\ acc'.inYear = acc.inYear
        /\ history' = history /\ method' = method /\ year' = year /\ pos' = pos
    BY <1>0, <1>4, CapturedIs DEF LotsBegun
  <2> QED BY <2>1, AccThen DEF AccInv
<1>5. CASE LotDone
  <2>1. acc' = acc /\ history' = history /\ method' = method /\ year' = year /\ pos' = pos
    BY <1>5 DEF LotDone
  <2> QED BY <2>1, AccThen DEF AccInv
<1>6. CASE Failed \/ Finish
  <2>1. ~Replaying'
    BY <1>6 DEF Failed, Abort, Finish, Replaying
  <2> QED BY <2>1 DEF AccInv
<1>7. ASSUME NEW y \in Years, Begin(y) PROVE AccInv'
  <2>1. pos' = 0 /\ acc' = NewReplay
    BY <1>7 DEF Begin
  <2>2. Zeros(Inputs, pos)' = {} /\ Cardinality({}) = 0
    BY <2>1, FS_EmptySet DEF Zeros
  <2>3. {i \in 1..pos : Inputs[i].year = year}' = {}
    BY <2>1
  <2>4. Gains(Inputs, acc.audit, year, pos)' = 0
    BY <2>3, SumEmpty DEF Gains
  <2>5. acc'.count = 0 /\ acc'.inYear = FALSE /\ acc'.net = 0
    BY <2>1 DEF NewReplay
  <2> QED BY <2>2, <2>4, <2>5 DEF AccInv
<1>8. ASSUME NEW a \in Activities, Record(a) PROVE AccInv'
  <2>1. ~Replaying'
    BY <1>8 DEF Record, Replaying
  <2> QED BY <2>1 DEF AccInv
<1>9. CASE UNCHANGED vars
  <2>1. acc' = acc /\ history' = history /\ method' = method /\ year' = year /\ pos' = pos
    BY <1>9 DEF vars
  <2> QED BY <2>1, AccThen DEF AccInv
<1> QED BY <1>1, <1>2, <1>3, <1>4, <1>5, <1>6, <1>7, <1>8, <1>9, Steps

-----------------------------------------------------------------------------
(* Which sections show the asset.                                          *)

\* A year without a sale gains nothing.
LEMMA NoGains ==
  ASSUME NEW h, NEW audit, NEW y, NEW n \in Nat,
         \A i \in 1..n : h[i].kind = "sell" => h[i].year # y
  PROVE  Gains(h, audit, y, n) = 0
<1> DEFINE f == [i \in 1..n |-> Gain(h, audit, i)]
           S == {i \in 1..n : h[i].year = y}
<1>1. IsFiniteSet(S)
  <2>1. IsFiniteSet(1..n)
    BY FS_Interval
  <2> QED BY <2>1, FS_Subset
<1>2. \A i \in S : f[i] = 0
  BY DEF Gain
<1>3. Gains(h, audit, y, n) = SumFunctionOnSet(f, S)
  BY DEF Gains
<1> HIDE DEF f, S
<1>4. {} \subseteq S /\ (\A i \in S : f[i] \in Int) /\ \A i \in S \ {} : f[i] = 0
  BY <1>2
<1>5. SumFunctionOnSet(f, S) = SumFunctionOnSet(f, {})
  BY <1>1, <1>4, SumZeros
<1> QED BY <1>3, <1>5, SumEmpty

\* Books that hold nothing together hold nothing each.
LEMMA NothingOpen ==
  ASSUME NEW bs \in [Keys -> Books], OpenQty(bs) = 0, NEW k \in Keys
  PROVE  BookQty(bs[k]) = 0
<1> DEFINE f == [j \in Keys |-> BookQty(bs[j])]
<1>1. \A j \in Keys : f[j] \in Nat
  BY BookType
<1>2. SumFunctionOnSet(f, Keys) = 0 /\ f[k] = BookQty(bs[k])
  BY DEF OpenQty, SumFunction
<1> HIDE DEF f
<1>3. f[k] <= SumFunctionOnSet(f, Keys)
  BY <1>1, KeysFinite, SumBounds
<1>4. f[k] \in Nat
  BY <1>1
<1> QED BY <1>2, <1>3, <1>4

\* The sale of a year after which nothing is held has a disposal of that year that empties its scope.
LEMMA LastEmpties ==
  ASSUME TypeOK, HistInv, NEW h, NEW y \in Int, h = Through(y),
         \A n \in 0..Len(h) : \A k \in Keys : HeldIn(h, n, k) >= 0,
         \A k \in Keys : HeldIn(h, Len(h), k) = 0,
         NEW p \in DOMAIN h, ~IsBuy(h[p]), h[p].year = y
  PROVE  \E i \in Zeros(h, Len(h)) : h[i].year = y
<1> DEFINE k == Key(h, h[p])
           N == Len(h)
           Z == {m \in p..N : HeldIn(h, m, k) = 0}
<1>1. /\ h \in Seq(Activities) /\ N \in Nat /\ DOMAIN h = 1..N /\ p \in 1..N /\ p \in Nat
      /\ history \in Seq(Activities)
      /\ N <= Len(history) /\ \A i \in 1..N : h[i] = history[i] /\ h[i].year <= y
  <2>1. /\ h \in Seq(Activities) /\ N \in 0..Len(history) /\ Len(history) \in Nat
        /\ \A i \in DOMAIN h : h[i] = history[i] /\ history[i].year <= y
    BY ThroughIs
  <2>2. N \in Nat /\ DOMAIN h = 1..N /\ N <= Len(history) /\ history \in Seq(Activities)
    BY <2>1 DEF TypeOK
  <2>3. p \in 1..N /\ p \in Nat
    BY <2>2
  <2> HIDE DEF N
  <2> QED BY <2>1, <2>2, <2>3
<1>2. \A i \in 1..N : h[i] \in Activities /\ h[i].year \in Int
  <2>1. \A i \in 1..N : h[i] \in Activities
    BY <1>1
  <2> QED BY <2>1 DEF Activities, Years
<1>3. k \in Keys
  BY <1>1, <1>2, KeyType
<1> HIDE DEF k, N
<1>4. N \in Z
  BY <1>1, <1>3 DEF N
<1>5. PICK m \in Z : \A i \in Z : m <= i
  <2>1. Z \in SUBSET Nat /\ Z # {}
    BY <1>1, <1>4
  <2> HIDE DEF Z
  <2> QED BY <2>1, LeastNumber
<1>6. m \in 1..N /\ m >= p /\ HeldIn(h, m, k) = 0 /\ m - 1 \in 0..(Len(h) - 1) /\ (m - 1) + 1 = m
  BY <1>1 DEF N
<1>7. ~IsBuy(h[m]) /\ Key(h, h[m]) = k
  <2>1. CASE m = p
    BY <2>1 DEF k
  <2>2. CASE m # p
    <3>1. m - 1 \in p..N /\ m - 1 \notin Z
      BY <1>1, <1>5, <1>6, <2>2
    <3>2. HeldIn(h, m - 1, k) # 0
      BY <3>1
    <3>3. /\ HeldIn(h, m - 1, k) \in Int
          /\ HeldIn(h, m, k) = HeldIn(h, m - 1, k) + IF Key(h, h[m]) = k THEN Signed(h[m]) ELSE 0
      <4> DEFINE l == m - 1
      <4>1. l \in 0..(Len(h) - 1) /\ l + 1 = m
        BY <1>6
      <4> HIDE DEF l
      <4>2. /\ HeldIn(h, l, k) \in Int
            /\ HeldIn(h, l + 1, k) = HeldIn(h, l, k) + IF Key(h, h[l + 1]) = k THEN Signed(h[l + 1]) ELSE 0
        BY <1>1, <4>1, HeldMore
      <4> QED BY <4>1, <4>2 DEF l
    <3>4. HeldIn(h, m - 1, k) >= 0
      BY <1>1, <1>3, <1>6 DEF N
    <3>5. Key(h, h[m]) = k
      BY <1>6, <3>2, <3>3
    <3>6. IsBuy(h[m]) => Signed(h[m]) \in Nat
      BY <1>1, <1>6, SignedIs
    <3>7. IsBuy(h[m]) => FALSE
      BY <1>6, <3>2, <3>3, <3>4, <3>5, <3>6
    <3> QED BY <3>5, <3>7
  <2> QED BY <2>1, <2>2
<1>8. m \in Zeros(h, N)
  BY <1>6, <1>7 DEF Zeros
<1>9. h[m].year = y
  <2>1. h[m].year <= y
    BY <1>1, <1>6
  <2>2. CASE m = p
    BY <2>2
  <2>3. CASE m # p
    <3>1. p < m /\ p \in DOMAIN history /\ m \in DOMAIN history
      BY <1>1, <1>6, <2>3
    <3>2. history[p].year <= history[m].year
      BY <3>1 DEF HistInv, InOrder
    <3>3. h[p].year <= h[m].year
      BY <1>1, <1>6, <3>2
    <3> QED BY <1>2, <1>6, <2>1, <3>3
  <2> QED BY <2>2, <2>3
<1> QED BY <1>8, <1>9 DEF N

\* What SectionsByHistory says of one report.
Sectioned(y) ==
  LET h == Through(y)
      zero == {i \in DOMAIN h : ~IsBuy(h[i]) /\ HeldIn(h, i, Key(h, h[i])) = 0}
  IN /\ reports[y].replay.count = Cardinality(zero)
     /\ reports[y].main <=> Held(h, Keys) > 0 \/ \E i \in zero : h[i].year = y
     /\ reports[y].replay.net # 0 => reports[y].main

LEMMA SectionsFinish ==
  ASSUME IInv, HistInv, QtyInv, AccInv, Finish
  PROVE  LET r == reports'[year]
         IN /\ r.replay.count = Cardinality(Zeros(Inputs, Len(Inputs)))
            /\ r.main <=> Held(Inputs, Keys) > 0 \/ \E i \in Zeros(Inputs, Len(Inputs)) : Inputs[i].year = year
            /\ r.replay.net # 0 => r.main
<1> DEFINE r == reports'[year]
           N == Len(Inputs)
<1>1. /\ Replaying /\ ~work.on /\ pos = N /\ year \in Years /\ TypeOK /\ year \in Int
      /\ Inputs \in Seq(Activities) /\ N \in Nat /\ Inputs = Through(year) /\ acc \in Replays
  BY InputsType DEF Finish, IInv, TypeOK, Replaying, Years, Inputs
<1>2. /\ r.main = (OpenQty(books) > 0 \/ acc.inYear)
      /\ r.replay.count = acc.count /\ r.replay.net = acc.net
  BY <1>1 DEF Finish, IncludeInMain, TypeOK, Replays
<1>3. /\ acc.count = Cardinality(Zeros(Inputs, N))
      /\ acc.inYear <=> \E i \in Zeros(Inputs, N) : Inputs[i].year = year
      /\ acc.net = Gains(Inputs, acc.audit, year, N)
  BY <1>1 DEF AccInv
<1>4. /\ \A k \in Keys : BookQty(books[k]) = HeldIn(Inputs, N, k) - 0
      /\ \A n \in 0..N : \A k \in Keys : HeldIn(Inputs, n, k) >= 0
      /\ OpenQty(books) = Net(Inputs, N) - 0
  BY <1>1 DEF QtyInv, Pending
<1>5. \A k \in Keys : HeldIn(Inputs, N, k) \in Int /\ Net(Inputs, N) \in Int
  BY <1>1, HeldType
<1>6. OpenQty(books) = Held(Inputs, Keys) /\ OpenQty(books) \in Nat
  <2>1. Asset \in Keys
    BY DEF Keys
  <2>2. books \in [Keys -> Books]
    BY <1>1 DEF TypeOK
  <2>3. Held(Inputs, Keys) = Net(Inputs, N)
    BY <1>1, HeldIsNet
  <2> QED BY <1>4, <1>5, <2>1, <2>2, <2>3, OpenType
<1>7. ASSUME acc.net # 0, OpenQty(books) = 0 PROVE acc.inYear
  <2>1. PICK p \in 1..N : Inputs[p].kind = "sell" /\ Inputs[p].year = year
    BY <1>1, <1>3, <1>7, NoGains
  <2>2. \A k \in Keys : HeldIn(Inputs, N, k) = 0
    <3>1. \A k \in Keys : BookQty(books[k]) = 0
      BY <1>1, <1>7, NothingOpen DEF TypeOK
    <3> QED BY <1>4, <1>5, <3>1
  <2>3. p \in DOMAIN Inputs /\ ~IsBuy(Inputs[p])
    BY <1>1, <2>1 DEF IsBuy
  <2>4. \E i \in Zeros(Inputs, N) : Inputs[i].year = year
    BY <1>1, <1>4, <2>1, <2>2, <2>3, LastEmpties
  <2> QED BY <1>3, <2>4
<1> HIDE DEF r
<1>8. r.main <=> Held(Inputs, Keys) > 0 \/ \E i \in Zeros(Inputs, N) : Inputs[i].year = year
  BY <1>2, <1>3, <1>6
<1>9. r.replay.net # 0 => r.main
  <2>1. CASE OpenQty(books) = 0
    BY <1>2, <1>7, <2>1
  <2>2. CASE OpenQty(books) # 0
    <3>1. OpenQty(books) > 0
      BY <1>6, <2>2
    <3> QED BY <1>2, <3>1
  <2> QED BY <2>1, <2>2
<1>10. r.replay.count = Cardinality(Zeros(Inputs, N))
  BY <1>2, <1>3
<1> QED BY <1>8, <1>9, <1>10 DEF r

LEMMA SectionedIs ==
  ASSUME TypeOK, NEW y \in Int
  PROVE  Sectioned(y) <=>
           /\ reports[y].replay.count = Cardinality(Zeros(Through(y), Len(Through(y))))
           /\ reports[y].main <=> \/ Held(Through(y), Keys) > 0
                                  \/ \E i \in Zeros(Through(y), Len(Through(y))) : Through(y)[i].year = y
           /\ reports[y].replay.net # 0 => reports[y].main
<1>1. DOMAIN Through(y) = 1..Len(Through(y))
  <2>1. Through(y) \in Seq(Activities)
    BY ThroughType DEF TypeOK
  <2> QED BY <2>1
<1> QED BY <1>1 DEF Sectioned, Zeros

LEMMA SectionedThen ==
  ASSUME TypeOK, history' = history, method' = method, NEW y \in Int
  PROVE  Sectioned(y)' <=>
           /\ reports'[y].replay.count = Cardinality(Zeros(Through(y), Len(Through(y))))
           /\ reports'[y].main <=> \/ Held(Through(y), Keys) > 0
                                   \/ \E i \in Zeros(Through(y), Len(Through(y))) : Through(y)[i].year = y
           /\ reports'[y].replay.net # 0 => reports'[y].main
<1>1. DOMAIN Through(y) = 1..Len(Through(y))
  <2>1. Through(y) \in Seq(Activities)
    BY ThroughType DEF TypeOK
  <2> QED BY <2>1
<1>2. Through(y)' = Through(y)
  BY DEF Through
<1>3. \A h, i, k : HeldIn(h, i, k)' = HeldIn(h, i, k) /\ Key(h, i)' = Key(h, i) /\ Held(h, Keys)' = Held(h, Keys)
  BY DEF HeldIn, Key, Broadened, Signed, Held
<1>4. /\ Key(Through(y), Through(y)[1])' = Key(Through(y), Through(y)[1])
      /\ Held(Through(y), Keys)' = Held(Through(y), Keys)
      /\ Zeros(Through(y), Len(Through(y)))' = Zeros(Through(y), Len(Through(y)))
  BY <1>2 DEF Zeros, IsBuy, HeldIn, Key, Broadened, Signed, Held
<1>5. Sectioned(y)' <=>
        /\ reports'[y].replay.count = Cardinality(Zeros(Through(y), Len(Through(y))))'
        /\ reports'[y].main <=> \/ Held(Through(y), Keys)' > 0
                                \/ \E i \in Zeros(Through(y), Len(Through(y)))' : Through(y)'[i].year = y
        /\ reports'[y].replay.net # 0 => reports'[y].main
  BY <1>1, <1>2 DEF Sectioned, Zeros, IsBuy, HeldIn, Key, Broadened, Signed, Held
<1> QED BY <1>2, <1>4, <1>5

\* What holds of the reports that are made holds of them after a step that makes no other.
LEMMA ReportsStay ==
  ASSUME IInv, [Next]_vars, ~Finish
  PROVE  /\ \A y \in Years : reports'[y].status = "made" => reports'[y] = reports[y]
         /\ \/ history' = history /\ method' = method
            \/ \A y \in Years : reports'[y].status # "made"
<1>0. TypeOK
  BY DEF IInv
<1>1. CASE BuyDone \/ LotsDone \/ PoolDone \/ LotsBegun \/ LotDone
  BY <1>1 DEF BuyDone, LotsDone, PoolDone, LotsBegun, LotDone, Done
<1>2. CASE Failed
  <2>1. /\ Abort /\ year \in Years /\ reports' = [reports EXCEPT ![year] = [NoReport EXCEPT !.status = "failed"]]
        /\ history' = history /\ method' = method
    BY <1>0, <1>2 DEF Failed, Abort, TypeOK, Replaying
  <2>2. reports'[year].status = "failed"
    BY <1>0, <2>1 DEF TypeOK, NoReport
  <2>3. \A y \in Years : y # year => reports'[y] = reports[y]
    BY <1>0, <2>1 DEF TypeOK
  <2> QED BY <2>1, <2>2, <2>3
<1>3. ASSUME NEW y \in Years, Begin(y) PROVE reports' = reports /\ history' = history /\ method' = method
  BY <1>3 DEF Begin
<1>4. ASSUME NEW a \in Activities, Record(a)
      PROVE  reports' = reports /\ \A y \in Years : reports'[y].status # "made"
  BY <1>4 DEF Record, NoReport
<1>5. CASE UNCHANGED vars
  BY <1>5 DEF vars
<1> QED BY <1>1, <1>2, <1>3, <1>4, <1>5, Steps

LEMMA SectionsSteps ==
  ASSUME IInv, HistInv, QtyInv, AccInv, SectionsByHistory, [Next]_vars
  PROVE  SectionsByHistory'
<1>0. /\ SectionsByHistory <=> \A y \in Years : Made(y) => Sectioned(y)
      /\ TypeOK /\ Years \subseteq Int
  BY DEF SectionsByHistory, Sectioned, IInv, Years
<1>1. SectionsByHistory' <=> \A y \in Years : reports'[y].status = "made" => Sectioned(y)'
  BY DEF SectionsByHistory, Sectioned, Made
<1>2. CASE ~Finish
  <2> SUFFICES ASSUME NEW y \in Years, reports'[y].status = "made" PROVE Sectioned(y)'
    BY <1>1
  <2>1. history' = history /\ method' = method /\ reports'[y] = reports[y]
    BY <1>2, ReportsStay
  <2>2. Sectioned(y)
    BY <1>0, <2>1 DEF Made
  <2> QED BY <1>0, <2>1, <2>2, SectionedIs, SectionedThen
<1>3. CASE Finish
  <2> SUFFICES ASSUME NEW y \in Years, reports'[y].status = "made" PROVE Sectioned(y)'
    BY <1>1
  <2>1. /\ history' = history /\ method' = method /\ year \in Years /\ Inputs = Through(year)
        /\ y # year => reports'[y] = reports[y]
    BY <1>3 DEF Finish, IInv, TypeOK, Replaying, Inputs
  <2>2. CASE y = year
    BY <1>0, <1>3, <2>1, <2>2, SectionsFinish, SectionedThen
  <2>3. CASE y # year
    <3>1. Sectioned(y) /\ reports'[y] = reports[y]
      BY <1>0, <2>1, <2>3 DEF Made
    <3> QED BY <1>0, <2>1, <3>1, SectionedIs, SectionedThen
  <2> QED BY <2>2, <2>3
<1> QED BY <1>2, <1>3

LEMMA SectionsStarts == Init => SectionsByHistory
<1>1. NoReport.status # "made"
  BY DEF NoReport
<1> QED BY <1>1 DEF Init, SectionsByHistory, Made

LEMMA AccAlways == Spec => [](IInv /\ HistInv /\ QtyInv /\ AccInv)
<1>1. ASSUME IInv, QtyInv, AccInv, [Next]_vars PROVE AccInv'
  BY <1>1, AccSteps
<1> QED BY <1>1, AccStarts, QtyAlways, PTL DEF Spec

(* FR-012, FR-016 and FR-017a, for every method and history: which sections show the asset and
   how often it was liquidated follows from its holdings, and a year in which something was
   gained or lost always shows the asset in the section that the total is about. *)
THEOREM SectionsFollow == Spec => []SectionsByHistory
<1>1. ASSUME IInv, HistInv, QtyInv, AccInv, SectionsByHistory, [Next]_vars PROVE SectionsByHistory'
  BY <1>1, SectionsSteps
<1> QED BY <1>1, SectionsStarts, AccAlways, PTL DEF Spec

-----------------------------------------------------------------------------
(* What a report opens with and what its year adds to it.                  *)

\* The activities of year y among the first n, what they left, cost and were allocated.
In(h, y, n) == {i \in 1..n : h[i].year = y}
NetIn(h, y, n) == SumFunctionOnSet(SignedOf(h), In(h, y, n))
CostAt(h) == [i \in DOMAIN h |-> IF IsBuy(h[i]) THEN h[i].amount ELSE 0]
CostIn(h, y, n) == SumFunctionOnSet(CostAt(h), In(h, y, n))
AllocIn(h, audit, y, n) == SumFunctionOnSet([i \in 1..n |-> audit[i].allocated], In(h, y, n))

\* The opening position, once it is captured, and the year so far make up what is held.
OpenInv == Replaying =>
  IF acc.captured
  THEN /\ acc.openQty + NetIn(Inputs, year, pos) = Net(Inputs, pos)
       /\ acc.openBasis + CostIn(Inputs, year, pos) - AllocIn(Inputs, acc.audit, year, pos)
            = OpenBasis(books) + work.allocated
       /\ \A i \in (pos + 1)..Len(Inputs) : Inputs[i].year = year
  ELSE /\ \A i \in 1..pos : Inputs[i].year # year
       /\ work.on => Inputs[pos + 1].year # year

LEMMA OpenThen ==
  ASSUME history' = history, year' = year
  PROVE  OpenInv' <=>
           (Replaying =>
              IF acc'.captured
              THEN /\ acc'.openQty + NetIn(Inputs, year, pos') = Net(Inputs, pos')
                   /\ acc'.openBasis + CostIn(Inputs, year, pos') - AllocIn(Inputs, acc'.audit, year, pos')
                        = OpenBasis(books') + work'.allocated
                   /\ \A i \in (pos' + 1)..Len(Inputs) : Inputs[i].year = year
              ELSE /\ \A i \in 1..pos' : Inputs[i].year # year
                   /\ work'.on => Inputs[pos' + 1].year # year)
<1>1. Inputs' = Inputs /\ (Replaying' <=> Replaying)
  BY InputsSame
<1> QED BY <1>1 DEF OpenInv, NetIn, Net, CostIn, AllocIn, In, SignedOf, Signed, CostAt, IsBuy,
                    OpenBasis, BookBasis, BasisOf, OpenLots

\* The sums over a year grow by what the next activity adds, if it is of that year.
LEMMA YearNext ==
  ASSUME NEW f, NEW h, NEW y, NEW n \in Nat, \A i \in 1..(n + 1) : f[i] \in Int
  PROVE  /\ SumFunctionOnSet(f, In(h, y, n)) \in Int
         /\ SumFunctionOnSet(f, In(h, y, n + 1))
              = SumFunctionOnSet(f, In(h, y, n)) + IF h[n + 1].year = y THEN f[n + 1] ELSE 0
<1> DEFINE P == In(h, y, n + 1)
<1>1. In(h, y, n) = P \cap (1..n) /\ P = P \cap (1..(n + 1)) /\ (n + 1 \in P <=> h[n + 1].year = y)
  BY DEF In
<1> HIDE DEF P
<1>2. /\ SumFunctionOnSet(f, P \cap (1..n)) \in Int
      /\ SumFunctionOnSet(f, P \cap (1..(n + 1)))
           = SumFunctionOnSet(f, P \cap (1..n)) + IF n + 1 \in P THEN f[n + 1] ELSE 0
  BY SumNext
<1>3. SumFunctionOnSet(f, P) = SumFunctionOnSet(f, P \cap (1..(n + 1)))
  BY <1>1
<1> QED BY <1>1, <1>2, <1>3 DEF P

\* The activities of the year of the report come last.
LEMMA YearLast ==
  ASSUME TypeOK, HistInv, Replaying, NEW p \in DOMAIN Inputs, Inputs[p].year = year
  PROVE  \A i \in p..Len(Inputs) : Inputs[i].year = year
<1>1. /\ Inputs = Through(year) /\ year \in Int /\ DOMAIN history = 1..Len(history) /\ Len(Inputs) \in Nat
      /\ Inputs \in Seq(Activities)
  BY InputsType DEF TypeOK, Inputs, Years
<1>2. /\ Len(Inputs) \in 0..Len(history) /\ Len(history) \in Nat
      /\ \A i \in DOMAIN Inputs : Inputs[i] = history[i] /\ history[i].year <= year
  BY <1>1, ThroughIs
<1> SUFFICES ASSUME NEW i \in p..Len(Inputs) PROVE Inputs[i].year = year
  OBVIOUS
<1>3. p \in 1..Len(Inputs) /\ i \in 1..Len(Inputs) /\ p <= i
  BY <1>1
<1>4. Inputs[i].year <= year /\ Inputs[i].year \in Int
  <2>1. Inputs[i] \in Activities
    BY <1>1, <1>3
  <2>2. Inputs[i].year \in Int
    BY <2>1 DEF Activities, Years
  <2> QED BY <1>1, <1>2, <1>3, <2>2
<1>5. p < i => Inputs[p].year <= Inputs[i].year
  <2>1. p \in DOMAIN history /\ i \in DOMAIN history /\ Inputs[p] = history[p] /\ Inputs[i] = history[i]
    BY <1>1, <1>2, <1>3
  <2> QED BY <2>1 DEF HistInv, InOrder
<1> QED BY <1>1, <1>3, <1>4, <1>5

LEMMA YearNone ==
  ASSUME NEW h, NEW y, NEW n, \A i \in 1..n : h[i].year # y, NEW f
  PROVE  SumFunctionOnSet(f, In(h, y, n)) = 0
<1>1. In(h, y, n) = {}
  BY DEF In
<1> QED BY <1>1, SumEmpty

LEMMA YearMore ==
  ASSUME NEW h \in Seq(Activities), NEW n \in 0..(Len(h) - 1), NEW y,
         NEW audit \in Seq(AuditEntries), Len(audit) = n, NEW e \in AuditEntries
  PROVE  LET now == h[n + 1].year = y
             a == h[n + 1]
             t == Append(audit, e)
         IN /\ NetIn(h, y, n) \in Int /\ CostIn(h, y, n) \in Int /\ AllocIn(h, audit, y, n) \in Int
            /\ NetIn(h, y, n + 1) = NetIn(h, y, n) + IF now THEN Signed(a) ELSE 0
            /\ CostIn(h, y, n + 1) = CostIn(h, y, n) + IF now /\ IsBuy(a) THEN a.amount ELSE 0
            /\ AllocIn(h, t, y, n + 1) = AllocIn(h, audit, y, n) + IF now THEN e.allocated ELSE 0
<1> DEFINE t == Append(audit, e)
           f == [i \in 1..n |-> audit[i].allocated]
           g == [i \in 1..(n + 1) |-> t[i].allocated]
<1>1. /\ n \in Nat /\ t[n + 1] = e /\ \A i \in 1..n : t[i] = audit[i]
      /\ \A i \in 1..(n + 1) : h[i] \in Activities /\ t[i] \in AuditEntries /\ i \in DOMAIN h
  OBVIOUS
<1>2. \A i \in 1..(n + 1) : SignedOf(h)[i] \in Int /\ SignedOf(h)[i] = Signed(h[i])
  BY <1>1, SignedIs
<1>3. \A i \in 1..(n + 1) : CostAt(h)[i] \in Int /\ CostAt(h)[i] = IF IsBuy(h[i]) THEN h[i].amount ELSE 0
  <2>1. \A i \in 1..(n + 1) : h[i].amount \in Int
    BY <1>1, ActivityType
  <2> QED BY <1>1, <2>1 DEF CostAt
<1>4. \A i \in 1..(n + 1) : g[i] \in Int
  BY <1>1 DEF AuditEntries
<1>5. g[n + 1] = e.allocated /\ \A i \in 1..n : f[i] = g[i]
  BY <1>1
<1>6. n + 1 \in 1..(n + 1)
  BY <1>1
<1>7. IsFiniteSet(In(h, y, n)) /\ In(h, y, n) \subseteq 1..n
  <2>1. IsFiniteSet(1..n)
    BY <1>1, FS_Interval
  <2> QED BY <2>1, FS_Subset DEF In
<1>8. AllocIn(h, audit, y, n) = SumFunctionOnSet(f, In(h, y, n))
  BY DEF AllocIn
<1>9. AllocIn(h, t, y, n + 1) = SumFunctionOnSet(g, In(h, y, n + 1))
  BY DEF AllocIn
<1> HIDE DEF f, g, t
<1>10. SumFunctionOnSet(f, In(h, y, n)) = SumFunctionOnSet(g, In(h, y, n))
  BY <1>5, <1>7, SumSame
<1>11. /\ SumFunctionOnSet(g, In(h, y, n)) \in Int
       /\ SumFunctionOnSet(g, In(h, y, n + 1))
            = SumFunctionOnSet(g, In(h, y, n)) + IF h[n + 1].year = y THEN g[n + 1] ELSE 0
  BY <1>1, <1>4, YearNext
<1>12. /\ NetIn(h, y, n) \in Int
       /\ NetIn(h, y, n + 1) = NetIn(h, y, n) + IF h[n + 1].year = y THEN SignedOf(h)[n + 1] ELSE 0
  BY <1>1, <1>2, YearNext DEF NetIn
<1>13. /\ CostIn(h, y, n) \in Int
       /\ CostIn(h, y, n + 1) = CostIn(h, y, n) + IF h[n + 1].year = y THEN CostAt(h)[n + 1] ELSE 0
  BY <1>1, <1>3, YearNext DEF CostIn
<1>14. SignedOf(h)[n + 1] = Signed(h[n + 1]) /\ CostAt(h)[n + 1] = IF IsBuy(h[n + 1]) THEN h[n + 1].amount ELSE 0
  BY <1>2, <1>3, <1>6
<1>15. NetIn(h, y, n + 1) = NetIn(h, y, n) + IF h[n + 1].year = y THEN Signed(h[n + 1]) ELSE 0
  BY <1>12, <1>14
<1>16. CostIn(h, y, n + 1) = CostIn(h, y, n) + IF h[n + 1].year = y /\ IsBuy(h[n + 1]) THEN h[n + 1].amount ELSE 0
  BY <1>13, <1>14
<1>17. /\ AllocIn(h, audit, y, n) \in Int
       /\ AllocIn(h, t, y, n + 1) = AllocIn(h, audit, y, n) + IF h[n + 1].year = y THEN e.allocated ELSE 0
  BY <1>5, <1>8, <1>9, <1>10, <1>11
<1> QED BY <1>12, <1>13, <1>15, <1>16, <1>17 DEF t

\* An activity moves what its book holds by its cost and by what is allocated to it.
LEMMA DoneBasis ==
  ASSUME IInv, IInv', NEW before, before \in {acc, Captured}, NEW c, NEW allocated \in Int,
         NEW zero \in BOOLEAN, Done(before, c, allocated, zero)
  PROVE  /\ OpenBasis(books) \in Int /\ work.allocated \in Int
         /\ OpenBasis(books') = OpenBasis(books) + work.allocated - allocated
                                  + IF IsBuy(Input) THEN Input.amount ELSE 0
<1> DEFINE e == AuditEntry(allocated, zero)
<1>1. /\ Replaying /\ pos < Len(Inputs) /\ pos' = pos + 1 /\ acc' = Applied(before, Put(c), allocated, zero)
      /\ history' = history /\ year' = year /\ TypeOK /\ work'.allocated = 0 /\ BasisConserved
      /\ BasisConserved' /\ books' \in [Keys -> Books]
  BY NewTypes DEF Done, IInv, TypeOK
<1>2. /\ Inputs \in Seq(Activities) /\ pos \in 0..(Len(Inputs) - 1) /\ Input = Inputs[pos + 1] /\ Input.amount \in Int
      /\ acc \in Replays /\ acc.audit \in Seq(AuditEntries) /\ work.allocated \in Int /\ OpenBasis(books) \in Int
  <2>1. Inputs \in Seq(Activities) /\ pos \in 0..(Len(Inputs) - 1) /\ Input = Inputs[pos + 1]
    BY <1>1, InputsType DEF TypeOK, Input
  <2>2. acc \in Replays /\ acc.audit \in Seq(AuditEntries) /\ work.allocated \in Int /\ OpenBasis(books) \in Int
    BY <1>1, OpenType DEF TypeOK, Replays, Works
  <2> QED BY <1>1, <2>1, <2>2, InputType
<1>3. before \in Replays /\ before.audit = acc.audit
  BY <1>1, <1>2, CapturedIs
<1>4. acc'.audit = Append(acc.audit, e)
  BY <1>1, <1>2, <1>3, AppliedIs, SMTT(20)
<1>5. e \in AuditEntries /\ e.allocated = allocated
  BY DEF AuditEntry, AuditEntries
<1> HIDE DEF e
<1>6. Allocated(acc.audit) \in Int /\ Allocated(acc'.audit) = Allocated(acc.audit) + allocated
  BY <1>2, <1>4, <1>5, AllocatedMore
<1>7. CostOf(pos) = OpenBasis(books) + Allocated(acc.audit) + work.allocated
  BY <1>1 DEF BasisConserved, CostOf
<1>8. CostOf(pos + 1) = OpenBasis(books') + Allocated(acc'.audit) + 0
  BY <1>1, BasisThen
<1>9. CostOf(pos) \in Int /\ CostOf(pos + 1) = CostOf(pos) + IF IsBuy(Input) THEN Input.amount ELSE 0
  BY <1>2, CostMore
<1>10. OpenBasis(books') \in Int
  BY <1>1, OpenType
<1>11. PICK cost \in Int : cost = IF IsBuy(Input) THEN Input.amount ELSE 0
  BY <1>2
<1>12. OpenBasis(books') = OpenBasis(books) + work.allocated - allocated + cost
  <2> DEFINE o == OpenBasis(books)
             p == OpenBasis(books')
             a == Allocated(acc.audit)
             b == Allocated(acc'.audit)
             w == work.allocated
             m == CostOf(pos)
             n == CostOf(pos + 1)
  <2>1. n = m + cost /\ m \in Int
    BY <1>9, <1>11
  <2>2. m = o + a + w /\ n = p + b + 0 /\ b = a + allocated
    BY <1>6, <1>7, <1>8
  <2>3. o \in Int /\ p \in Int /\ a \in Int /\ w \in Int
    BY <1>2, <1>6, <1>10
  <2> HIDE DEF o, p, a, b, w, m, n
  <2>4. p = o + w - allocated + cost
    BY <2>1, <2>2, <2>3
  <2> QED BY <2>4 DEF o, p, w
<1> QED BY <1>2, <1>11, <1>12

\* Once an activity is begun the opening position is captured, unless it is of an earlier year.
LEMMA BeforeOpen ==
  ASSUME IInv, HistInv, QtyInv, OpenInv, Replaying, pos < Len(Inputs),
         NEW before, \/ work.on /\ before = acc
                     \/ ~work.on /\ before = Captured
  PROVE  IF before.captured
         THEN /\ before.openQty + NetIn(Inputs, year, pos) = Net(Inputs, pos)
              /\ before.openBasis + CostIn(Inputs, year, pos) - AllocIn(Inputs, acc.audit, year, pos)
                   = OpenBasis(books) + work.allocated
              /\ \A i \in (pos + 1)..Len(Inputs) : Inputs[i].year = year
         ELSE \A i \in 1..(pos + 1) : Inputs[i].year # year
<1>1. TypeOK /\ Input = Inputs[pos + 1] /\ pos \in Nat
  BY InputsType DEF IInv, Input, TypeOK
<1>2. ASSUME \A i \in 1..pos : Inputs[i].year # year, Inputs[pos + 1].year # year
      PROVE  \A i \in 1..(pos + 1) : Inputs[i].year # year
  BY <1>1, <1>2
<1>3. CASE work.on
  BY <1>1, <1>2, <1>3 DEF OpenInv
<1>4. CASE ~work.on /\ (acc.captured \/ Input.year # year)
  BY <1>1, <1>2, <1>4, CapturedIs DEF OpenInv
<1>5. CASE ~work.on /\ ~(acc.captured \/ Input.year # year)
  <2>1. before.captured /\ before.openQty = OpenQty(books) /\ before.openBasis = OpenBasis(books)
    BY <1>1, <1>5, CapturedIs
  <2>2. \A i \in 1..pos : Inputs[i].year # year
    BY <1>5 DEF OpenInv
  <2>3. /\ NetIn(Inputs, year, pos) = 0 /\ CostIn(Inputs, year, pos) = 0
        /\ AllocIn(Inputs, acc.audit, year, pos) = 0
    BY <2>2, YearNone DEF NetIn, CostIn, AllocIn
  <2>4. work.allocated = 0
    BY <1>5, NewTypes DEF IInv, WorkInv
  <2>5. OpenQty(books) = Net(Inputs, pos) - 0
    BY <1>5 DEF QtyInv
  <2>6. OpenQty(books) \in Int /\ OpenBasis(books) \in Int /\ Net(Inputs, pos) \in Int
    <3>1. books \in [Keys -> Books] /\ Inputs \in Seq(Activities) /\ pos \in 0..Len(Inputs)
      BY <1>1, InputsType DEF TypeOK
    <3> QED BY <3>1, OpenType, HeldType
  <2>7. \A i \in (pos + 1)..Len(Inputs) : Inputs[i].year = year
    <3>1. pos + 1 \in DOMAIN Inputs /\ Inputs[pos + 1].year = year
      BY <1>1, <1>5, InputsType
    <3> QED BY <1>1, <3>1, YearLast
  <2> QED BY <2>1, <2>3, <2>4, <2>5, <2>6, <2>7
<1> QED BY <1>3, <1>4, <1>5

LEMMA DoneOpen ==
  ASSUME IInv, IInv', HistInv, QtyInv, OpenInv, NEW before, NEW c, NEW allocated \in Int, NEW zero \in BOOLEAN,
         \/ work.on /\ before = acc
         \/ ~work.on /\ before = Captured,
         Done(before, c, allocated, zero), IsBuy(Input) => allocated = 0
  PROVE  OpenInv'
<1> DEFINE e == AuditEntry(allocated, zero)
<1>1. /\ Replaying /\ pos < Len(Inputs) /\ pos' = pos + 1 /\ acc' = Applied(before, Put(c), allocated, zero)
      /\ work' = NoWork /\ history' = history /\ year' = year /\ TypeOK
  BY DEF Done, IInv
<1>2. /\ Inputs \in Seq(Activities) /\ pos \in 0..(Len(Inputs) - 1) /\ Input = Inputs[pos + 1]
  BY <1>1, InputsType DEF TypeOK, Input
<1>3. acc.audit \in Seq(AuditEntries) /\ Len(acc.audit) = pos /\ Input.amount \in Int /\ Input.qty \in Nat
  BY <1>1, InputType DEF TypeOK, Replays
<1>4. before \in Replays /\ before.audit = acc.audit
  BY <1>1, CapturedIs DEF TypeOK
<1>5. /\ acc'.audit = Append(acc.audit, e) /\ acc'.captured = before.captured
      /\ acc'.openQty = before.openQty /\ acc'.openBasis = before.openBasis
  BY <1>1, <1>3, <1>4, AppliedIs
<1>6. e \in AuditEntries /\ e.allocated = allocated
  BY DEF AuditEntry, AuditEntries
<1>7. before \in {acc, Captured}
  OBVIOUS
<1>8. /\ OpenBasis(books) \in Int /\ work.allocated \in Int
      /\ OpenBasis(books') = OpenBasis(books) + work.allocated - allocated + IF IsBuy(Input) THEN Input.amount ELSE 0
  BY <1>7, DoneBasis
<1>9. work'.allocated = 0 /\ ~work'.on
  BY <1>1, NewTypes
<1> HIDE DEF e
<1>10. CASE before.captured
  <2> DEFINE N == NetIn(Inputs, year, pos)
             C == CostIn(Inputs, year, pos)
             A == AllocIn(Inputs, acc.audit, year, pos)
             cost == IF IsBuy(Input) THEN Input.amount ELSE 0
             S == Signed(Input)
             OB == OpenBasis(books)
             OC == OpenBasis(books')
             M == Net(Inputs, pos)
  <2>1. /\ before.openQty + N = M
        /\ before.openBasis + C - A = OB + work.allocated
        /\ \A i \in (pos + 1)..Len(Inputs) : Inputs[i].year = year
    BY <1>1, <1>10, BeforeOpen
  <2>2. Input.year = year /\ \A i \in ((pos + 1) + 1)..Len(Inputs) : Inputs[i].year = year
    BY <1>2, <2>1
  <2>3. /\ N \in Int /\ C \in Int /\ A \in Int
        /\ NetIn(Inputs, year, pos + 1) = N + S
        /\ CostIn(Inputs, year, pos + 1) = C + cost
        /\ AllocIn(Inputs, acc'.audit, year, pos + 1) = A + allocated
    <3> DEFINE audit == acc.audit
               a == Inputs[pos + 1]
               now == a.year = year
    <3>1. audit \in Seq(AuditEntries) /\ Len(audit) = pos /\ e \in AuditEntries
      BY <1>3, <1>6
    <3>2. now /\ a = Input
      BY <1>2, <2>2
    <3> HIDE DEF audit
    <3>3. /\ NetIn(Inputs, year, pos) \in Int /\ CostIn(Inputs, year, pos) \in Int
          /\ AllocIn(Inputs, audit, year, pos) \in Int
          /\ NetIn(Inputs, year, pos + 1) = NetIn(Inputs, year, pos) + IF now THEN Signed(a) ELSE 0
          /\ CostIn(Inputs, year, pos + 1)
               = CostIn(Inputs, year, pos) + IF now /\ IsBuy(a) THEN a.amount ELSE 0
          /\ AllocIn(Inputs, Append(audit, e), year, pos + 1)
               = AllocIn(Inputs, audit, year, pos) + IF now THEN e.allocated ELSE 0
      BY <1>2, <3>1, YearMore
    <3>4. N \in Int /\ C \in Int /\ A \in Int
      BY <3>3 DEF audit
    <3>5. NetIn(Inputs, year, pos + 1) = N + S
      BY <3>2, <3>3
    <3>6. CostIn(Inputs, year, pos + 1) = C + cost
      BY <3>2, <3>3
    <3>7. AllocIn(Inputs, acc'.audit, year, pos + 1) = A + allocated
      BY <1>5, <1>6, <3>2, <3>3 DEF audit
    <3> QED BY <3>4, <3>5, <3>6, <3>7
  <2>4. M \in Int /\ Net(Inputs, pos + 1) = M + S /\ S \in Int /\ cost \in Int
    <3>1. M \in Int /\ Net(Inputs, pos + 1) = M + Signed(Inputs[pos + 1])
      BY <1>2, NetMore
    <3>2. Inputs[pos + 1] \in Activities
      BY <1>2
    <3>3. S \in Int
      BY <1>2, <3>2, SignedIs
    <3>4. cost \in Int
      BY <1>3
    <3> QED BY <1>2, <3>1, <3>3, <3>4
  <2>5. OB \in Int /\ work.allocated \in Int /\ OC = OB + work.allocated - allocated + cost
    BY <1>8
  <2>6. before.openQty \in Int /\ before.openBasis \in Int
    BY <1>4 DEF Replays
  <2> DEFINE w == work.allocated
             q == before.openQty
             b == before.openBasis
  <2> HIDE DEF N, C, A, S, cost, OB, OC, M
  <2>71. q + N = M /\ b + C - A = OB + w /\ OC = OB + w - allocated + cost
    BY <2>1, <2>5
  <2>72. w \in Int /\ q \in Int /\ b \in Int
    BY <2>5, <2>6
  <2> HIDE DEF w, q, b
  <2>73. q + (N + S) = M + S
    BY <2>71, <2>72, <2>3, <2>4
  <2>74. b + (C + cost) - (A + allocated) = OC + 0
    BY <2>71, <2>72, <2>3, <2>4, <2>5
  <2>7. before.openQty + (N + S) = M + S /\ before.openBasis + (C + cost) - (A + allocated) = OC + 0
    BY <2>73, <2>74 DEF q, b
  <2>8. /\ acc'.openQty + NetIn(Inputs, year, pos') = Net(Inputs, pos')
        /\ acc'.openBasis + CostIn(Inputs, year, pos') - AllocIn(Inputs, acc'.audit, year, pos')
             = OpenBasis(books') + work'.allocated
    BY <1>1, <1>5, <1>9, <2>3, <2>4, <2>7 DEF OC
  <2>9. \A i \in (pos' + 1)..Len(Inputs) : Inputs[i].year = year
    BY <1>1, <2>2
  <2> QED BY <1>1, <1>5, <1>10, <2>8, <2>9, OpenThen
<1>11. CASE ~before.captured
  <2>1. \A i \in 1..(pos + 1) : Inputs[i].year # year
    BY <1>1, <1>11, BeforeOpen
  <2> QED BY <1>1, <1>5, <1>9, <1>11, <2>1, OpenThen
<1> QED BY <1>10, <1>11

LEMMA OpenSteps ==
  ASSUME IInv, IInv', HistInv, QtyInv, OpenInv, [Next]_vars
  PROVE  OpenInv'
<1>0. TypeOK /\ PoolInv
  BY DEF IInv
<1>1. CASE BuyDone
  <2>1. Done(Captured, BuyInto(Book, Input), 0, FALSE) /\ ~work.on
    BY <1>1 DEF BuyDone
  <2>2. 0 \in Int /\ FALSE \in BOOLEAN
    OBVIOUS
  <2> QED BY <2>1, <2>2, DoneOpen
<1>2. CASE LotsDone
  <2>1. Done(acc, LotsLeft, work.allocated, BookQty(Book) = 0) /\ ~IsBuy(Input) /\ work.allocated \in Int /\ work.on
    BY <1>0, <1>2 DEF LotsDone, TypeOK, Works
  <2>2. PICK zero \in BOOLEAN : zero = (BookQty(Book) = 0)
    OBVIOUS
  <2> QED BY <2>1, <2>2, DoneOpen
<1>3. CASE PoolDone
  <2>0. PICK b, zero, portion : b = Pooled(Book) /\ zero = (b.qty = Input.qty) /\ portion = FromPool(b)
    OBVIOUS
  <2>1. /\ Done(Captured, PoolLeft(b), portion, zero) /\ ~IsBuy(Input) /\ pos < Len(Inputs) /\ ~work.on
        /\ ~(b.qty < Input.qty) /\ method \in {"hybrid", "average"}
    BY <1>3, <2>0 DEF PoolDone, Done
  <2>3. portion \in Int
    <3>1. b \in Books /\ Input.qty \in Nat \ {0}
      BY <1>0, <2>0, <2>1, PoolLeftType, InputType
    <3>2. b.qty \in Nat \ {0} /\ b.basis \in Int /\ Input.qty \in Nat
      BY <2>1, <3>1 DEF Books
    <3> QED BY <2>0, <3>2, AllocateType DEF FromPool
  <2>4. zero \in BOOLEAN
    BY <2>0
  <2> QED BY <2>1, <2>3, <2>4, DoneOpen
<1>4. CASE LotsBegun
  <2>1. /\ acc' = Captured /\ books' = books /\ work'.allocated = 0 /\ work'.on /\ ~work.on /\ Replaying
        /\ history' = history /\ year' = year /\ pos' = pos /\ pos < Len(Inputs) /\ pos \in Nat
    BY <1>0, <1>4 DEF LotsBegun, TypeOK
  <2>2. work.allocated = 0
    BY <2>1, NewTypes DEF IInv, WorkInv
  <2>3. acc'.audit = acc.audit
    BY <1>0, <2>1, CapturedIs
  <2>4. IF acc'.captured
        THEN /\ acc'.openQty + NetIn(Inputs, year, pos) = Net(Inputs, pos)
             /\ acc'.openBasis + CostIn(Inputs, year, pos) - AllocIn(Inputs, acc.audit, year, pos)
                  = OpenBasis(books) + work.allocated
             /\ \A i \in (pos + 1)..Len(Inputs) : Inputs[i].year = year
        ELSE \A i \in 1..(pos + 1) : Inputs[i].year # year
    BY <2>1, BeforeOpen
  <2>5. (\A i \in 1..(pos + 1) : Inputs[i].year # year) =>
          (\A i \in 1..pos : Inputs[i].year # year) /\ Inputs[pos + 1].year # year
    BY <2>1
  <2> QED BY <2>1, <2>2, <2>3, <2>4, <2>5, OpenThen
<1>5. CASE LotDone
  <2>1. acc' = acc /\ history' = history /\ year' = year /\ pos' = pos /\ Replaying /\ work.on
    BY <1>5 DEF LotDone
  <2>2. OpenBasis(books') + work'.allocated = OpenBasis(books) + work.allocated
    <3>1. CostOf(pos) = OpenBasis(books) + Allocated(acc.audit) + work.allocated
      BY <2>1 DEF IInv, BasisConserved, CostOf
    <3>2. BasisConserved'
      BY DEF IInv
    <3>3. CostOf(pos) = OpenBasis(books') + Allocated(acc.audit) + work'.allocated
      BY <2>1, <3>2, BasisThen
    <3>4. OpenBasis(books) \in Int /\ work.allocated \in Int
      BY <1>0, OpenType DEF TypeOK, Works
    <3>5. OpenBasis(books') \in Int /\ work'.allocated \in Int
      BY OpenType DEF IInv, TypeOK, Works
    <3>6. Allocated(acc.audit) \in Int
      <4>1. acc.audit \in Seq(AuditEntries) /\ AuditEntry(0, TRUE) \in AuditEntries
        BY <1>0 DEF TypeOK, Replays, AuditEntry, AuditEntries
      <4> QED BY <4>1, AllocatedMore
    <3> DEFINE a == Allocated(acc.audit)
               o == OpenBasis(books)
               p == OpenBasis(books')
               v == work.allocated
               w == work'.allocated
               m == CostOf(pos)
    <3>7. m = o + a + v /\ m = p + a + w
      BY <3>1, <3>3
    <3>8. o \in Int /\ v \in Int /\ p \in Int /\ w \in Int /\ a \in Int
      BY <3>4, <3>5, <3>6
    <3> HIDE DEF a, o, p, v, w, m
    <3>9. p + w = o + v
      BY <3>7, <3>8
    <3> QED BY <3>9 DEF o, p, v, w
  <2>3. ~acc.captured => Inputs[pos + 1].year # year
    BY <2>1 DEF OpenInv
  <2> QED BY <2>1, <2>2, <2>3, OpenThen DEF OpenInv
<1>6. CASE Failed \/ Finish
  <2>1. ~Replaying'
    BY <1>6 DEF Failed, Abort, Finish, Replaying
  <2> QED BY <2>1 DEF OpenInv
<1>7. ASSUME NEW y \in Years, Begin(y) PROVE OpenInv'
  <2>1. pos' = 0 /\ ~acc'.captured /\ ~work'.on
    BY <1>7, NewTypes DEF Begin, NewReplay, IInv, WorkInv, Working
  <2> QED BY <2>1 DEF OpenInv
<1>8. ASSUME NEW a \in Activities, Record(a) PROVE OpenInv'
  <2>1. ~Replaying'
    BY <1>8 DEF Record, Replaying
  <2> QED BY <2>1 DEF OpenInv
<1>9. CASE UNCHANGED vars
  <2>1. /\ acc' = acc /\ history' = history /\ method' = method /\ year' = year /\ pos' = pos
        /\ books' = books /\ work' = work
    BY <1>9 DEF vars
  <2> QED BY <2>1, OpenThen DEF OpenInv
<1> QED BY <1>1, <1>2, <1>3, <1>4, <1>5, <1>6, <1>7, <1>8, <1>9, Steps

\* The report of the year before is about the first activities of a report, all but its year's.
LEMMA EarlierIs ==
  ASSUME TypeOK, HistInv, NEW y \in Int
  PROVE  LET g == Through(y - 1)
             h == Through(y)
         IN /\ g \in Seq(Activities) /\ h \in Seq(Activities) /\ Len(g) \in Nat /\ Len(h) \in Nat
            /\ Len(g) <= Len(h) /\ \A i \in 1..Len(g) : g[i] = h[i] /\ h[i].year # y
            /\ \A i \in (Len(g) + 1)..Len(h) : h[i].year = y
<1> DEFINE g == Through(y - 1)
           h == Through(y)
           f == Len(g)
           N == Len(h)
           L == Len(history)
<1>1. /\ y - 1 \in Int /\ history \in Seq(Activities)
  BY DEF TypeOK
<1>2. /\ g \in Seq(Activities) /\ f \in 0..L /\ L \in Nat
      /\ \A i \in DOMAIN g : g[i] = history[i] /\ history[i].year <= y - 1
      /\ \A i \in DOMAIN history : history[i].year <= y - 1 => i <= f
  BY <1>1, ThroughIs
<1>3. /\ h \in Seq(Activities) /\ N \in 0..L
      /\ \A i \in DOMAIN h : h[i] = history[i] /\ history[i].year <= y
      /\ \A i \in DOMAIN history : history[i].year <= y => i <= N
  BY <1>1, ThroughIs
<1>4. DOMAIN history = 1..L /\ DOMAIN g = 1..f /\ DOMAIN h = 1..N
  BY <1>1, <1>2, <1>3
<1>5. \A i \in 1..L : history[i].year \in Int
  <2>1. \A i \in 1..L : history[i] \in Activities
    BY <1>1, <1>4
  <2> QED BY <2>1 DEF Activities, Years
<1> HIDE DEF g, h, f, N, L
<1>6. f <= N
  <2>1. CASE f = 0
    BY <1>3, <2>1
  <2>2. CASE f # 0
    <3>1. f \in 1..L /\ f \in DOMAIN g
      BY <1>2, <1>4, <2>2
    <3>2. history[f].year <= y
      BY <1>2, <1>5, <3>1
    <3> QED BY <1>3, <1>4, <3>1, <3>2
  <2> QED BY <2>1, <2>2
<1>7. \A i \in 1..f : g[i] = h[i] /\ h[i].year # y
  <2> SUFFICES ASSUME NEW i \in 1..f PROVE g[i] = h[i] /\ h[i].year # y
    OBVIOUS
  <2>1. i \in 1..N /\ i \in 1..L
    BY <1>2, <1>3, <1>6
  <2>2. g[i] = history[i] /\ history[i].year <= y - 1 /\ h[i] = history[i]
    BY <1>2, <1>3, <1>4, <2>1
  <2> QED BY <1>5, <2>1, <2>2
<1>8. \A i \in (f + 1)..N : h[i].year = y
  <2> SUFFICES ASSUME NEW i \in (f + 1)..N PROVE h[i].year = y
    OBVIOUS
  <2>1. i \in 1..N /\ i \in 1..L /\ ~(i <= f)
    BY <1>2, <1>3
  <2>2. history[i].year <= y /\ ~(history[i].year <= y - 1) /\ h[i] = history[i]
    BY <1>2, <1>3, <1>4, <2>1
  <2> QED BY <1>5, <2>1, <2>2
<1> QED BY <1>2, <1>3, <1>6, <1>7, <1>8 DEF g, h, f, N

LEMMA YearsNet ==
  ASSUME NEW h \in Seq(Activities), NEW y
  PROVE  NetIn(h, y, Len(h)) \in Int
<1> DEFINE S == In(h, y, Len(h))
<1>1. DOMAIN h = 1..Len(h) /\ Len(h) \in Nat
  OBVIOUS
<1>2. IsFiniteSet(S) /\ S \subseteq DOMAIN h
  <2>1. IsFiniteSet(1..Len(h))
    BY <1>1, FS_Interval
  <2> QED BY <1>1, <2>1, FS_Subset DEF In
<1>3. \A i \in S : SignedOf(h)[i] \in Int
  BY <1>2, SignedIs
<1> HIDE DEF S
<1> QED BY <1>2, <1>3, SumType DEF NetIn, S

LEMMA NetEarlier ==
  ASSUME NEW g \in Seq(Activities), NEW h \in Seq(Activities), NEW y,
         Len(g) <= Len(h), \A i \in 1..Len(g) : g[i] = h[i] /\ h[i].year # y,
         \A i \in (Len(g) + 1)..Len(h) : h[i].year = y
  PROVE  Net(h, Len(h)) = Net(g, Len(g)) + NetIn(h, y, Len(h))
<1> DEFINE f == Len(g)
           N == Len(h)
           P(n) == Net(h, n) = Net(g, f) + NetIn(h, y, n)
           Bad == {n \in f..N : ~P(n)}
<1>1. f \in Nat /\ N \in Nat /\ f <= N /\ Net(g, f) \in Int
  <2>1. f \in 0..Len(g)
    OBVIOUS
  <2> QED BY <2>1, HeldType
<1>2. P(f)
  <2>1. Net(h, f) = Net(g, f)
    BY <1>1, NetSame
  <2>2. NetIn(h, y, f) = 0
    BY YearNone DEF NetIn
  <2> QED BY <1>1, <2>1, <2>2
<1>3. ASSUME NEW n \in f..(N - 1), P(n) PROVE P(n + 1)
  <2>1. n \in 0..(Len(h) - 1) /\ n \in Nat /\ n + 1 \in (f + 1)..N /\ 1..(n + 1) \subseteq DOMAIN h
    BY <1>1
  <2>2. \A i \in 1..(n + 1) : SignedOf(h)[i] \in Int /\ SignedOf(h)[i] = Signed(h[i])
    BY <2>1, SignedIs
  <2>3. h[n + 1].year = y /\ n + 1 \in 1..(n + 1)
    BY <2>1
  <2>4. /\ NetIn(h, y, n) \in Int
        /\ NetIn(h, y, n + 1) = NetIn(h, y, n) + SignedOf(h)[n + 1]
    BY <2>1, <2>2, <2>3, YearNext DEF NetIn
  <2>5. Net(h, n + 1) = Net(h, n) + Signed(h[n + 1]) /\ Net(h, n) \in Int
    BY <2>1, NetMore
  <2>6. SignedOf(h)[n + 1] = Signed(h[n + 1]) /\ SignedOf(h)[n + 1] \in Int
    BY <2>2, <2>3
  <2> QED BY <1>1, <1>3, <2>4, <2>5, <2>6
<1> HIDE DEF P, f, N
<1>4. Bad = {}
  <2> SUFFICES ASSUME Bad # {} PROVE FALSE
    OBVIOUS
  <2>1. Bad \in SUBSET Nat
    BY <1>1
  <2>2. PICK m \in Bad : \A i \in Bad : m <= i
    <3> HIDE DEF Bad
    <3> QED BY <2>1, LeastNumber
  <2>3. m \in f..N /\ ~P(m) /\ m # f
    BY <1>2
  <2>4. m - 1 \in f..(N - 1) /\ (m - 1) + 1 = m /\ m - 1 \notin Bad
    BY <1>1, <2>2, <2>3
  <2>5. P(m - 1)
    BY <1>1, <2>4
  <2>6. P((m - 1) + 1)
    <3> DEFINE k == m - 1
    <3>1. k \in f..(N - 1) /\ P(k)
      BY <2>4, <2>5
    <3> HIDE DEF k
    <3> QED BY <1>3, <3>1 DEF k
  <2> QED BY <2>3, <2>4, <2>6
<1>5. P(N)
  BY <1>1, <1>4
<1> QED BY <1>5 DEF P, f, N

\* What ReportAddsUp says of report p on h, with g the history of the year before.
Summed(p, g, h, y) ==
  LET r == p.replay
      now == {i \in DOMAIN h : h[i].year = y}
      cost(i) == IF IsBuy(h[i]) THEN h[i].amount ELSE 0
      gain(i) == IF h[i].kind = "sell" THEN h[i].amount - r.audit[i].allocated ELSE 0
      sum(f(_)) == Total(h, LAMBDA i : i \in now, f)
  IN /\ r.openQty = Held(g, Keys) /\ p.closeQty = Held(h, Keys)
     /\ r.openBasis + sum(cost) - sum(LAMBDA i : r.audit[i].allocated) = p.closeBasis
     /\ r.net = sum(gain)

\* The same, in prefix sums.
AddsUp(r, g, h, y) ==
  /\ r.replay.openQty = Net(g, Len(g)) /\ r.closeQty = Net(h, Len(h))
  /\ r.replay.openBasis + CostIn(h, y, Len(h)) - AllocIn(h, r.replay.audit, y, Len(h)) = r.closeBasis
  /\ r.replay.net = Gains(h, r.replay.audit, y, Len(h))

LEMMA SummedIs ==
  ASSUME NEW p, NEW g \in Seq(Activities), NEW h \in Seq(Activities), NEW y
  PROVE  Summed(p, g, h, y) <=> AddsUp(p, g, h, y)
<1> DEFINE r == p.replay
           now == {i \in DOMAIN h : h[i].year = y}
<1>2. DOMAIN h = 1..Len(h)
  OBVIOUS
<1>3. now = In(h, y, Len(h)) /\ {i \in DOMAIN h : i \in now} = In(h, y, Len(h))
  BY <1>2 DEF In
<1>4. Held(g, Keys) = Net(g, Len(g)) /\ Held(h, Keys) = Net(h, Len(h))
  BY HeldIsNet
<1>5. SumFunctionOnSet([i \in DOMAIN h |-> IF IsBuy(h[i]) THEN h[i].amount ELSE 0], {i \in DOMAIN h : i \in now})
        = CostIn(h, y, Len(h))
  BY <1>3 DEF CostIn, CostAt
<1>6. SumFunctionOnSet([i \in DOMAIN h |-> r.audit[i].allocated], {i \in DOMAIN h : i \in now})
        = AllocIn(h, r.audit, y, Len(h))
  BY <1>2, <1>3 DEF AllocIn
<1>7. SumFunctionOnSet([i \in DOMAIN h |-> IF h[i].kind = "sell" THEN h[i].amount - r.audit[i].allocated ELSE 0],
                       {i \in DOMAIN h : i \in now})
        = Gains(h, r.audit, y, Len(h))
  BY <1>2, <1>3 DEF Gains, Gain, In
<1>8. Summed(p, g, h, y) <=>
        /\ r.openQty = Held(g, Keys) /\ p.closeQty = Held(h, Keys)
        /\ r.openBasis
             + SumFunctionOnSet([i \in DOMAIN h |-> IF IsBuy(h[i]) THEN h[i].amount ELSE 0], {i \in DOMAIN h : i \in now})
             - SumFunctionOnSet([i \in DOMAIN h |-> r.audit[i].allocated], {i \in DOMAIN h : i \in now})
             = p.closeBasis
        /\ r.net = SumFunctionOnSet([i \in DOMAIN h |-> IF h[i].kind = "sell" THEN h[i].amount - r.audit[i].allocated ELSE 0],
                                    {i \in DOMAIN h : i \in now})
  BY DEF Summed, Total
<1> HIDE DEF r, now
<1> QED BY <1>4, <1>5, <1>6, <1>7, <1>8 DEF AddsUp, r

LEMMA SumsFinish ==
  ASSUME IInv, HistInv, QtyInv, AccInv, OpenInv, Finish
  PROVE  AddsUp(reports'[year], Through(year - 1), Inputs, year)
<1> DEFINE r == reports'[year]
           N == Len(Inputs)
           g == Through(year - 1)
<1>1. /\ Replaying /\ ~work.on /\ pos = N /\ year \in Years /\ TypeOK /\ year \in Int
      /\ Inputs = Through(year) /\ acc \in Replays /\ books \in [Keys -> Books]
  BY DEF Finish, IInv, TypeOK, Replaying, Years, Inputs
<1>2. /\ r.closeQty = OpenQty(books) /\ r.closeBasis = OpenBasis(books)
      /\ r.replay.net = acc.net /\ r.replay.audit = acc.audit
      /\ r.replay.openQty = IF acc.captured THEN acc.openQty ELSE OpenQty(books)
      /\ r.replay.openBasis = IF acc.captured THEN acc.openBasis ELSE OpenBasis(books)
  BY <1>1 DEF Finish, TypeOK, Replays
<1>3. /\ g \in Seq(Activities) /\ Inputs \in Seq(Activities) /\ Len(g) \in Nat /\ N \in Nat
      /\ Len(g) <= N /\ \A i \in 1..Len(g) : g[i] = Inputs[i] /\ Inputs[i].year # year
      /\ \A i \in (Len(g) + 1)..N : Inputs[i].year = year
  BY <1>1, EarlierIs
<1>4. Net(Inputs, N) = Net(g, Len(g)) + NetIn(Inputs, year, N)
  BY <1>3, NetEarlier
<1>5. OpenQty(books) = Net(Inputs, N) - 0
  BY <1>1 DEF QtyInv
<1>6. acc.net = Gains(Inputs, acc.audit, year, N)
  BY <1>1 DEF AccInv
<1>7. Net(Inputs, N) \in Int /\ Net(g, Len(g)) \in Int /\ OpenBasis(books) \in Int
  <2>1. N \in 0..Len(Inputs) /\ Len(g) \in 0..Len(g)
    BY <1>3
  <2> QED BY <1>1, <1>3, <2>1, HeldType, OpenType
<1>8. work.allocated = 0
  BY <1>1, NewTypes DEF IInv, WorkInv
<1>9. acc.openQty \in Int /\ acc.openBasis \in Int
  BY <1>1 DEF Replays
<1> HIDE DEF r, g
<1>10. CASE acc.captured
  <2>1. /\ acc.openQty + NetIn(Inputs, year, N) = Net(Inputs, N)
        /\ acc.openBasis + CostIn(Inputs, year, N) - AllocIn(Inputs, acc.audit, year, N)
             = OpenBasis(books) + work.allocated
    BY <1>1, <1>10 DEF OpenInv
  <2>2. NetIn(Inputs, year, N) \in Int
    BY <1>3, YearsNet
  <2>3. acc.openQty = Net(g, Len(g))
    BY <1>4, <1>7, <1>9, <2>1, <2>2
  <2> QED BY <1>2, <1>5, <1>6, <1>7, <1>8, <1>10, <2>1, <2>3 DEF AddsUp, r, g
<1>11. CASE ~acc.captured
  <2>1. \A i \in 1..N : Inputs[i].year # year
    BY <1>1, <1>11 DEF OpenInv
  <2>2. NetIn(Inputs, year, N) = 0 /\ CostIn(Inputs, year, N) = 0 /\ AllocIn(Inputs, acc.audit, year, N) = 0
    BY <2>1, YearNone DEF NetIn, CostIn, AllocIn
  <2> QED BY <1>2, <1>4, <1>5, <1>6, <1>7, <1>11, <2>2 DEF AddsUp, r, g
<1> QED BY <1>10, <1>11

LEMMA SumsSteps ==
  ASSUME IInv, HistInv, QtyInv, AccInv, OpenInv, ReportAddsUp, [Next]_vars
  PROVE  ReportAddsUp'
<1>0. /\ ReportAddsUp <=> \A y \in Years : Made(y) => Summed(reports[y], Through(y - 1), Through(y), y)
      /\ TypeOK /\ Years \subseteq Int
  <2>1. ReportAddsUp <=> \A y \in Years : Made(y) => Summed(reports[y], Through(y - 1), Through(y), y)
    BY DEF ReportAddsUp, Summed, Total
  <2> QED BY <2>1 DEF IInv, Years
<1>1. ASSUME history' = history
      PROVE  ReportAddsUp' <=> \A y \in Years : reports'[y].status = "made" =>
                                 Summed(reports'[y], Through(y - 1), Through(y), y)
  BY <1>1 DEF ReportAddsUp, Summed, Made, Through, Total, Held, Signed, IsBuy
<1>2. CASE ~Finish
  <2>1. (\A y \in Years : reports'[y].status # "made") => ReportAddsUp'
    BY DEF ReportAddsUp, Made
  <2>2. CASE history' = history
    <3>1. \A y \in Years : reports'[y].status = "made" => reports'[y] = reports[y]
      BY <1>2, ReportsStay
    <3> QED BY <1>0, <1>1, <2>2, <3>1 DEF Made
  <2> QED BY <1>2, <2>1, <2>2, ReportsStay
<1>3. CASE Finish
  <2>1. /\ history' = history /\ year \in Years /\ Inputs = Through(year)
        /\ \A y \in Years : y # year => reports'[y] = reports[y]
    BY <1>3 DEF Finish, IInv, TypeOK, Replaying, Inputs
  <2>2. Summed(reports'[year], Through(year - 1), Through(year), year)
    <3>1. AddsUp(reports'[year], Through(year - 1), Through(year), year)
      BY <1>3, <2>1, SumsFinish
    <3>2. Through(year - 1) \in Seq(Activities) /\ Through(year) \in Seq(Activities)
      BY <1>0, <2>1, EarlierIs
    <3> QED BY <3>1, <3>2, SummedIs
  <2> QED BY <1>0, <1>1, <2>1, <2>2 DEF Made
<1> QED BY <1>2, <1>3

-----------------------------------------------------------------------------
(* The replay as a sequence of states: it only follows from the activities. *)

States == [pos : Nat, books : [Keys -> Books], work : Works]
FirstState == [pos |-> 0, books |-> [k \in Keys |-> NewBook], work |-> NoWork]

At(h, s) == h[s.pos + 1]
BookAt(h, s) == s.books[Key(h, At(h, s))]
PutAt(h, s, b) == [s.books EXCEPT ![Key(h, At(h, s))] = b]
Ended(h, s, b) == [pos |-> s.pos + 1, books |-> PutAt(h, s, b), work |-> NoWork]

\* The steps of a replay that does not fail, as a function.
EndedLots(h, s) ==
  Ended(h, s, IF BookQty(BookAt(h, s)) = 0 THEN Emptied(BookAt(h, s)) ELSE BookAt(h, s))
TakenLot(h, s) ==
  LET b == BookAt(h, s)
      i == Head(s.work.queue)
      taken == Min({b.lots[i].qty, s.work.left})
      portion == Allocate(b.lots[i].basis, b.lots[i].qty, taken)
  IN [pos |-> s.pos,
      books |-> PutAt(h, s, [b EXCEPT !.lots = [b.lots EXCEPT ![i] =
                  [b.lots[i] EXCEPT !.qty = b.lots[i].qty - taken, !.basis = b.lots[i].basis - portion]]]),
      work |-> [s.work EXCEPT !.queue = Tail(@), !.left = @ - taken, !.allocated = @ + portion]]
BegunLots(h, s) ==
  [pos |-> s.pos, books |-> s.books,
   work |-> [on |-> TRUE, queue |-> DisposalOrder(BookAt(h, s)), left |-> At(h, s).qty, allocated |-> 0]]
LeftOf(b, q) ==
  IF b.qty = q THEN Emptied(b)
  ELSE [b EXCEPT !.qty = @ - q, !.basis = @ - Allocate(b.basis, b.qty, q), !.lots = OldestConsumed(@, q)]
NextState(h, s) ==
  IF s.work.on THEN IF s.work.left = 0 THEN EndedLots(h, s) ELSE TakenLot(h, s)
  ELSE IF IsBuy(At(h, s)) THEN Ended(h, s, BuyInto(BookAt(h, s), At(h, s)))
  ELSE IF Exact(BookAt(h, s)) THEN BegunLots(h, s)
  ELSE Ended(h, s, LeftOf(Pooled(BookAt(h, s)), At(h, s).qty))

\* A replay of m steps, and the states some replay comes to.
Run(h, m, tr) == /\ \A i \in 0..m : tr[i] \in States
                 /\ tr[0] = FirstState
                 /\ \A i \in 0..(m - 1) : tr[i + 1] = NextState(h, tr[i])
Reached(h, s) == \E m \in Nat : \E tr : Run(h, m, tr) /\ tr[m] = s

\* Replaying the first n activities of h leaves this basis.
Leaves(h, n, basis) ==
  \E s \in States : Reached(h, s) /\ ~s.work.on /\ s.pos = n /\ basis = OpenBasis(s.books)

Current == [pos |-> pos, books |-> books, work |-> work]

LEMMA ReachedFirst ==
  ASSUME NEW h, FirstState \in States
  PROVE  Reached(h, FirstState)
<1> DEFINE tr == [i \in 0..0 |-> FirstState]
<1>1. tr[0] = FirstState /\ (\A i \in 0..0 : tr[i] \in States) /\ 0..(0 - 1) = {}
  OBVIOUS
<1> HIDE DEF tr
<1>2. Run(h, 0, tr)
  BY <1>1 DEF Run
<1> QED BY <1>1, <1>2 DEF Reached

LEMMA ReachedMore ==
  ASSUME NEW h, NEW s, Reached(h, s), NextState(h, s) \in States
  PROVE  Reached(h, NextState(h, s))
<1>1. PICK m, tr : m \in Nat /\ Run(h, m, tr) /\ tr[m] = s
  BY DEF Reached
<1> DEFINE t == NextState(h, s)
           ts == [i \in 0..(m + 1) |-> IF i <= m THEN tr[i] ELSE t]
<1>2. (\A i \in 0..m : ts[i] = tr[i]) /\ ts[m + 1] = t /\ m + 1 \in Nat /\ 0 \in 0..m /\ m \in 0..m
  BY <1>1
<1>3. \A i \in 0..(m + 1) : i \in 0..m \/ i = m + 1
  BY <1>1
<1>4. \A i \in 0..((m + 1) - 1) : (i \in 0..(m - 1) /\ i \in 0..m /\ i + 1 \in 0..m) \/ i = m
  BY <1>1
<1> HIDE DEF t, ts
<1>5. \A i \in 0..(m + 1) : ts[i] \in States
  BY <1>1, <1>2, <1>3 DEF Run, t
<1>6. ts[0] = FirstState
  BY <1>1, <1>2 DEF Run
<1>7. \A i \in 0..((m + 1) - 1) : ts[i + 1] = NextState(h, ts[i])
  BY <1>1, <1>2, <1>4 DEF Run, t
<1>8. Run(h, m + 1, ts)
  BY <1>5, <1>6, <1>7 DEF Run
<1> QED BY <1>2, <1>8 DEF Reached, t

\* How far a replay is: every step from between two activities goes on.
Far(s) == 2 * s.pos + IF s.work.on THEN 1 ELSE 0

LEMMA FarMore ==
  ASSUME NEW h, NEW s \in States
  PROVE  /\ Far(s) \in Nat /\ Far(NextState(h, s)) \in Nat /\ Far(s) <= Far(NextState(h, s))
         /\ ~s.work.on => Far(s) < Far(NextState(h, s))
<1>1. s.pos \in Nat /\ s.work.on \in BOOLEAN /\ s.work \in Works
  BY DEF States, Works
<1>2. ~NoWork.on
  BY DEF NoWork
<1>3. \A b : Ended(h, s, b).pos = s.pos + 1 /\ ~Ended(h, s, b).work.on
  BY <1>2 DEF Ended
<1>4. EndedLots(h, s).pos = s.pos + 1 /\ ~EndedLots(h, s).work.on
  BY <1>3 DEF EndedLots
<1>5. BegunLots(h, s).pos = s.pos /\ BegunLots(h, s).work.on
  BY DEF BegunLots
<1>6. TakenLot(h, s).pos = s.pos /\ TakenLot(h, s).work.on = s.work.on
  <2>1. \A q, l, a : [s.work EXCEPT !.queue = q, !.left = l, !.allocated = a].on = s.work.on
    BY <1>1 DEF Works
  <2> DEFINE b == BookAt(h, s)
             i == Head(s.work.queue)
             taken == Min({b.lots[i].qty, s.work.left})
             portion == Allocate(b.lots[i].basis, b.lots[i].qty, taken)
             bs == PutAt(h, s, [b EXCEPT !.lots = [b.lots EXCEPT ![i] =
                     [b.lots[i] EXCEPT !.qty = b.lots[i].qty - taken, !.basis = b.lots[i].basis - portion]]])
             q == Tail(s.work.queue)
             l == s.work.left - taken
             a == s.work.allocated + portion
             w == [s.work EXCEPT !.queue = q, !.left = l, !.allocated = a]
  <2>2. TakenLot(h, s) = [pos |-> s.pos, books |-> bs, work |-> w]
    BY DEF TakenLot
  <2> HIDE DEF b, i, taken, portion, bs, q, l, a
  <2>3. w.on = s.work.on
    BY <2>1
  <2> HIDE DEF w
  <2> QED BY <2>2, <2>3
<1>7. CASE s.work.on /\ s.work.left = 0
  <2>1. NextState(h, s) = EndedLots(h, s)
    BY <1>7 DEF NextState
  <2>2. Far(EndedLots(h, s)) = 2 * (s.pos + 1) /\ Far(s) = 2 * s.pos + 1
    BY <1>1, <1>4, <1>7 DEF Far
  <2> QED BY <1>1, <1>7, <2>1, <2>2
<1>8. CASE s.work.on /\ s.work.left # 0
  <2>1. NextState(h, s) = TakenLot(h, s)
    BY <1>8 DEF NextState
  <2>2. Far(TakenLot(h, s)) = 2 * s.pos + 1 /\ Far(s) = 2 * s.pos + 1
    BY <1>1, <1>6, <1>8 DEF Far
  <2> QED BY <1>1, <1>8, <2>1, <2>2
<1>9. CASE ~s.work.on
  <2> DEFINE n == NextState(h, s)
  <2>1. (n.pos = s.pos + 1 /\ ~n.work.on) \/ (n.pos = s.pos /\ n.work.on)
    BY <1>3, <1>5, <1>9 DEF NextState
  <2> HIDE DEF n
  <2>2. Far(n) = 2 * (s.pos + 1) \/ Far(n) = 2 * s.pos + 1
    BY <1>1, <2>1 DEF Far
  <2>3. Far(s) = 2 * s.pos
    BY <1>1, <1>9 DEF Far
  <2>4. Far(s) \in Nat /\ Far(n) \in Nat /\ Far(s) < Far(n)
    BY <1>1, <2>2, <2>3
  <2> QED BY <2>4 DEF n
<1> QED BY <1>7, <1>8, <1>9

\* Two replays go the same way as long as both go on.
LEMMA RunsAgree ==
  ASSUME NEW h, NEW m \in Nat, NEW l \in Nat, m <= l, NEW tr, NEW ts, Run(h, m, tr), Run(h, l, ts)
  PROVE  \A i \in 0..m : tr[i] = ts[i]
<1> DEFINE Bad == {i \in 0..m : tr[i] # ts[i]}
<1> SUFFICES ASSUME Bad # {} PROVE FALSE
  OBVIOUS
<1>1. Bad \in SUBSET Nat
  OBVIOUS
<1>2. PICK n \in Bad : \A i \in Bad : n <= i
  <2> HIDE DEF Bad
  <2> QED BY <1>1, LeastNumber
<1>3. n \in 0..m /\ tr[n] # ts[n]
  OBVIOUS
<1>4. n # 0
  BY <1>3 DEF Run
<1>5. /\ n - 1 \in 0..m /\ n - 1 \notin Bad /\ n - 1 \in 0..(m - 1) /\ n - 1 \in 0..(l - 1) /\ (n - 1) + 1 = n
  BY <1>2, <1>3, <1>4
<1>6. tr[n - 1] = ts[n - 1]
  BY <1>5
<1>7. tr[n] = NextState(h, tr[n - 1]) /\ ts[n] = NextState(h, ts[n - 1])
  BY <1>5 DEF Run
<1> QED BY <1>3, <1>6, <1>7

\* A replay never goes back.
LEMMA RunsOn ==
  ASSUME NEW h, NEW m \in Nat, NEW tr, Run(h, m, tr), NEW i \in 0..m, NEW j \in 0..m, i <= j
  PROVE  Far(tr[i]) <= Far(tr[j]) /\ Far(tr[i]) \in Nat /\ Far(tr[j]) \in Nat
<1>0. \A k \in 0..m : tr[k] \in States /\ Far(tr[k]) \in Nat
  BY FarMore DEF Run
<1> DEFINE Bad == {k \in i..m : ~(Far(tr[i]) <= Far(tr[k]))}
<1>1. ASSUME Bad # {} PROVE FALSE
  <2>1. Bad \in SUBSET Nat
    OBVIOUS
  <2>2. PICK n \in Bad : \A k \in Bad : n <= k
    <3> HIDE DEF Bad
    <3> QED BY <1>1, <2>1, LeastNumber
  <2>3. n \in i..m /\ ~(Far(tr[i]) <= Far(tr[n])) /\ n # i
    BY <1>0
  <2>4. n - 1 \in i..m /\ n - 1 \notin Bad /\ n - 1 \in 0..(m - 1) /\ (n - 1) + 1 = n /\ n - 1 \in 0..m /\ n \in 0..m
    BY <2>2, <2>3
  <2>5. Far(tr[i]) <= Far(tr[n - 1])
    BY <2>4
  <2>6. tr[n] = NextState(h, tr[n - 1])
    BY <2>4 DEF Run
  <2>7. Far(tr[n - 1]) <= Far(tr[n])
    BY <1>0, <2>4, <2>6, FarMore
  <2> QED BY <1>0, <2>3, <2>4, <2>5, <2>7
<1>2. j \in i..m /\ j \notin Bad
  BY <1>1
<1> QED BY <1>0, <1>2

\* Where a replay is between two activities it is there once.
LEMMA OnlyOnce ==
  ASSUME NEW h, NEW m \in Nat, NEW tr, Run(h, m, tr), NEW i \in 0..m, ~tr[i].work.on,
         Far(tr[i]) = Far(tr[m])
  PROVE  i = m
<1> SUFFICES ASSUME i # m PROVE FALSE
  OBVIOUS
<1>1. i \in 0..(m - 1) /\ i + 1 \in 0..m /\ m \in 0..m /\ i + 1 <= m
  OBVIOUS
<1>2. tr[i] \in States /\ tr[i + 1] = NextState(h, tr[i])
  BY <1>1 DEF Run
<1>3. Far(tr[i]) < Far(tr[i + 1]) /\ Far(tr[i]) \in Nat /\ Far(tr[i + 1]) \in Nat
  BY <1>2, FarMore
<1>4. Far(tr[i + 1]) <= Far(tr[m]) /\ Far(tr[m]) \in Nat
  BY <1>1, RunsOn
<1> QED BY <1>3, <1>4

LEMMA RunsMeet ==
  ASSUME NEW h, NEW m \in Nat, NEW l \in Nat, m <= l, NEW tr, NEW ts, Run(h, m, tr), Run(h, l, ts),
         ~tr[m].work.on, ~ts[l].work.on, tr[m].pos = ts[l].pos
  PROVE  tr[m] = ts[l]
<1>1. m \in 0..m /\ m \in 0..l
  OBVIOUS
<1>2. tr[m] = ts[m]
  BY <1>1, RunsAgree
<1>3. Far(ts[m]) = Far(ts[l])
  BY <1>2 DEF Far
<1>4. m = l
  BY <1>1, <1>2, <1>3, OnlyOnce
<1> QED BY <1>2, <1>4

LEMMA LeavesOne ==
  ASSUME NEW h, NEW n, NEW b, NEW c, Leaves(h, n, b), Leaves(h, n, c)
  PROVE  b = c
<1>1. PICK s \in States : Reached(h, s) /\ ~s.work.on /\ s.pos = n /\ b = OpenBasis(s.books)
  BY DEF Leaves
<1>2. PICK t \in States : Reached(h, t) /\ ~t.work.on /\ t.pos = n /\ c = OpenBasis(t.books)
  BY DEF Leaves
<1>3. PICK m, tr : m \in Nat /\ Run(h, m, tr) /\ tr[m] = s
  BY <1>1 DEF Reached
<1>4. PICK l, ts : l \in Nat /\ Run(h, l, ts) /\ ts[l] = t
  BY <1>2 DEF Reached
<1>5. s = t
  <2>0. m \in Nat /\ l \in Nat
    BY <1>3, <1>4
  <2>1. CASE m <= l
    BY <1>1, <1>2, <1>3, <1>4, <2>1, RunsMeet
  <2>2. CASE l <= m
    BY <1>1, <1>2, <1>3, <1>4, <2>2, RunsMeet
  <2> QED BY <2>0, <2>1, <2>2
<1> QED BY <1>1, <1>2, <1>5

\* A replay of a longer history is, for as long, one of a shorter history with the same scopes.
LEMMA LeavesSame ==
  ASSUME NEW g, NEW h, NEW n \in Nat, \A i \in 1..n : g[i] = h[i], \A a : Key(g, a) = Key(h, a),
         NEW b, Leaves(h, n, b)
  PROVE  Leaves(g, n, b)
<1>1. PICK s \in States : Reached(h, s) /\ ~s.work.on /\ s.pos = n /\ b = OpenBasis(s.books)
  BY DEF Leaves
<1>2. PICK m, tr : m \in Nat /\ Run(h, m, tr) /\ tr[m] = s
  BY <1>1 DEF Reached
<1>3. ASSUME NEW i \in 0..(m - 1) PROVE tr[i].pos < n /\ tr[i] \in States
  <2>1. i \in 0..m /\ m \in 0..m /\ i <= m
    BY <1>2
  <2>2. tr[i] \in States /\ tr[m] = s
    BY <1>2, <2>1 DEF Run
  <2>3. Far(tr[i]) <= Far(s)
    BY <1>2, <2>1, RunsOn
  <2>4. Far(s) = 2 * n
    BY <1>1 DEF Far
  <2>5. tr[i].pos \in Nat
    BY <2>2 DEF States
  <2>6. ASSUME ~(tr[i].pos < n) PROVE FALSE
    <3> DEFINE p == tr[i].pos
               on == tr[i].work.on
    <3>1. Far(tr[i]) = 2 * p + IF on THEN 1 ELSE 0
      BY DEF Far
    <3>2. p \in Nat /\ ~(p < n)
      BY <2>5, <2>6
    <3> HIDE DEF p, on
    <3>3. ~on /\ p = n
      BY <2>3, <2>4, <3>1, <3>2
    <3>4. Far(tr[i]) = Far(tr[m])
      BY <2>2, <2>4, <3>1, <3>3
    <3>5. i = m
      BY <1>2, <2>1, <3>3, <3>4, OnlyOnce DEF on
    <3> QED BY <3>5
  <2> QED BY <2>2, <2>6
<1>4. ASSUME NEW t \in States, t.pos < n PROVE NextState(g, t) = NextState(h, t)
  <2>1. At(g, t) = At(h, t)
    <3>1. t.pos + 1 \in 1..n
      BY <1>4 DEF States
    <3> QED BY <3>1 DEF At
  <2>2. BookAt(g, t) = BookAt(h, t) /\ \A c : PutAt(g, t, c) = PutAt(h, t, c)
    BY <2>1 DEF BookAt, PutAt
  <2>3. \A c : Ended(g, t, c) = Ended(h, t, c)
    BY <2>2 DEF Ended
  <2>4. EndedLots(g, t) = EndedLots(h, t)
    BY <2>2, <2>3 DEF EndedLots
  <2>5. BegunLots(g, t) = BegunLots(h, t)
    BY <2>1, <2>2 DEF BegunLots
  <2>6. TakenLot(g, t) = TakenLot(h, t)
    BY <2>2 DEF TakenLot
  <2> QED BY <2>1, <2>2, <2>3, <2>4, <2>5, <2>6 DEF NextState
<1>5. Run(g, m, tr)
  <2>1. \A i \in 0..(m - 1) : tr[i + 1] = NextState(g, tr[i])
    BY <1>2, <1>3, <1>4 DEF Run
  <2> QED BY <1>2, <2>1 DEF Run
<1>6. Reached(g, s)
  BY <1>2, <1>5 DEF Reached
<1> QED BY <1>1, <1>6 DEF Leaves

\* What a replay does only depends on the method.
LEMMA NextStays ==
  ASSUME method' = method, NEW h, NEW s
  PROVE  NextState(h, s)' = NextState(h, s)
BY DEF NextState, EndedLots, TakenLot, BegunLots, LeftOf, Ended, BookAt, PutAt, At, Key, Broadened, BuyInto,
       AddLot, AddToPool, Exact, Emptied, NewBook, DisposalOrder, Before, UnitCostAbove, Pooled, BookQty,
       BookBasis, OpenLots, QtyOf, BasisOf, IsBuy, OldestConsumed

LEMMA LeavesStays ==
  ASSUME method' = method
  PROVE  /\ \A h, n, b : Leaves(h, n, b)' <=> Leaves(h, n, b)
         /\ \A h, s : Reached(h, s)' <=> Reached(h, s)
<1>1. FirstState' = FirstState
  BY DEF FirstState, NewBook
<1>2. \A h, s : NextState(h, s)' = NextState(h, s)
  BY NextStays
<1>3. \A h, m, tr : Run(h, m, tr)' <=> Run(h, m, tr)
  BY <1>1, <1>2 DEF Run, States
<1>4. \A h, s : Reached(h, s)' <=> Reached(h, s)
  BY <1>3 DEF Reached
<1>5. \A bs : OpenBasis(bs)' = OpenBasis(bs)
  BY DEF OpenBasis, BookBasis, OpenLots, BasisOf
<1> QED BY <1>4, <1>5 DEF Leaves, States

\* Every step of the replay is one of its sequence of states.
LEMMA CurrentIs ==
  ASSUME NEW b
  PROVE  /\ At(Inputs, Current) = Input /\ BookAt(Inputs, Current) = Book
         /\ PutAt(Inputs, Current, b) = Put(b)
         /\ Ended(Inputs, Current, b) = [pos |-> pos + 1, books |-> Put(b), work |-> NoWork]
<1>1. At(Inputs, Current) = Input
  BY DEF At, Current, Input
<1>2. BookAt(Inputs, Current) = Book /\ PutAt(Inputs, Current, b) = Put(b)
  BY <1>1 DEF BookAt, PutAt, Current, Book, Put
<1> QED BY <1>1, <1>2 DEF Ended, Current

LEMMA CurrentMoves ==
  ASSUME IInv, BuyDone \/ LotsBegun \/ LotDone \/ LotsDone \/ PoolDone
  PROVE  [pos |-> pos', books |-> books', work |-> work'] = NextState(Inputs, Current)
<1> DEFINE s == Current
<1>1. s.pos = pos /\ s.books = books /\ s.work = work
  BY DEF Current
<1>2. At(Inputs, s) = Input /\ BookAt(Inputs, s) = Book
  BY CurrentIs
<1>3. CASE BuyDone
  <2>1. pos' = pos + 1 /\ books' = Put(BuyInto(Book, Input)) /\ work' = NoWork
    BY <1>3 DEF BuyDone, Done
  <2>2. NextState(Inputs, s) = Ended(Inputs, s, BuyInto(Book, Input))
    BY <1>1, <1>2, <1>3 DEF BuyDone, NextState
  <2> QED BY <2>1, <2>2, CurrentIs
<1>4. CASE LotsDone
  <2>1. pos' = pos + 1 /\ books' = Put(LotsLeft) /\ work' = NoWork
    BY <1>4 DEF LotsDone, Done
  <2>2. NextState(Inputs, s) = Ended(Inputs, s, LotsLeft)
    BY <1>1, <1>2, <1>4 DEF LotsDone, NextState, EndedLots, LotsLeft
  <2> QED BY <2>1, <2>2, CurrentIs
<1>5. CASE PoolDone
  <2>1. pos' = pos + 1 /\ books' = Put(PoolLeft(Pooled(Book))) /\ work' = NoWork
    BY <1>5 DEF PoolDone, Done
  <2>2. NextState(Inputs, s) = Ended(Inputs, s, LeftOf(Pooled(Book), Input.qty))
    BY <1>1, <1>2, <1>5 DEF PoolDone, NextState
  <2>3. LeftOf(Pooled(Book), Input.qty) = PoolLeft(Pooled(Book))
    BY DEF LeftOf, PoolLeft, Rest, FromPool
  <2> QED BY <2>1, <2>2, <2>3, CurrentIs
<1>6. CASE LotsBegun
  <2>1. pos' = pos /\ books' = books
        /\ work' = [on |-> TRUE, queue |-> DisposalOrder(Book), left |-> Input.qty, allocated |-> 0]
    BY <1>6 DEF LotsBegun
  <2>2. NextState(Inputs, s) = BegunLots(Inputs, s)
    BY <1>1, <1>2, <1>6 DEF LotsBegun, NextState
  <2> QED BY <1>1, <1>2, <2>1, <2>2 DEF BegunLots
<1>7. CASE LotDone
  <2>1. /\ pos' = pos /\ books' = Put([Book EXCEPT !.lots = LotsAfter])
        /\ work' = [work EXCEPT !.queue = Tail(@), !.left = @ - Taken(Next1), !.allocated = @ + FromLot]
        /\ work.on /\ work.left > 0
    BY <1>7 DEF LotDone
  <2>2. work.left # 0
    BY <2>1
  <2>3. NextState(Inputs, s) = TakenLot(Inputs, s)
    BY <1>1, <2>1, <2>2 DEF NextState
  <2>4. TakenLot(Inputs, s) =
          [pos |-> pos, books |-> Put([Book EXCEPT !.lots = LotsAfter]),
           work |-> [work EXCEPT !.queue = Tail(@), !.left = @ - Taken(Next1), !.allocated = @ + FromLot]]
    BY <1>1, <1>2, CurrentIs DEF TakenLot, LotsAfter, Next1, Taken, FromLot
  <2> QED BY <2>1, <2>3, <2>4
<1> QED BY <1>3, <1>4, <1>5, <1>6, <1>7

LEMMA CurrentType == TypeOK => Current \in States
<1> SUFFICES ASSUME TypeOK PROVE Current \in States
  OBVIOUS
<1>1. acc.audit \in Seq(AuditEntries) /\ pos = Len(acc.audit) /\ books \in [Keys -> Books] /\ work \in Works
  BY DEF TypeOK, Replays
<1> QED BY <1>1 DEF Current, States

LEMMA CurrentThen == TypeOK' => Current' \in States
<1> SUFFICES ASSUME TypeOK' PROVE Current' \in States
  OBVIOUS
<1>1. acc'.audit \in Seq(AuditEntries) /\ pos' = Len(acc'.audit) /\ books' \in [Keys -> Books] /\ work' \in Works
  BY DEF TypeOK, Replays
<1> QED BY <1>1 DEF Current, States

\* Where the report opens, and what was replayed to get there.
First == Len(Through(year - 1))
TraceInv == Replaying => /\ Reached(Inputs, Current)
                         /\ acc.captured => Leaves(Inputs, First, acc.openBasis)

LEMMA TraceThen ==
  ASSUME history' = history, year' = year, method' = method
  PROVE  TraceInv' <=> (Replaying => /\ Reached(Inputs, [pos |-> pos', books |-> books', work |-> work'])
                                     /\ acc'.captured => Leaves(Inputs, First, acc'.openBasis))
<1>1. Inputs' = Inputs /\ (Replaying' <=> Replaying)
  BY InputsSame
<1>2. First' = First
  BY DEF First, Through
<1>3. Current' = [pos |-> pos', books |-> books', work |-> work']
  BY DEF Current
<1>4. /\ \A h, n, b : Leaves(h, n, b)' <=> Leaves(h, n, b)
      /\ \A h, s : Reached(h, s)' <=> Reached(h, s)
  BY LeavesStays
<1> QED BY <1>1, <1>2, <1>3, <1>4 DEF TraceInv

\* An activity of the year of the report that is the first of it.
LEMMA FirstIs ==
  ASSUME TypeOK, HistInv, Replaying, pos < Len(Inputs), \A i \in 1..pos : Inputs[i].year # year,
         Input.year = year
  PROVE  pos = First
<1>1. /\ Inputs = Through(year) /\ year \in Int /\ pos \in Nat /\ Len(Inputs) \in Nat
      /\ Input = Inputs[pos + 1]
  BY InputsType DEF TypeOK, Inputs, Years, Input
<1>2. /\ First \in Nat /\ First <= Len(Inputs)
      /\ \A i \in 1..First : Inputs[i].year # year
      /\ \A i \in (First + 1)..Len(Inputs) : Inputs[i].year = year
  BY <1>1, EarlierIs DEF First
<1>3. ~(pos < First)
  <2> SUFFICES ASSUME pos < First PROVE FALSE
    OBVIOUS
  <2>1. pos + 1 \in 1..First
    BY <1>1, <1>2
  <2> QED BY <1>1, <1>2, <2>1
<1>4. ~(First < pos)
  <2> SUFFICES ASSUME First < pos PROVE FALSE
    OBVIOUS
  <2>1. First + 1 \in 1..pos /\ First + 1 \in (First + 1)..Len(Inputs)
    BY <1>1, <1>2
  <2> QED BY <1>2, <2>1
<1> QED BY <1>1, <1>2, <1>3, <1>4

LEMMA TraceSteps ==
  ASSUME IInv, IInv', HistInv, OpenInv, TraceInv, [Next]_vars
  PROVE  TraceInv'
<1>0. TypeOK /\ TypeOK' /\ Current \in States
  BY CurrentType DEF IInv
<1>1. CASE BuyDone \/ LotsBegun \/ LotDone \/ LotsDone \/ PoolDone
  <2>1. /\ Replaying /\ pos < Len(Inputs) /\ history' = history /\ year' = year /\ method' = method
        /\ BuyDone \/ LotsBegun \/ PoolDone => ~work.on
        /\ LotDone => acc' = acc
    BY <1>1 DEF BuyDone, LotsBegun, LotDone, LotsDone, PoolDone, Done
  <2>2. Reached(Inputs, [pos |-> pos', books |-> books', work |-> work'])
    <3>1. [pos |-> pos', books |-> books', work |-> work'] = NextState(Inputs, Current)
      BY <1>1, CurrentMoves
    <3>2. [pos |-> pos', books |-> books', work |-> work'] \in States
      <4>1. Current' \in States
        BY <1>0, CurrentThen
      <4> QED BY <4>1 DEF Current
    <3> QED BY <2>1, <3>1, <3>2, ReachedMore DEF TraceInv
  <2>3. PICK before \in {acc, Captured} :
          acc'.captured = before.captured /\ acc'.openBasis = before.openBasis /\ (work.on => before = acc)
    <3>1. CASE LotDone
      BY <2>1, <3>1
    <3>2. CASE LotsBegun
      BY <2>1, <3>2 DEF LotsBegun
    <3>3. ASSUME NEW before, before \in {acc, Captured}, NEW c, NEW allocated, NEW zero,
                 Done(before, c, allocated, zero)
          PROVE  acc'.captured = before.captured /\ acc'.openBasis = before.openBasis
      <4>1. acc' = Applied(before, Put(c), allocated, zero) /\ before \in Replays
        BY <1>0, <3>3, CapturedIs DEF Done, TypeOK
      <4> QED BY <4>1 DEF Applied, Replays
    <3>4. CASE BuyDone
      BY <2>1, <3>3, <3>4 DEF BuyDone
    <3>5. CASE PoolDone
      BY <2>1, <3>3, <3>5 DEF PoolDone
    <3>6. CASE LotsDone
      BY <3>3, <3>6 DEF LotsDone
    <3> QED BY <1>1, <3>1, <3>2, <3>4, <3>5, <3>6
  <2>4. before.captured => Leaves(Inputs, First, before.openBasis)
    <3>1. CASE before = acc
      BY <2>1, <3>1 DEF TraceInv
    <3>2. CASE before = Captured /\ (acc.captured \/ Input.year # year)
      BY <1>0, <2>1, <3>2, CapturedIs DEF TraceInv
    <3>3. CASE before = Captured /\ ~(acc.captured \/ Input.year # year) /\ ~work.on
      <4>1. before.openBasis = OpenBasis(books)
        BY <1>0, <3>3, CapturedIs
      <4>2. \A i \in 1..pos : Inputs[i].year # year
        BY <2>1, <3>3 DEF OpenInv
      <4>3. pos = First
        BY <1>0, <2>1, <3>3, <4>2, FirstIs
      <4>4. Current.pos = pos /\ Current.books = books /\ Current.work = work
        BY DEF Current
      <4>5. Reached(Inputs, Current)
        BY <2>1 DEF TraceInv
      <4> QED BY <1>0, <3>3, <4>1, <4>3, <4>4, <4>5 DEF Leaves
    <3> QED BY <2>3, <3>1, <3>2, <3>3
  <2>5. acc'.captured => Leaves(Inputs, First, acc'.openBasis)
    BY <2>3, <2>4
  <2> QED BY <2>1, <2>2, <2>5, TraceThen
<1>2. CASE Failed \/ Finish
  <2>1. ~Replaying'
    BY <1>2 DEF Failed, Abort, Finish, Replaying
  <2> QED BY <2>1 DEF TraceInv
<1>3. ASSUME NEW y \in Years, Begin(y) PROVE TraceInv'
  <2>1. pos' = 0 /\ books' = [k \in Keys |-> NewBook] /\ ~acc'.captured /\ work' = NoWork /\ method' = method
    BY <1>3, NewTypes DEF Begin, NewReplay, IInv, WorkInv, Working
  <2>2. Current' = FirstState'
    BY <2>1 DEF Current, FirstState, NewBook, NoWork
  <2>3. FirstState' \in States
    <3>1. Current' \in States
      BY <1>0, CurrentThen
    <3> QED BY <2>2, <3>1
  <2>4. \A h : Reached(h, FirstState)'
    <3>1. FirstState' = FirstState
      BY <2>1 DEF FirstState, NewBook
    <3>2. \A h : Reached(h, FirstState)
      BY <2>3, <3>1, ReachedFirst
    <3> QED BY <2>1, <3>1, <3>2, LeavesStays
  <2> QED BY <2>1, <2>2, <2>4 DEF TraceInv
<1>4. ASSUME NEW a \in Activities, Record(a) PROVE TraceInv'
  <2>1. ~Replaying'
    BY <1>4 DEF Record, Replaying
  <2> QED BY <2>1 DEF TraceInv
<1>5. CASE UNCHANGED vars
  <2>1. /\ history' = history /\ year' = year /\ method' = method /\ pos' = pos /\ work' = work
        /\ books' = books /\ acc' = acc
    BY <1>5 DEF vars
  <2> QED BY <2>1, TraceThen DEF TraceInv, Current
<1> QED BY <1>1, <1>2, <1>3, <1>4, <1>5, Steps

-----------------------------------------------------------------------------
(* The reports of all years.                                               *)

\* What report p of history h, with g the history of the year before, opens and closes with.
Joins(p, g, h) == /\ Leaves(h, Len(h), p.closeBasis)
                  /\ Leaves(h, Len(g), p.replay.openBasis)
JoinInv == \A y \in Years : Made(y) => Joins(reports[y], Through(y - 1), Through(y))

LEMMA JoinThen ==
  ASSUME history' = history, method' = method
  PROVE  JoinInv' <=> \A y \in Years : reports'[y].status = "made" =>
                        Joins(reports'[y], Through(y - 1), Through(y))
<1>1. \A h, n, b : Leaves(h, n, b)' <=> Leaves(h, n, b)
  BY LeavesStays
<1>2. \A y : Through(y)' = Through(y)
  BY DEF Through
<1> QED BY <1>1, <1>2 DEF JoinInv, Joins, Made

LEMMA JoinFinish ==
  ASSUME IInv, HistInv, OpenInv, TraceInv, Finish
  PROVE  Joins(reports'[year], Through(year - 1), Inputs)
<1> DEFINE r == reports'[year]
           N == Len(Inputs)
<1>1. /\ Replaying /\ ~work.on /\ pos = N /\ year \in Years /\ TypeOK /\ year \in Int
      /\ Inputs = Through(year) /\ acc \in Replays /\ books \in [Keys -> Books] /\ Current \in States
  BY CurrentType DEF Finish, IInv, TypeOK, Replaying, Years, Inputs
<1>2. /\ r.closeBasis = OpenBasis(books)
      /\ r.replay.openBasis = IF acc.captured THEN acc.openBasis ELSE OpenBasis(books)
  BY <1>1 DEF Finish, TypeOK, Replays
<1> HIDE DEF r
<1>3. Leaves(Inputs, N, OpenBasis(books))
  <2>1. Current.pos = pos /\ Current.books = books /\ Current.work = work
    BY DEF Current
  <2>2. Reached(Inputs, Current)
    BY <1>1 DEF TraceInv
  <2> QED BY <1>1, <2>1, <2>2 DEF Leaves
<1>4. acc.captured => Leaves(Inputs, First, acc.openBasis)
  BY <1>1 DEF TraceInv
<1>5. ~acc.captured => First = N
  <2> SUFFICES ASSUME ~acc.captured PROVE First = N
    OBVIOUS
  <2>1. \A i \in 1..N : Inputs[i].year # year
    BY <1>1 DEF OpenInv
  <2>2. /\ First \in Nat /\ N \in Nat /\ First <= N
        /\ \A i \in (First + 1)..N : Inputs[i].year = year
    BY <1>1, EarlierIs DEF First
  <2>3. ~(First < N)
    <3> SUFFICES ASSUME First < N PROVE FALSE
      OBVIOUS
    <3>1. N \in 1..N /\ N \in (First + 1)..N
      BY <2>2
    <3> QED BY <2>1, <2>2, <3>1
  <2> QED BY <2>2, <2>3
<1> QED BY <1>2, <1>3, <1>4, <1>5 DEF Joins, First, r

LEMMA JoinSteps ==
  ASSUME IInv, HistInv, OpenInv, TraceInv, JoinInv, [Next]_vars
  PROVE  JoinInv'
<1>0. TypeOK
  BY DEF IInv
<1>2. CASE ~Finish
  <2>1. (\A y \in Years : reports'[y].status # "made") => JoinInv'
    BY DEF JoinInv, Made
  <2>2. CASE history' = history /\ method' = method
    <3>1. \A y \in Years : reports'[y].status = "made" => reports'[y] = reports[y]
      BY <1>2, ReportsStay
    <3> QED BY <2>2, <3>1, JoinThen DEF JoinInv, Made
  <2> QED BY <1>2, <2>1, <2>2, ReportsStay
<1>3. CASE Finish
  <2>1. /\ history' = history /\ method' = method /\ year \in Years /\ Inputs = Through(year)
        /\ \A y \in Years : y # year => reports'[y] = reports[y]
    BY <1>0, <1>3 DEF Finish, TypeOK, Replaying, Inputs
  <2>2. Joins(reports'[year], Through(year - 1), Through(year))
    BY <1>3, <2>1, JoinFinish
  <2> QED BY <2>1, <2>2, JoinThen DEF JoinInv, Made
<1> QED BY <1>2, <1>3

\* What the report of a year closes with, the one of the next year opens with.
LEMMA JoinedIs ==
  ASSUME TypeOK, HistInv, ReportAddsUp, JoinInv
  PROVE  YearsJoin
<1> SUFFICES ASSUME NEW y \in Years \ {LastYear}, Made(y), Made(y + 1),
                    method = "hybrid" => (Broadened(Through(y)) <=> Broadened(Through(y + 1)))
             PROVE  /\ reports[y].closeQty = reports[y + 1].replay.openQty
                    /\ reports[y].closeBasis = reports[y + 1].replay.openBasis
  BY DEF YearsJoin
<1> DEFINE g == Through(y)
           h == Through(y + 1)
<1>1. y \in Years /\ y \in Int /\ y + 1 \in Years /\ y + 1 \in Int /\ (y + 1) - 1 = y
  BY ReplayAssumption DEF Years
<1>2. /\ g \in Seq(Activities) /\ Len(g) \in Nat /\ Len(g) <= Len(h) /\ Len(h) \in Nat /\ h \in Seq(Activities)
      /\ \A i \in 1..Len(g) : g[i] = h[i]
      /\ Through(y - 1) \in Seq(Activities)
  <2>1. \A z \in Int : /\ Through(z - 1) \in Seq(Activities) /\ Through(z) \in Seq(Activities)
                       /\ Len(Through(z - 1)) \in Nat /\ Len(Through(z)) \in Nat
                       /\ Len(Through(z - 1)) <= Len(Through(z))
                       /\ \A i \in 1..Len(Through(z - 1)) : Through(z - 1)[i] = Through(z)[i]
    BY EarlierIs
  <2> QED BY <1>1, <2>1
<1>3. AddsUp(reports[y], Through(y - 1), g, y) /\ AddsUp(reports[y + 1], g, h, y + 1)
  <2>1. ReportAddsUp <=> \A z \in Years : Made(z) => Summed(reports[z], Through(z - 1), Through(z), z)
    BY DEF ReportAddsUp, Summed, Total
  <2>2. Summed(reports[y], Through(y - 1), g, y) /\ Summed(reports[y + 1], g, h, y + 1)
    BY <1>1, <2>1
  <2> QED BY <1>2, <2>2, SummedIs
<1>4. Leaves(g, Len(g), reports[y].closeBasis) /\ Leaves(h, Len(g), reports[y + 1].replay.openBasis)
  BY <1>1 DEF JoinInv, Joins
<1>5. \A a : Key(g, a) = Key(h, a)
  BY DEF Key
<1> HIDE DEF g, h
<1>6. Leaves(g, Len(g), reports[y + 1].replay.openBasis)
  BY <1>2, <1>4, <1>5, LeavesSame
<1>7. reports[y].closeBasis = reports[y + 1].replay.openBasis
  BY <1>4, <1>6, LeavesOne
<1> QED BY <1>3, <1>7 DEF AddsUp

LEMMA ReportsStart == Init => OpenInv /\ TraceInv /\ ReportAddsUp /\ JoinInv
<1>1. NoReport.status # "made"
  BY DEF NoReport
<1> QED BY <1>1 DEF Init, OpenInv, TraceInv, ReportAddsUp, JoinInv, Made, Replaying

(* FR-018, for every method and history: each report's opening position, its year and its
   closing position add up, and what a year closes with the next one opens with, as long as
   both reports see the same scopes. *)
THEOREM ReportsTellOneStory == Spec => []ReportsAgree
<1>1. ASSUME IInv, IInv', HistInv, QtyInv, AccInv, OpenInv, TraceInv, ReportAddsUp, JoinInv, [Next]_vars
      PROVE  OpenInv' /\ TraceInv' /\ ReportAddsUp' /\ JoinInv'
  BY <1>1, OpenSteps, TraceSteps, SumsSteps, JoinSteps
<1>2. IInv /\ HistInv /\ ReportAddsUp /\ JoinInv => ReportsAgree
  BY JoinedIs DEF IInv, ReportsAgree
<1> QED BY <1>1, <1>2, ReportsStart, AccAlways, PTL DEF Spec

-----------------------------------------------------------------------------
(* The acquisitions and disposals of one scope after the first b activities. *)

QtyAt(h) == [i \in DOMAIN h |-> h[i].qty]
Buys(h, b, n, k) == {j \in (b + 1)..n : Key(h, h[j]) = k /\ IsBuy(h[j])}
Sales(h, b, n, k) == {j \in (b + 1)..n : Key(h, h[j]) = k /\ ~IsBuy(h[j])}
No(h, b, n, k) == Cardinality(Buys(h, b, n, k))
BoughtIn(h, b, n, k) == SumFunctionOnSet(QtyAt(h), Buys(h, b, n, k))
SoldIn(h, b, n, k) == SumFunctionOnSet(QtyAt(h), Sales(h, b, n, k))

Among(h, b, n, k, P) == {j \in (b + 1)..n : Key(h, h[j]) = k /\ j \in P}

Grows(h, b, n, k, P) ==
  LET S == Among(h, b, n, k, P)
      T == Among(h, b, n + 1, k, P)
      now == Key(h, h[n + 1]) = k /\ n + 1 \in P
  IN /\ IsFiniteSet(S) /\ Cardinality(S) \in Nat /\ SumFunctionOnSet(QtyAt(h), S) \in Nat
     /\ n + 1 \notin S /\ n + 1 \in DOMAIN h /\ h[n + 1].qty \in Nat \ {0}
     /\ T = IF now THEN S \cup {n + 1} ELSE S
     /\ Cardinality(T) = Cardinality(S) + IF now THEN 1 ELSE 0
     /\ SumFunctionOnSet(QtyAt(h), T) = SumFunctionOnSet(QtyAt(h), S) + IF now THEN h[n + 1].qty ELSE 0

\* Before any of them.
LEMMA ScopeStart ==
  ASSUME NEW h, NEW b \in Int, NEW k
  PROVE  /\ Buys(h, b, b, k) = {} /\ Sales(h, b, b, k) = {}
         /\ No(h, b, b, k) = 0 /\ BoughtIn(h, b, b, k) = 0 /\ SoldIn(h, b, b, k) = 0
<1>1. (b + 1)..b = {}
  OBVIOUS
<1>2. Buys(h, b, b, k) = {} /\ Sales(h, b, b, k) = {}
  BY <1>1 DEF Buys, Sales
<1> QED BY <1>2, SumEmpty, FS_EmptySet DEF No, BoughtIn, SoldIn

\* What the next activity adds, whatever set of numbers it is counted in.
LEMMA NextIn ==
  ASSUME NEW h \in Seq(Activities), NEW b \in Nat, NEW n \in b..(Len(h) - 1), NEW k, NEW P
  PROVE  Grows(h, b, n, k, P)
<1> DEFINE S == {j \in (b + 1)..n : Key(h, h[j]) = k /\ j \in P}
           T == {j \in (b + 1)..(n + 1) : Key(h, h[j]) = k /\ j \in P}
           now == Key(h, h[n + 1]) = k /\ n + 1 \in P
           x == n + 1
           f == QtyAt(h)
<1>1. /\ n \in Nat /\ b <= n /\ x \in DOMAIN h /\ 1..x \subseteq DOMAIN h /\ (b + 1)..n \subseteq DOMAIN h
      /\ x \notin S
  OBVIOUS
<1>2. \A i \in DOMAIN h : f[i] = h[i].qty /\ f[i] \in Nat /\ h[i].qty \in Nat \ {0}
  BY SignedIs DEF QtyAt
<1>3. IsFiniteSet(S) /\ S \subseteq DOMAIN h
  <2>1. IsFiniteSet((b + 1)..n)
    <3>1. b + 1 \in Int /\ n \in Int
      BY <1>1
    <3> QED BY <3>1, FS_Interval
  <2> QED BY <1>1, <2>1, FS_Subset
<1>4. T = IF now THEN S \cup {x} ELSE S
  <2>1. \A j : j \in (b + 1)..(n + 1) <=> j \in (b + 1)..n \/ j = n + 1
    BY <1>1
  <2> QED BY <2>1
<1>5. (\A y \in S : f[y] \in Int /\ f[y] >= 0) /\ f[x] \in Int
  <2>1. \A y \in S : f[y] \in Nat
    BY <1>2, <1>3
  <2> QED BY <1>1, <1>2, <2>1
<1> HIDE DEF S, T, f, now
<1>6. SumFunctionOnSet(f, S) \in Int /\ SumFunctionOnSet(f, S) >= 0 /\ Cardinality(S) \in Nat
  BY <1>3, <1>5, SumType, FS_CardinalityType
<1>7. SumFunctionOnSet(f, S \cup {x}) = SumFunctionOnSet(f, S) + f[x] /\ Cardinality(S \cup {x}) = Cardinality(S) + 1
  <2>1. SumFunctionOnSet(f, S \cup {x}) = SumFunctionOnSet(f, S) + f[x]
    BY <1>1, <1>3, <1>5, SumMore
  <2>2. Cardinality(S \cup {x}) = Cardinality(S) + 1
    BY <1>1, <1>3, FS_AddElement
  <2> QED BY <2>1, <2>2
<1>8. f[x] = h[x].qty /\ h[x].qty \in Nat \ {0}
  BY <1>1, <1>2
<1>9. Cardinality(T) = Cardinality(S) + IF now THEN 1 ELSE 0
  BY <1>4, <1>6, <1>7
<1>10. SumFunctionOnSet(f, T) = SumFunctionOnSet(f, S) + IF now THEN h[x].qty ELSE 0
  BY <1>4, <1>6, <1>7, <1>8
<1>11. Among(h, b, n, k, P) = S /\ Among(h, b, n + 1, k, P) = T
  BY DEF Among, S, T
<1> QED BY <1>1, <1>3, <1>4, <1>6, <1>8, <1>9, <1>10, <1>11 DEF Grows, f, now

Adds(h, b, n, k) ==
  LET a == h[n + 1]
      in == Key(h, a) = k
  IN /\ n + 1 \in DOMAIN h /\ a.qty \in Nat \ {0}
     /\ No(h, b, n, k) \in Nat /\ BoughtIn(h, b, n, k) \in Nat /\ SoldIn(h, b, n, k) \in Nat
     /\ Buys(h, b, n + 1, k) = IF in /\ IsBuy(a) THEN Buys(h, b, n, k) \cup {n + 1} ELSE Buys(h, b, n, k)
     /\ Sales(h, b, n + 1, k) = IF in /\ ~IsBuy(a) THEN Sales(h, b, n, k) \cup {n + 1} ELSE Sales(h, b, n, k)
     /\ No(h, b, n + 1, k) = No(h, b, n, k) + IF in /\ IsBuy(a) THEN 1 ELSE 0
     /\ BoughtIn(h, b, n + 1, k) = BoughtIn(h, b, n, k) + IF in /\ IsBuy(a) THEN a.qty ELSE 0
     /\ SoldIn(h, b, n + 1, k) = SoldIn(h, b, n, k) + IF in /\ ~IsBuy(a) THEN a.qty ELSE 0

LEMMA ScopeMore ==
  ASSUME NEW h \in Seq(Activities), NEW b \in Nat, NEW n \in b..(Len(h) - 1), NEW k
  PROVE  Adds(h, b, n, k)
<1> DEFINE P == {j \in 1..(n + 1) : IsBuy(h[j])}
           Q == {j \in 1..(n + 1) : ~IsBuy(h[j])}
           x == n + 1
<1>1. \A j \in (b + 1)..(n + 1) : (j \in P <=> IsBuy(h[j])) /\ (j \in Q <=> ~IsBuy(h[j]))
  OBVIOUS
<1>2. \A j : j \in (b + 1)..n => j \in (b + 1)..(n + 1)
  OBVIOUS
<1>3. n + 1 \in (b + 1)..(n + 1)
  OBVIOUS
<1> HIDE DEF P, Q
<1>4. /\ Among(h, b, n, k, P) = Buys(h, b, n, k)
      /\ Among(h, b, n + 1, k, P) = Buys(h, b, n + 1, k)
  BY <1>1, <1>2 DEF Buys, Among
<1>5. /\ Among(h, b, n, k, Q) = Sales(h, b, n, k)
      /\ Among(h, b, n + 1, k, Q) = Sales(h, b, n + 1, k)
  BY <1>1, <1>2 DEF Sales, Among
<1>6. (n + 1 \in P <=> IsBuy(h[n + 1])) /\ (n + 1 \in Q <=> ~IsBuy(h[n + 1]))
  BY <1>1, <1>3
<1>7. LET S == Buys(h, b, n, k)
          T == Buys(h, b, n + 1, k)
          now == Key(h, h[n + 1]) = k /\ n + 1 \in P
      IN /\ IsFiniteSet(S) /\ Cardinality(S) \in Nat /\ SumFunctionOnSet(QtyAt(h), S) \in Nat
         /\ n + 1 \notin S /\ n + 1 \in DOMAIN h /\ h[n + 1].qty \in Nat \ {0}
         /\ T = IF now THEN S \cup {n + 1} ELSE S
         /\ Cardinality(T) = Cardinality(S) + IF now THEN 1 ELSE 0
         /\ SumFunctionOnSet(QtyAt(h), T)
              = SumFunctionOnSet(QtyAt(h), S) + IF now THEN h[n + 1].qty ELSE 0
  <2>1. Grows(h, b, n, k, P)
    BY NextIn
  <2> QED BY <2>1, <1>4 DEF Grows
<1>8. LET S == Sales(h, b, n, k)
          T == Sales(h, b, n + 1, k)
          now == Key(h, h[n + 1]) = k /\ n + 1 \in Q
      IN /\ SumFunctionOnSet(QtyAt(h), S) \in Nat
         /\ T = IF now THEN S \cup {n + 1} ELSE S
         /\ SumFunctionOnSet(QtyAt(h), T)
              = SumFunctionOnSet(QtyAt(h), S) + IF now THEN h[n + 1].qty ELSE 0
  <2>1. Grows(h, b, n, k, Q)
    BY NextIn
  <2> QED BY <2>1, <1>5 DEF Grows
<1> QED BY <1>6, <1>7, <1>8 DEF Adds, No, BoughtIn, SoldIn

\* What the counts of a scope say of its activities up to the n-th.
Scoped(h, b, n, k) ==
  /\ No(h, b, n, k) \in Nat /\ BoughtIn(h, b, n, k) \in Nat /\ SoldIn(h, b, n, k) \in Nat
  /\ HeldIn(h, n, k) = HeldIn(h, b, k) + BoughtIn(h, b, n, k) - SoldIn(h, b, n, k)
  /\ \A m \in b..n : /\ No(h, b, m, k) \in Nat /\ No(h, b, m, k) <= No(h, b, n, k)
                     /\ BoughtIn(h, b, m, k) \in Nat /\ BoughtIn(h, b, m, k) <= BoughtIn(h, b, n, k)
                     /\ SoldIn(h, b, m, k) \in Nat /\ SoldIn(h, b, m, k) <= SoldIn(h, b, n, k)
  /\ \A r \in 1..No(h, b, n, k) : \E i \in Buys(h, b, n, k) : No(h, b, i, k) = r

LEMMA ScopedNext ==
  ASSUME NEW h \in Seq(Activities), NEW b \in Nat, NEW n \in b..(Len(h) - 1), NEW k, Scoped(h, b, n, k)
  PROVE  Scoped(h, b, n + 1, k)
<1> DEFINE a == h[n + 1]
           x == n + 1
           buy == IF Key(h, a) = k /\ IsBuy(a) THEN a.qty ELSE 0
           sale == IF Key(h, a) = k /\ ~IsBuy(a) THEN a.qty ELSE 0
           one == IF Key(h, a) = k /\ IsBuy(a) THEN 1 ELSE 0
<1>1. /\ x \in DOMAIN h /\ a.qty \in Nat \ {0}
      /\ No(h, b, n, k) \in Nat /\ BoughtIn(h, b, n, k) \in Nat /\ SoldIn(h, b, n, k) \in Nat
      /\ Buys(h, b, x, k) = IF Key(h, a) = k /\ IsBuy(a) THEN Buys(h, b, n, k) \cup {x} ELSE Buys(h, b, n, k)
      /\ No(h, b, x, k) = No(h, b, n, k) + one
      /\ BoughtIn(h, b, x, k) = BoughtIn(h, b, n, k) + buy
      /\ SoldIn(h, b, x, k) = SoldIn(h, b, n, k) + sale
  <2>1. Adds(h, b, n, k)
    BY ScopeMore
  <2> QED BY <2>1 DEF Adds
<1>2. buy \in Nat /\ sale \in Nat /\ one \in {0, 1}
  BY <1>1
<1>3. /\ HeldIn(h, n, k) \in Int
      /\ HeldIn(h, x, k) = HeldIn(h, n, k) + IF Key(h, a) = k THEN Signed(a) ELSE 0
  <2>1. n \in 0..(Len(h) - 1)
    OBVIOUS
  <2> QED BY <2>1, HeldMore
<1>4. (IF Key(h, a) = k THEN Signed(a) ELSE 0) = buy - sale
  <2>1. Signed(a) = IF IsBuy(a) THEN a.qty ELSE -a.qty
    BY <1>1, SignedIs
  <2> QED BY <1>1, <2>1
<1>5. HeldIn(h, b, k) \in Int
  <2>1. b \in 0..Len(h)
    OBVIOUS
  <2> QED BY <2>1, HeldType
<1>6. b <= n /\ n \in Int /\ b \in Int
  OBVIOUS
<1> HIDE DEF a, buy, sale, one, x
<1>7. No(h, b, x, k) \in Nat /\ BoughtIn(h, b, x, k) \in Nat /\ SoldIn(h, b, x, k) \in Nat
  <2>1. No(h, b, x, k) \in Nat
    <3> DEFINE v == No(h, b, n, k)
               w == No(h, b, x, k)
    <3>1. v \in Nat /\ one \in Nat /\ w = v + one
      BY <1>1, <1>2 DEF Scoped
    <3> HIDE DEF v, w
    <3> QED BY <3>1 DEF w
  <2>2. BoughtIn(h, b, x, k) \in Nat
    <3> DEFINE v == BoughtIn(h, b, n, k)
               w == BoughtIn(h, b, x, k)
    <3>1. v \in Nat /\ buy \in Nat /\ w = v + buy
      BY <1>1, <1>2 DEF Scoped
    <3> HIDE DEF v, w
    <3> QED BY <3>1 DEF w
  <2>3. SoldIn(h, b, x, k) \in Nat
    <3> DEFINE v == SoldIn(h, b, n, k)
               w == SoldIn(h, b, x, k)
    <3>1. v \in Nat /\ sale \in Nat /\ w = v + sale
      BY <1>1, <1>2 DEF Scoped
    <3> HIDE DEF v, w
    <3> QED BY <3>1 DEF w
  <2> QED BY <2>1, <2>2, <2>3
<1>8. HeldIn(h, x, k) = HeldIn(h, b, k) + BoughtIn(h, b, x, k) - SoldIn(h, b, x, k)
  <2>1. HeldIn(h, n, k) = HeldIn(h, b, k) + BoughtIn(h, b, n, k) - SoldIn(h, b, n, k)
    BY DEF Scoped
  <2>2. HeldIn(h, x, k) = HeldIn(h, n, k) + (buy - sale)
    BY <1>3, <1>4
  <2> DEFINE u == HeldIn(h, b, k)
             v == BoughtIn(h, b, n, k)
             w == SoldIn(h, b, n, k)
  <2>3. u \in Int /\ v \in Nat /\ w \in Nat /\ buy \in Nat /\ sale \in Nat
    BY <1>1, <1>2, <1>5 DEF Scoped
  <2>4. HeldIn(h, x, k) = (u + v - w) + (buy - sale)
    BY <2>1, <2>2
  <2>5. BoughtIn(h, b, x, k) = v + buy /\ SoldIn(h, b, x, k) = w + sale
    BY <1>1
  <2> HIDE DEF u, v, w
  <2>6. (u + v - w) + (buy - sale) = u + (v + buy) - (w + sale)
    BY <2>3
  <2> QED BY <2>4, <2>5, <2>6 DEF u
<1>9. \A m \in b..x : /\ No(h, b, m, k) \in Nat /\ No(h, b, m, k) <= No(h, b, x, k)
                      /\ BoughtIn(h, b, m, k) \in Nat /\ BoughtIn(h, b, m, k) <= BoughtIn(h, b, x, k)
                      /\ SoldIn(h, b, m, k) \in Nat /\ SoldIn(h, b, m, k) <= SoldIn(h, b, x, k)
  <2> SUFFICES ASSUME NEW m \in b..x
               PROVE  /\ No(h, b, m, k) \in Nat /\ No(h, b, m, k) <= No(h, b, x, k)
                      /\ BoughtIn(h, b, m, k) \in Nat /\ BoughtIn(h, b, m, k) <= BoughtIn(h, b, x, k)
                      /\ SoldIn(h, b, m, k) \in Nat /\ SoldIn(h, b, m, k) <= SoldIn(h, b, x, k)
    OBVIOUS
  <2>1. CASE m = x
    BY <1>7, <2>1
  <2>2. CASE m # x
    <3>1. m \in b..n
      BY <1>6, <2>2 DEF x
    <3>2. /\ No(h, b, m, k) \in Nat /\ No(h, b, m, k) <= No(h, b, n, k)
          /\ BoughtIn(h, b, m, k) \in Nat /\ BoughtIn(h, b, m, k) <= BoughtIn(h, b, n, k)
          /\ SoldIn(h, b, m, k) \in Nat /\ SoldIn(h, b, m, k) <= SoldIn(h, b, n, k)
      BY <3>1 DEF Scoped
    <3>3. No(h, b, m, k) <= No(h, b, x, k)
      <4> DEFINE u == No(h, b, m, k)
                 v == No(h, b, n, k)
                 w == No(h, b, x, k)
      <4>1. u \in Nat /\ v \in Nat /\ one \in Nat /\ u <= v /\ w = v + one
        BY <1>1, <1>2, <3>2
      <4> HIDE DEF u, v, w
      <4>2. u <= w
        BY <4>1
      <4> QED BY <4>2 DEF u, w
    <3>4. BoughtIn(h, b, m, k) <= BoughtIn(h, b, x, k)
      <4> DEFINE u == BoughtIn(h, b, m, k)
                 v == BoughtIn(h, b, n, k)
                 w == BoughtIn(h, b, x, k)
      <4>1. u \in Nat /\ v \in Nat /\ buy \in Nat /\ u <= v /\ w = v + buy
        BY <1>1, <1>2, <3>2
      <4> HIDE DEF u, v, w
      <4>2. u <= w
        BY <4>1
      <4> QED BY <4>2 DEF u, w
    <3>5. SoldIn(h, b, m, k) <= SoldIn(h, b, x, k)
      <4> DEFINE u == SoldIn(h, b, m, k)
                 v == SoldIn(h, b, n, k)
                 w == SoldIn(h, b, x, k)
      <4>1. u \in Nat /\ v \in Nat /\ sale \in Nat /\ u <= v /\ w = v + sale
        BY <1>1, <1>2, <3>2
      <4> HIDE DEF u, v, w
      <4>2. u <= w
        BY <4>1
      <4> QED BY <4>2 DEF u, w
    <3> QED BY <3>2, <3>3, <3>4, <3>5
  <2> QED BY <2>1, <2>2
<1>10. ASSUME NEW r \in 1..No(h, b, x, k) PROVE \E i \in Buys(h, b, x, k) : No(h, b, i, k) = r
  <2>1. CASE r \in 1..No(h, b, n, k)
    <3>1. PICK i \in Buys(h, b, n, k) : No(h, b, i, k) = r
      BY <2>1 DEF Scoped
    <3>2. i \in Buys(h, b, x, k)
      BY <1>1
    <3> QED BY <3>1, <3>2
  <2>2. CASE r \notin 1..No(h, b, n, k)
    <3>1. r = No(h, b, x, k) /\ one = 1
      <4> DEFINE N == No(h, b, n, k)
                 M == No(h, b, x, k)
      <4>1. N \in Nat /\ M = N + one /\ one \in {0, 1} /\ r \in 1..M /\ r \notin 1..N
        BY <1>1, <1>2, <2>2
      <4> HIDE DEF N, M
      <4>2. r = M /\ one = 1
        BY <4>1
      <4> QED BY <4>2 DEF M
    <3>2. x \in Buys(h, b, x, k)
      BY <1>1, <3>1 DEF one
    <3> QED BY <3>1, <3>2
  <2> QED BY <2>1, <2>2
<1> QED BY <1>7, <1>8, <1>9, <1>10 DEF Scoped, x

LEMMA ScopedIs ==
  ASSUME NEW h \in Seq(Activities), NEW b \in Nat, NEW n \in b..Len(h), NEW k
  PROVE  Scoped(h, b, n, k)
<1> DEFINE Bad == {m \in b..Len(h) : ~Scoped(h, b, m, k)}
<1>1. b \in 0..Len(h) /\ b \in Int /\ Len(h) \in Nat
  OBVIOUS
<1>2. Scoped(h, b, b, k)
  <2>1. /\ Buys(h, b, b, k) = {} /\ No(h, b, b, k) = 0 /\ BoughtIn(h, b, b, k) = 0 /\ SoldIn(h, b, b, k) = 0
    BY <1>1, ScopeStart
  <2>2. HeldIn(h, b, k) \in Int
    BY <1>1, HeldType
  <2>3. \A m \in b..b : m = b
    BY <1>1
  <2> QED BY <2>1, <2>2, <2>3 DEF Scoped
<1>3. ASSUME Bad # {} PROVE FALSE
  <2>1. Bad \in SUBSET Nat
    OBVIOUS
  <2>2. PICK m \in Bad : \A i \in Bad : m <= i
    <3> HIDE DEF Bad
    <3> QED BY <1>3, <2>1, LeastNumber
  <2>3. m \in b..Len(h) /\ ~Scoped(h, b, m, k) /\ m # b
    BY <1>2
  <2>4. m - 1 \in b..(Len(h) - 1) /\ m - 1 \in b..Len(h) /\ (m - 1) + 1 = m /\ m - 1 \notin Bad
    BY <1>1, <2>2, <2>3
  <2>5. Scoped(h, b, m - 1, k)
    BY <2>4
  <2>6. Scoped(h, b, (m - 1) + 1, k)
    <3> DEFINE l == m - 1
    <3>1. l \in b..(Len(h) - 1) /\ Scoped(h, b, l, k)
      BY <2>4, <2>5
    <3> HIDE DEF l
    <3>2. Scoped(h, b, l + 1, k)
      BY <3>1, ScopedNext
    <3> QED BY <3>2 DEF l
  <2> QED BY <2>3, <2>4, <2>6
<1> QED BY <1>3

\* An acquisition among the first n, its number and what was bought up to it.
LEMMA BuyAt ==
  ASSUME NEW h \in Seq(Activities), NEW b \in Nat, NEW n \in b..Len(h), NEW k, NEW i \in Buys(h, b, n, k)
  PROVE  /\ i \in (b + 1)..n /\ i \in DOMAIN h /\ i - 1 \in b..n /\ h[i].qty \in Nat \ {0}
         /\ Key(h, h[i]) = k /\ IsBuy(h[i])
         /\ No(h, b, i, k) = No(h, b, i - 1, k) + 1 /\ No(h, b, i - 1, k) \in Nat
         /\ No(h, b, i, k) \in 1..No(h, b, n, k) /\ No(h, b, n, k) \in Nat
         /\ BoughtIn(h, b, i, k) = BoughtIn(h, b, i - 1, k) + h[i].qty /\ BoughtIn(h, b, i - 1, k) \in Nat
         /\ BoughtIn(h, b, i, k) \in Nat /\ BoughtIn(h, b, i, k) <= BoughtIn(h, b, n, k)
<1> DEFINE l == i - 1
<1>1. i \in (b + 1)..n /\ Key(h, h[i]) = k /\ IsBuy(h[i])
  BY DEF Buys
<1>2. i \in DOMAIN h /\ l \in b..n /\ l \in b..(Len(h) - 1) /\ l + 1 = i /\ i \in b..n
  BY <1>1
<1> HIDE DEF l
<1>3. /\ h[i].qty \in Nat \ {0} /\ No(h, b, l, k) \in Nat /\ BoughtIn(h, b, l, k) \in Nat
      /\ No(h, b, i, k) = No(h, b, l, k) + 1 /\ BoughtIn(h, b, i, k) = BoughtIn(h, b, l, k) + h[i].qty
  <2>1. Adds(h, b, l, k)
    BY <1>2, ScopeMore
  <2> QED BY <1>1, <1>2, <2>1 DEF Adds
<1>4. /\ No(h, b, n, k) \in Nat /\ No(h, b, i, k) \in Nat /\ No(h, b, i, k) <= No(h, b, n, k)
      /\ BoughtIn(h, b, i, k) \in Nat /\ BoughtIn(h, b, i, k) <= BoughtIn(h, b, n, k)
  BY <1>2, ScopedIs DEF Scoped
<1> QED BY <1>1, <1>2, <1>3, <1>4 DEF l

\* Of two acquisitions the later has the higher number, and its own units come after.
LEMMA BuysOrdered ==
  ASSUME NEW h \in Seq(Activities), NEW b \in Nat, NEW n \in b..Len(h), NEW k,
         NEW i \in Buys(h, b, n, k), NEW j \in Buys(h, b, n, k), i < j
  PROVE  /\ No(h, b, i, k) < No(h, b, j, k)
         /\ BoughtIn(h, b, i, k) <= BoughtIn(h, b, j, k) - h[j].qty
<1> DEFINE l == j - 1
<1>0. /\ i \in (b + 1)..n /\ j \in (b + 1)..n /\ No(h, b, j, k) = No(h, b, j - 1, k) + 1
      /\ BoughtIn(h, b, j, k) = BoughtIn(h, b, j - 1, k) + h[j].qty /\ h[j].qty \in Nat
  <2>1. i \in (b + 1)..n /\ j \in (b + 1)..n
    BY DEF Buys
  <2>2. No(h, b, j, k) = No(h, b, j - 1, k) + 1
    BY BuyAt
  <2>3. BoughtIn(h, b, j, k) = BoughtIn(h, b, j - 1, k) + h[j].qty
    BY BuyAt
  <2>4. h[j].qty \in Nat \ {0}
    BY BuyAt
  <2> QED BY <2>1, <2>2, <2>3, <2>4
<1>1. /\ i \in (b + 1)..n /\ j \in (b + 1)..n /\ l \in b..n /\ No(h, b, j, k) = No(h, b, l, k) + 1
      /\ BoughtIn(h, b, j, k) = BoughtIn(h, b, l, k) + h[j].qty /\ h[j].qty \in Nat
  BY <1>0
<1>2. l \in b..Len(h) /\ i \in b..l
  BY <1>1
<1> HIDE DEF l
<1>3. /\ No(h, b, i, k) \in Nat /\ No(h, b, l, k) \in Nat /\ No(h, b, i, k) <= No(h, b, l, k)
      /\ BoughtIn(h, b, i, k) \in Nat /\ BoughtIn(h, b, l, k) \in Nat /\ BoughtIn(h, b, i, k) <= BoughtIn(h, b, l, k)
  BY <1>2, ScopedIs DEF Scoped
<1> QED BY <1>1, <1>3

LEMMA SameBuy ==
  ASSUME NEW h \in Seq(Activities), NEW b \in Nat, NEW n \in b..Len(h), NEW k,
         NEW i \in Buys(h, b, n, k), NEW j \in Buys(h, b, n, k)
  PROVE  /\ No(h, b, i, k) = No(h, b, j, k) => i = j
         /\ No(h, b, i, k) < No(h, b, j, k) => i < j
<1>1. /\ i \in Int /\ j \in Int /\ No(h, b, i, k) \in Int /\ No(h, b, j, k) \in Int
  <2>1. i \in (b + 1)..n /\ j \in (b + 1)..n /\ No(h, b, i, k) \in 1..No(h, b, n, k)
        /\ No(h, b, j, k) \in 1..No(h, b, n, k)
    BY BuyAt
  <2> QED BY <2>1
<1>2. i < j => No(h, b, i, k) < No(h, b, j, k)
  BY BuysOrdered
<1>3. j < i => No(h, b, j, k) < No(h, b, i, k)
  BY BuysOrdered
<1> QED BY <1>1, <1>2, <1>3

-----------------------------------------------------------------------------
(* Lots that are taken oldest first.                                       *)

LEMMA ClampIs ==
  ASSUME NEW x \in Int, NEW most \in Nat
  PROVE  Clamp(x, most) = IF x <= 0 THEN 0 ELSE IF x <= most THEN x ELSE most
<1>1. Min({x, most}) = IF x <= most THEN x ELSE most
  BY MinOfTwo
<1>2. Min({x, most}) \in Int
  BY <1>1
<1> DEFINE m == Min({x, most})
<1>3. Max({0, m}) = IF 0 <= m THEN m ELSE 0
  <2> HIDE DEF m
  <2> QED BY <1>2, MaxOfTwo DEF m
<1> QED BY <1>1, <1>3 DEF Clamp

\* The lots of scope k after n activities, b of them before its first lot, when d units are gone.
OldestGone(lots, h, b, n, k, d) ==
  /\ Len(lots) = No(h, b, n, k)
  /\ \A i \in Buys(h, b, n, k) : lots[No(h, b, i, k)].qty = Clamp(BoughtIn(h, b, i, k) - d, h[i].qty)

\* The lot of an acquisition.
LotOf(lots, h, b, n, k, d, i) ==
  LET r == No(h, b, i, k)
      q == lots[r].qty
      x == BoughtIn(h, b, i - 1, k) - d
  IN /\ r \in DOMAIN lots /\ r = No(h, b, i - 1, k) + 1 /\ No(h, b, i - 1, k) \in Nat
     /\ h[i].qty \in Nat \ {0} /\ x \in Int
     /\ BoughtIn(h, b, i, k) - d = x + h[i].qty
     /\ q = IF x + h[i].qty <= 0 THEN 0 ELSE IF x <= 0 THEN x + h[i].qty ELSE h[i].qty

LEMMA LotIs ==
  ASSUME NEW h \in Seq(Activities), NEW b \in Nat, NEW n \in b..Len(h), NEW k, NEW d \in Int,
         NEW lots \in Seq(Lots), OldestGone(lots, h, b, n, k, d), NEW i \in Buys(h, b, n, k)
  PROVE  LotOf(lots, h, b, n, k, d, i)
<1> DEFINE r == No(h, b, i, k)
           B == BoughtIn(h, b, i, k)
           A == BoughtIn(h, b, i - 1, k)
           q == h[i].qty
           s == No(h, b, i - 1, k)
<1>1. q \in Nat \ {0}
  BY BuyAt
<1>2. r = s + 1
  BY BuyAt
<1>3. s \in Nat
  BY BuyAt
<1>4. r \in 1..No(h, b, n, k)
  BY BuyAt
<1>5. B = A + q
  BY BuyAt
<1>6. A \in Nat
  BY BuyAt
<1>7. Len(lots) = No(h, b, n, k) /\ lots[r].qty = Clamp(B - d, q)
  BY DEF OldestGone
<1>8. r \in DOMAIN lots
  BY <1>4, <1>7
<1> HIDE DEF r, B, A, q, s
<1>9. Clamp(B - d, q) = IF B - d <= 0 THEN 0 ELSE IF B - d <= q THEN B - d ELSE q
  <2>1. B - d \in Int /\ q \in Nat
    BY <1>1, <1>5, <1>6
  <2> QED BY <2>1, ClampIs
<1> DEFINE x == A - d
<1>10. x \in Int /\ B - d = x + q
  BY <1>1, <1>5, <1>6
<1> HIDE DEF x
<1>11. Clamp(B - d, q) = IF x + q <= 0 THEN 0 ELSE IF x <= 0 THEN x + q ELSE q
  BY <1>1, <1>9, <1>10
<1> QED BY <1>1, <1>2, <1>3, <1>7, <1>8, <1>10, <1>11 DEF LotOf, r, B, A, q, s, x

\* Conversely, so many lots with such quantities.
LEMMA LotsAre ==
  ASSUME NEW h \in Seq(Activities), NEW b \in Nat, NEW n \in b..Len(h), NEW k, NEW d \in Int,
         NEW lots \in Seq(Lots), Len(lots) = No(h, b, n, k),
         \A i \in Buys(h, b, n, k) :
           LET x == BoughtIn(h, b, i - 1, k) - d
           IN lots[No(h, b, i, k)].qty =
                IF x + h[i].qty <= 0 THEN 0 ELSE IF x <= 0 THEN x + h[i].qty ELSE h[i].qty
  PROVE  OldestGone(lots, h, b, n, k, d)
<1> SUFFICES ASSUME NEW i \in Buys(h, b, n, k)
             PROVE  lots[No(h, b, i, k)].qty = Clamp(BoughtIn(h, b, i, k) - d, h[i].qty)
  BY DEF OldestGone
<1> DEFINE B == BoughtIn(h, b, i, k)
           A == BoughtIn(h, b, i - 1, k)
           q == h[i].qty
           l == lots[No(h, b, i, k)].qty
<1>1. q \in Nat \ {0}
  BY BuyAt
<1>2. B = A + q
  BY BuyAt
<1>3. A \in Nat
  BY BuyAt
<1>4. l = IF A - d + q <= 0 THEN 0 ELSE IF A - d <= 0 THEN A - d + q ELSE q
  OBVIOUS
<1> HIDE DEF B, A, q, l
<1>5. Clamp(B - d, q) = IF B - d <= 0 THEN 0 ELSE IF B - d <= q THEN B - d ELSE q
  BY <1>1, <1>2, <1>3, ClampIs
<1>6. l = Clamp(B - d, q)
  BY <1>1, <1>2, <1>3, <1>4, <1>5
<1> QED BY <1>6 DEF l, B, q

\* What the lots hold of the first m activities.
FirstLots(lots, h, b, m, k, d) ==
  SumFunctionOnSet(QtyOf(lots), 1..No(h, b, m, k)) =
    IF BoughtIn(h, b, m, k) <= d THEN 0 ELSE BoughtIn(h, b, m, k) - d

LEMMA FirstLotsNext ==
  ASSUME NEW h \in Seq(Activities), NEW b \in Nat, NEW n \in b..Len(h), NEW k, NEW d \in Nat,
         NEW lots \in Seq(Lots), OldestGone(lots, h, b, n, k, d),
         NEW m \in b..(n - 1), FirstLots(lots, h, b, m, k, d)
  PROVE  FirstLots(lots, h, b, m + 1, k, d)
<1> DEFINE x == m + 1
           N == No(h, b, m, k)
           B == BoughtIn(h, b, m, k)
           a == h[x]
           in == Key(h, a) = k /\ IsBuy(a)
           q == a.qty
<1>1. /\ m \in b..(Len(h) - 1) /\ x \in (b + 1)..n /\ x \in b..n /\ x - 1 = m
  OBVIOUS
<1>2. Adds(h, b, m, k)
  BY <1>1, ScopeMore
<1>3. /\ N \in Nat /\ B \in Nat /\ q \in Nat \ {0}
      /\ No(h, b, x, k) = N + IF in THEN 1 ELSE 0
      /\ BoughtIn(h, b, x, k) = B + IF in THEN q ELSE 0
  BY <1>2 DEF Adds
<1>4. SumFunctionOnSet(QtyOf(lots), 1..N) = IF B <= d THEN 0 ELSE B - d
  BY DEF FirstLots
<1>5. CASE ~in
  BY <1>3, <1>4, <1>5 DEF FirstLots
<1>6. CASE in
  <2>1. x \in Buys(h, b, n, k)
    BY <1>1, <1>6 DEF Buys
  <2>2. LotOf(lots, h, b, n, k, d, x)
    BY <2>1, LotIs
  <2>3. /\ N + 1 \in DOMAIN lots
        /\ lots[N + 1].qty = IF (B - d) + q <= 0 THEN 0 ELSE IF B - d <= 0 THEN (B - d) + q ELSE q
    <3>1. No(h, b, x, k) = N + 1 /\ BoughtIn(h, b, x - 1, k) = B
      BY <1>1, <1>3, <1>6
    <3> QED BY <2>2, <3>1 DEF LotOf
  <2>4. \A i \in 1..(N + 1) : QtyOf(lots)[i] \in Int
    <3>1. 1..(N + 1) \subseteq DOMAIN lots
      BY <1>3, <2>3
    <3> QED BY <3>1, LotValues
  <2>5. QtyOf(lots)[N + 1] = lots[N + 1].qty
    BY <2>3, LotValues
  <2>8. No(h, b, x, k) = N + 1 /\ BoughtIn(h, b, x, k) = B + q
    BY <1>3, <1>6
  <2> HIDE DEF N, B, q, in, a, x
  <2>6. SumFunctionOnSet(QtyOf(lots), 1..(N + 1)) = SumFunctionOnSet(QtyOf(lots), 1..N) + QtyOf(lots)[N + 1]
    BY <1>3, <2>4, PrefixSum
  <2>7. SumFunctionOnSet(QtyOf(lots), 1..(N + 1)) = IF B + q <= d THEN 0 ELSE B + q - d
    BY <1>3, <1>4, <2>3, <2>5, <2>6
  <2>9. SumFunctionOnSet(QtyOf(lots), 1..No(h, b, x, k))
          = IF BoughtIn(h, b, x, k) <= d THEN 0 ELSE BoughtIn(h, b, x, k) - d
    BY <1>3, <2>7, <2>8
  <2> QED BY <2>9 DEF FirstLots, x
<1> QED BY <1>5, <1>6

LEMMA FirstLotsIs ==
  ASSUME NEW h \in Seq(Activities), NEW b \in Nat, NEW n \in b..Len(h), NEW k, NEW d \in Nat,
         NEW lots \in Seq(Lots), OldestGone(lots, h, b, n, k, d), NEW m \in b..n
  PROVE  FirstLots(lots, h, b, m, k, d)
<1> DEFINE Bad == {j \in b..n : ~FirstLots(lots, h, b, j, k, d)}
<1>1. b \in Int /\ n \in Int /\ b <= n
  OBVIOUS
<1>2. FirstLots(lots, h, b, b, k, d)
  <2>1. No(h, b, b, k) = 0 /\ BoughtIn(h, b, b, k) = 0
    BY ScopeStart
  <2>2. 1..0 = {}
    OBVIOUS
  <2> QED BY <2>1, <2>2, SumEmpty DEF FirstLots
<1>3. ASSUME Bad # {} PROVE FALSE
  <2>1. Bad \in SUBSET Nat
    OBVIOUS
  <2>2. PICK j \in Bad : \A i \in Bad : j <= i
    <3> HIDE DEF Bad
    <3> QED BY <1>3, <2>1, LeastNumber
  <2> DEFINE l == j - 1
  <2>3. j \in b..n /\ ~FirstLots(lots, h, b, j, k, d) /\ j # b
    BY <1>2
  <2>4. l \in b..(n - 1) /\ l \in b..n /\ l + 1 = j /\ l \notin Bad
    BY <1>1, <2>2, <2>3
  <2>5. FirstLots(lots, h, b, l, k, d)
    BY <2>4
  <2> HIDE DEF l, Bad
  <2>6. FirstLots(lots, h, b, l + 1, k, d)
    BY <2>4, <2>5, FirstLotsNext
  <2> QED BY <2>3, <2>4, <2>6
<1> QED BY <1>3

\* So the queue holds what was bought and is not gone.
LEMMA LotsHold ==
  ASSUME NEW h \in Seq(Activities), NEW b \in Nat, NEW n \in b..Len(h), NEW k, NEW d \in Nat,
         NEW lots \in Seq(Lots), OldestGone(lots, h, b, n, k, d)
  PROVE  /\ BoughtIn(h, b, n, k) \in Nat
         /\ SumFunction(QtyOf(lots)) =
              IF BoughtIn(h, b, n, k) <= d THEN 0 ELSE BoughtIn(h, b, n, k) - d
<1> DEFINE B == BoughtIn(h, b, n, k)
           N == No(h, b, n, k)
<1>1. n \in b..n
  OBVIOUS
<1>2. FirstLots(lots, h, b, n, k, d)
  BY <1>1, FirstLotsIs
<1>3. SumFunctionOnSet(QtyOf(lots), 1..N) = IF B <= d THEN 0 ELSE B - d
  BY <1>2 DEF FirstLots
<1>4. B \in Nat
  BY ScopedIs DEF Scoped
<1>5. Len(lots) = N
  BY DEF OldestGone
<1>6. SumFunction(QtyOf(lots)) = SumFunctionOnSet(QtyOf(lots), DOMAIN lots)
  BY DEF SumFunction, QtyOf
<1> HIDE DEF B, N
<1>7. DOMAIN lots = 1..N
  BY <1>5
<1>8. SumFunction(QtyOf(lots)) = SumFunctionOnSet(QtyOf(lots), 1..N)
  BY <1>6, <1>7
<1>9. SumFunction(QtyOf(lots)) = IF B <= d THEN 0 ELSE B - d
  BY <1>3, <1>8
<1> QED BY <1>4, <1>9 DEF B

\* An activity that is no acquisition of the scope adds no lot.
LEMMA GoneStays ==
  ASSUME NEW h \in Seq(Activities), NEW b \in Nat, NEW n \in b..(Len(h) - 1), NEW k, NEW d, NEW lots,
         ~(Key(h, h[n + 1]) = k /\ IsBuy(h[n + 1])), OldestGone(lots, h, b, n, k, d)
  PROVE  OldestGone(lots, h, b, n + 1, k, d)
<1>1. Buys(h, b, n + 1, k) = Buys(h, b, n, k)
  <2>1. Adds(h, b, n, k)
    BY ScopeMore
  <2> QED BY <2>1 DEF Adds
<1> QED BY <1>1 DEF OldestGone, No

\* An acquisition is a new lot, untouched as long as no more is gone than was bought before.
LEMMA GoneBought ==
  ASSUME NEW h \in Seq(Activities), NEW b \in Nat, NEW n \in b..(Len(h) - 1), NEW k, NEW d \in Nat,
         NEW lots \in Seq(Lots), OldestGone(lots, h, b, n, k, d), d <= BoughtIn(h, b, n, k),
         Key(h, h[n + 1]) = k, IsBuy(h[n + 1]), NEW l \in Lots, l.qty = h[n + 1].qty
  PROVE  OldestGone(Append(lots, l), h, b, n + 1, k, d)
<1> DEFINE x == n + 1
           N == No(h, b, n, k)
           B == BoughtIn(h, b, n, k)
           q == h[x].qty
           more == Append(lots, l)
<1>1. /\ N \in Nat /\ B \in Nat /\ q \in Nat \ {0} /\ x \in DOMAIN h
      /\ Buys(h, b, x, k) = Buys(h, b, n, k) \cup {x}
      /\ No(h, b, x, k) = N + 1 /\ BoughtIn(h, b, x, k) = B + q
  BY ScopeMore DEF Adds
<1>2. x \in b..Len(h) /\ n \in b..Len(h) /\ x - 1 = n
  OBVIOUS
<1>3. /\ Len(lots) = N /\ more \in Seq(Lots) /\ Len(more) = N + 1 /\ more[N + 1] = l
      /\ \A r \in 1..N : more[r] = lots[r]
  <2>1. Len(lots) = N
    BY DEF OldestGone
  <2> QED BY <1>1, <2>1
<1> HIDE DEF N, B, q, more, x
<1>4. ASSUME NEW i \in Buys(h, b, x, k)
      PROVE  LET y == BoughtIn(h, b, i - 1, k) - d
             IN more[No(h, b, i, k)].qty =
                  IF y + h[i].qty <= 0 THEN 0 ELSE IF y <= 0 THEN y + h[i].qty ELSE h[i].qty
  <2>1. CASE i = x
    <3>1. BoughtIn(h, b, i - 1, k) = B /\ No(h, b, i, k) = N + 1 /\ h[i].qty = q /\ l.qty = q /\ d <= B
      BY <1>1, <1>2, <2>1 DEF B, q, x
    <3> QED BY <1>1, <1>3, <3>1, SMTT(20)
  <2>2. CASE i # x
    <3>1. i \in Buys(h, b, n, k)
      BY <1>1, <2>2
    <3>2. LotOf(lots, h, b, n, k, d, i)
      BY <1>2, <3>1, LotIs
    <3>3. No(h, b, i, k) \in 1..N
      BY <1>2, <3>1, BuyAt DEF N
    <3>4. more[No(h, b, i, k)] = lots[No(h, b, i, k)]
      BY <1>3, <3>3
    <3> QED BY <3>2, <3>4 DEF LotOf
  <2> QED BY <2>1, <2>2
<1>5. Len(more) = No(h, b, x, k)
  BY <1>1, <1>3
<1>6. OldestGone(more, h, b, x, k, d)
  BY <1>2, <1>3, <1>4, <1>5, LotsAre
<1> QED BY <1>6 DEF more, x

\* What is taken from the oldest open lot is the oldest that is left.
LEMMA GoneTaken ==
  ASSUME NEW h \in Seq(Activities), NEW b \in Nat, NEW n \in b..Len(h), NEW k, NEW d \in Nat,
         NEW lots \in Seq(Lots), OldestGone(lots, h, b, n, k, d),
         NEW r \in DOMAIN lots, lots[r].qty > 0, \A s \in DOMAIN lots : s < r => lots[s].qty = 0,
         NEW t \in Nat, t <= lots[r].qty, NEW more \in Seq(Lots), DOMAIN more = DOMAIN lots,
         more[r].qty = lots[r].qty - t, \A s \in DOMAIN lots \ {r} : more[s] = lots[s]
  PROVE  OldestGone(more, h, b, n, k, d + t)
<1>1. Len(lots) = No(h, b, n, k) /\ Len(more) = No(h, b, n, k) /\ r \in 1..No(h, b, n, k)
  <2>1. Len(lots) = No(h, b, n, k)
    BY DEF OldestGone
  <2> QED BY <2>1
<1>2. PICK j \in Buys(h, b, n, k) : No(h, b, j, k) = r
  <2>1. Scoped(h, b, n, k)
    BY ScopedIs
  <2> QED BY <1>1, <2>1 DEF Scoped
<1>3. LotOf(lots, h, b, n, k, d, j)
  BY <1>2, LotIs
<1> DEFINE A == BoughtIn(h, b, j - 1, k) - d
           q == h[j].qty
<1>4. /\ q \in Nat \ {0} /\ A \in Int /\ BoughtIn(h, b, j, k) - d = A + q
      /\ lots[r].qty = IF A + q <= 0 THEN 0 ELSE IF A <= 0 THEN A + q ELSE q
      /\ r = No(h, b, j - 1, k) + 1
  BY <1>2, <1>3 DEF LotOf
<1>5. A <= 0
  <2>1. j - 1 \in b..n
    BY BuyAt
  <2>2. FirstLots(lots, h, b, j - 1, k, d)
    BY <2>1, FirstLotsIs
  <2> DEFINE f == QtyOf(lots)
             S == 1..No(h, b, j - 1, k)
  <2>3. No(h, b, j - 1, k) \in Nat
    BY BuyAt
  <2>4. \A s \in S : s \in DOMAIN lots /\ s < r
    BY <1>1, <1>4, <2>3, SMTT(20)
  <2>5. \A s \in S : f[s] = 0
    BY <2>4, LotValues
  <2>6. IsFiniteSet(S)
    BY <2>3, FS_Interval
  <2> HIDE DEF f
  <2>7. SumFunctionOnSet(f, S) = SumFunctionOnSet(f, {})
    <3> HIDE DEF S
    <3> QED BY <2>5, <2>6, SumZeros
  <2>8. SumFunctionOnSet(f, S) = 0
    BY <2>7, SumEmpty
  <2>9. SumFunctionOnSet(f, S) = IF BoughtIn(h, b, j - 1, k) <= d THEN 0 ELSE BoughtIn(h, b, j - 1, k) - d
    BY <2>2 DEF FirstLots, f
  <2>10. BoughtIn(h, b, j - 1, k) \in Nat
    BY BuyAt
  <2> QED BY <2>8, <2>9, <2>10
<1>6. lots[r].qty = A + q /\ A + q > 0
  BY <1>4, <1>5
<1> HIDE DEF A, q
<1>7. ASSUME NEW i \in Buys(h, b, n, k)
      PROVE  LET x == BoughtIn(h, b, i - 1, k) - (d + t)
             IN more[No(h, b, i, k)].qty =
                  IF x + h[i].qty <= 0 THEN 0 ELSE IF x <= 0 THEN x + h[i].qty ELSE h[i].qty
  <2> DEFINE C == BoughtIn(h, b, i - 1, k)
             p == h[i].qty
             s == No(h, b, i, k)
  <2>1. /\ s \in DOMAIN lots /\ p \in Nat \ {0} /\ C - d \in Int
        /\ BoughtIn(h, b, i, k) - d = (C - d) + p
        /\ lots[s].qty = IF (C - d) + p <= 0 THEN 0 ELSE IF C - d <= 0 THEN (C - d) + p ELSE p
    BY LotIs, SMTT(20) DEF LotOf
  <2>2. C \in Nat
    BY BuyAt
  <2>3. CASE s = r
    <3>1. i = j
      BY <1>2, <2>3, SameBuy
    <3>2. C - d = A /\ p = q
      BY <3>1 DEF A, q
    <3> HIDE DEF C, p, s
    <3>3. more[s].qty = A + q - t /\ C - (d + t) = A - t
      BY <1>4, <1>6, <2>2, <2>3, <3>2
    <3>4. A - t <= 0 /\ A \in Int /\ q \in Nat /\ t <= A + q
      BY <1>4, <1>5, <1>6
    <3>5. more[s].qty = IF (C - (d + t)) + p <= 0 THEN 0 ELSE IF C - (d + t) <= 0 THEN (C - (d + t)) + p ELSE p
      BY <3>2, <3>3, <3>4
    <3> QED BY <3>5 DEF C, p, s
  <2>4. CASE s < r
    <3>1. lots[s].qty = 0 /\ more[s] = lots[s]
      BY <2>1, <2>4
    <3> HIDE DEF C, p, s
    <3>2. (C - d) + p <= 0
      BY <2>1, <2>2, <3>1
    <3>3. more[s].qty = IF (C - (d + t)) + p <= 0 THEN 0 ELSE IF C - (d + t) <= 0 THEN (C - (d + t)) + p ELSE p
      BY <2>1, <2>2, <3>1, <3>2
    <3> QED BY <3>3 DEF C, p, s
  <2>5. CASE r < s
    <3>1. j < i
      BY <1>2, <2>5, SameBuy
    <3>2. BoughtIn(h, b, j, k) <= BoughtIn(h, b, i, k) - h[i].qty
      BY <3>1, BuysOrdered
    <3>3. more[s] = lots[s]
      BY <1>1, <2>1, <2>5
    <3>4. BoughtIn(h, b, j, k) \in Nat
      BY BuyAt
    <3>5. BoughtIn(h, b, i, k) \in Nat
      BY BuyAt
    <3> HIDE DEF C, p, s
    <3>6. A + q <= C - d
      <4>1. BoughtIn(h, b, j, k) - d = A + q
        BY <1>4
      <4>2. BoughtIn(h, b, i, k) - d = (C - d) + p /\ p \in Nat
        BY <2>1
      <4>3. BoughtIn(h, b, j, k) <= BoughtIn(h, b, i, k) - p
        BY <3>2 DEF p
      <4> QED BY <2>2, <3>4, <3>5, <4>1, <4>2, <4>3
    <3>7. C - (d + t) >= 0 /\ C - d > 0
      BY <1>4, <1>6, <2>2, <3>6
    <3>8. more[s].qty = IF (C - (d + t)) + p <= 0 THEN 0 ELSE IF C - (d + t) <= 0 THEN (C - (d + t)) + p ELSE p
      <4> DEFINE y == C - (d + t)
      <4>1. more[s].qty = p /\ p \in Nat /\ y >= 0 /\ y \in Int /\ p > 0
        BY <2>1, <2>2, <3>3, <3>7
      <4> HIDE DEF y
      <4>2. more[s].qty = IF y + p <= 0 THEN 0 ELSE IF y <= 0 THEN y + p ELSE p
        BY <4>1
      <4> QED BY <4>2 DEF y
    <3> QED BY <3>8 DEF C, p, s
  <2>6. s \in Int /\ r \in Int
    BY <1>1, <2>1
  <2> QED BY <2>3, <2>4, <2>5, <2>6
<1>8. d + t \in Int
  OBVIOUS
<1> QED BY <1>1, <1>7, <1>8, LotsAre

\* What the provenance of a pool gives up.
LEMMA GoneConsumed ==
  ASSUME NEW h \in Seq(Activities), NEW b \in Nat, NEW n \in b..Len(h), NEW k, NEW d \in Nat,
         NEW lots \in Seq(Lots), OldestGone(lots, h, b, n, k, d), NEW q \in Nat
  PROVE  OldestGone(OldestConsumed(lots, q), h, b, n, k, d + q)
<1> DEFINE more == OldestConsumed(lots, q)
<1>1. more \in Seq(Lots) /\ DOMAIN more = DOMAIN lots
  BY OldestType
<1>2. Len(lots) = No(h, b, n, k)
  BY DEF OldestGone
<1>3. \A r \in DOMAIN lots :
        more[r].qty = lots[r].qty
                      - Max({0, Min({lots[r].qty, q - SumFunctionOnSet(QtyOf(lots), 1..(r - 1))})})
  <2> SUFFICES ASSUME NEW r \in DOMAIN lots
               PROVE more[r].qty = lots[r].qty
                      - Max({0, Min({lots[r].qty, q - SumFunctionOnSet(QtyOf(lots), 1..(r - 1))})})
    OBVIOUS
  <2> DEFINE m == Max({0, Min({lots[r].qty, q - SumFunctionOnSet(QtyOf(lots), 1..(r - 1))})})
  <2>1. more[r] = [lots[r] EXCEPT !.qty = lots[r].qty - m]
    BY DEF OldestConsumed
  <2>2. lots[r] \in Lots
    OBVIOUS
  <2> DEFINE rest == lots[r].qty - m
  <2>3. more[r] = [lots[r] EXCEPT !.qty = rest]
    BY <2>1
  <2> HIDE DEF rest, more
  <2>4. more[r].qty = rest
    BY <2>2, <2>3 DEF Lots
  <2> QED BY <2>4 DEF rest
<1> HIDE DEF more
<1>4. Len(more) = No(h, b, n, k)
  BY <1>1, <1>2
<1>5. ASSUME NEW i \in Buys(h, b, n, k)
      PROVE  LET x == BoughtIn(h, b, i - 1, k) - (d + q)
             IN more[No(h, b, i, k)].qty =
                  IF x + h[i].qty <= 0 THEN 0 ELSE IF x <= 0 THEN x + h[i].qty ELSE h[i].qty
  <2> DEFINE C == BoughtIn(h, b, i - 1, k)
             p == h[i].qty
             s == No(h, b, i, k)
             ahead == SumFunctionOnSet(QtyOf(lots), 1..(s - 1))
             all == lots[s].qty
  <2>1. LotOf(lots, h, b, n, k, d, i)
    BY LotIs
  <2>2. /\ s \in DOMAIN lots /\ p \in Nat \ {0} /\ C - d \in Int /\ s = No(h, b, i - 1, k) + 1
        /\ No(h, b, i - 1, k) \in Nat
        /\ all = IF (C - d) + p <= 0 THEN 0 ELSE IF C - d <= 0 THEN (C - d) + p ELSE p
    BY <2>1 DEF LotOf
  <2>3. C \in Nat
    BY BuyAt
  <2>4. ahead = IF C <= d THEN 0 ELSE C - d
    <3>1. i - 1 \in b..n
      BY BuyAt
    <3>2. FirstLots(lots, h, b, i - 1, k, d)
      BY <3>1, FirstLotsIs
    <3>3. s - 1 = No(h, b, i - 1, k)
      BY <2>2
    <3> QED BY <3>2, <3>3 DEF FirstLots
  <2>5. more[s].qty = all - Max({0, Min({all, q - ahead})})
    BY <1>3, <2>2
  <2> HIDE DEF C, p, s, ahead, all
  <2>6. all \in Nat /\ ahead \in Nat
    BY <2>2, <2>3, <2>4
  <2> DEFINE m == Min({all, q - ahead})
  <2>7. m = IF all <= q - ahead THEN all ELSE q - ahead
    BY <2>6, MinOfTwo
  <2> HIDE DEF m
  <2>8. Max({0, m}) = IF 0 <= m THEN m ELSE 0
    <3>1. m \in Int
      BY <2>6, <2>7
    <3> QED BY <3>1, MaxOfTwo
  <2>9. more[s].qty = all - IF 0 <= m THEN m ELSE 0
    BY <2>5, <2>8 DEF m
  <2>10. more[s].qty = IF (C - (d + q)) + p <= 0 THEN 0 ELSE IF C - (d + q) <= 0 THEN (C - (d + q)) + p ELSE p
    BY <2>2, <2>3, <2>4, <2>6, <2>7, <2>9
  <2> QED BY <2>10 DEF C, p, s
<1>6. d + q \in Int
  OBVIOUS
<1>7. OldestGone(more, h, b, n, k, d + q)
  BY <1>1, <1>4, <1>5, <1>6, LotsAre
<1> QED BY <1>7 DEF more

-----------------------------------------------------------------------------
(* When a disposal could come from two acquisitions.                       *)

\* The acquisitions that are open when the oldest go first, and whether a disposal so far
\* found more than one.
FragIn(h, b, n, k) == {i \in Buys(h, b, n, k) : BoughtIn(h, b, i, k) > SoldIn(h, b, n, k)}
Crowded(h, b, n, k) == \E p \in Sales(h, b, n, k) : Cardinality(FragIn(h, b, p - 1, k)) > 1

\* They are as many as there are open lots.
LEMMA FragOpen ==
  ASSUME NEW h \in Seq(Activities), NEW b \in Nat, NEW n \in b..Len(h), NEW k, NEW c \in Books,
         OldestGone(c.lots, h, b, n, k, SoldIn(h, b, n, k))
  PROVE  IsFiniteSet(OpenLots(c)) /\ Cardinality(FragIn(h, b, n, k)) = Cardinality(OpenLots(c))
<1> DEFINE S == FragIn(h, b, n, k)
           T == OpenLots(c)
           d == SoldIn(h, b, n, k)
           lots == c.lots
           f == [i \in S |-> No(h, b, i, k)]
<1>1. lots \in Seq(Lots) /\ Len(lots) = No(h, b, n, k)
  BY DEF Books, OldestGone
<1>2. Scoped(h, b, n, k)
  BY ScopedIs
<1>3. d \in Nat
  BY <1>2 DEF Scoped
<1>4. \A i \in Buys(h, b, n, k) :
        No(h, b, i, k) \in DOMAIN lots /\ (lots[No(h, b, i, k)].qty > 0 <=> BoughtIn(h, b, i, k) > d)
  <2> SUFFICES ASSUME NEW i \in Buys(h, b, n, k)
               PROVE  /\ No(h, b, i, k) \in DOMAIN lots
                      /\ lots[No(h, b, i, k)].qty > 0 <=> BoughtIn(h, b, i, k) > d
    OBVIOUS
  <2> DEFINE x == BoughtIn(h, b, i - 1, k) - d
             B == BoughtIn(h, b, i, k)
             p == h[i].qty
             q == lots[No(h, b, i, k)].qty
  <2>1. d \in Int /\ OldestGone(lots, h, b, n, k, d)
    BY <1>3
  <2>2. LotOf(lots, h, b, n, k, d, i)
    <3> HIDE DEF d, lots
    <3> QED BY <1>1, <2>1, LotIs
  <2>3. /\ No(h, b, i, k) \in DOMAIN lots /\ p \in Nat \ {0} /\ x \in Int /\ B - d = x + p
        /\ q = IF x + p <= 0 THEN 0 ELSE IF x <= 0 THEN x + p ELSE p
    BY <2>2 DEF LotOf
  <2>4. B \in Nat
    BY BuyAt
  <2> HIDE DEF x, B, p, q, d
  <2>5. q > 0 <=> B > d
    BY <1>3, <2>3, <2>4
  <2> QED BY <2>3, <2>5 DEF q, B
<1>5. S = {i \in Buys(h, b, n, k) : BoughtIn(h, b, i, k) > d} /\ T = {r \in DOMAIN lots : lots[r].qty > 0}
  BY DEF FragIn, OpenLots
<1>6. \A i, j \in Buys(h, b, n, k) : No(h, b, i, k) = No(h, b, j, k) => i = j
  BY SameBuy
<1>7. \A r \in DOMAIN lots : \E i \in Buys(h, b, n, k) : No(h, b, i, k) = r
  BY <1>1, <1>2 DEF Scoped
<1> HIDE DEF d, lots
<1>8. f \in [S -> T] /\ \A i \in S : f[i] = No(h, b, i, k)
  <2> HIDE DEF S, T
  <2>1. \A i \in S : No(h, b, i, k) \in T
    BY <1>4, <1>5
  <2> QED BY <2>1
<1> HIDE DEF f, S, T
<1>9. f \in Injection(S, T)
  BY <1>5, <1>6, <1>8 DEF Injection, IsInjective
<1>10. f \in Surjection(S, T)
  <2>1. ASSUME NEW r \in T PROVE \E i \in S : f[i] = r
    <3>1. PICK i \in Buys(h, b, n, k) : No(h, b, i, k) = r
      BY <1>5, <1>7
    <3>2. i \in S
      BY <1>4, <1>5, <3>1
    <3> QED BY <1>8, <3>1, <3>2
  <2> QED BY <1>8, <2>1 DEF Surjection
<1>11. IsFiniteSet(T)
  BY <1>1, <1>5, LotsFinite
<1>12. IsFiniteSet(S) /\ Cardinality(S) = Cardinality(T)
  BY <1>9, <1>10, <1>11, FS_Injection
<1> QED BY <1>11, <1>12 DEF S, T

-----------------------------------------------------------------------------
(* What a book holds, from the activities of its scope.                    *)

\* The last b of the first n activities after which scope k was empty; for the whole asset the
\* lots that are used up stay, so that they are counted from the start.
LastEmpty(h, b, n, k) ==
  IF method = "hybrid" THEN HeldIn(h, b, k) = 0 /\ \A m \in (b + 1)..n : HeldIn(h, m, k) # 0 ELSE b = 0

\* d units of the next activity are gone already.
FifoAt(h, b, n, k, c, d) ==
  /\ LastEmpty(h, b, n, k)
  /\ OldestGone(c.lots, h, b, n, k, SoldIn(h, b, n, k) + d)
  /\ method = "hybrid" => (c.pooled <=> Crowded(h, b, n, k))

\* Nothing is disposed of that was not bought.
LEMMA SoldOfBought ==
  ASSUME NEW h \in Seq(Activities), NEW n \in 0..Len(h), NEW b \in 0..n, NEW k,
         LastEmpty(h, b, n, k)
  PROVE  /\ BoughtIn(h, b, n, k) \in Nat /\ SoldIn(h, b, n, k) \in Nat
         /\ HeldIn(h, n, k) = BoughtIn(h, b, n, k) - SoldIn(h, b, n, k)
<1>1. HeldIn(h, b, k) = 0
  BY HeldStart DEF LastEmpty
<1>2. b \in Nat /\ n \in b..Len(h)
  OBVIOUS
<1>3. Scoped(h, b, n, k)
  BY <1>2, ScopedIs
<1>4. /\ BoughtIn(h, b, n, k) \in Nat /\ SoldIn(h, b, n, k) \in Nat
      /\ HeldIn(h, n, k) = HeldIn(h, b, k) + BoughtIn(h, b, n, k) - SoldIn(h, b, n, k)
  BY <1>3 DEF Scoped
<1> QED BY <1>1, <1>4

\* A scope that is empty starts anew.
LEMMA FifoEmpty ==
  ASSUME NEW h, NEW n \in Nat, NEW k, NEW c, c.lots = <<>>, ~c.pooled, method = "hybrid", HeldIn(h, n, k) = 0
  PROVE  FifoAt(h, n, n, k, c, 0)
<1>1. Buys(h, n, n, k) = {} /\ Sales(h, n, n, k) = {} /\ No(h, n, n, k) = 0 /\ SoldIn(h, n, n, k) = 0
  BY ScopeStart
<1>2. LastEmpty(h, n, n, k)
  <2>1. \A m \in (n + 1)..n : FALSE
    OBVIOUS
  <2> QED BY <2>1 DEF LastEmpty
<1>3. ~Crowded(h, n, n, k)
  BY <1>1 DEF Crowded
<1>4. OldestGone(c.lots, h, n, n, k, SoldIn(h, n, n, k) + 0)
  BY <1>1 DEF OldestGone
<1> QED BY <1>2, <1>3, <1>4 DEF FifoAt

\* The activities of other scopes do not matter.
LEMMA FifoOther ==
  ASSUME NEW h \in Seq(Activities), NEW n \in 0..(Len(h) - 1), NEW b \in 0..n, NEW k,
         NEW c \in Books, FifoAt(h, b, n, k, c, 0), Key(h, h[n + 1]) # k
  PROVE  \E e \in 0..(n + 1) : FifoAt(h, e, n + 1, k, c, 0)
<1>1. b \in Nat /\ n \in b..(Len(h) - 1) /\ n \in Nat /\ n \in b..Len(h) /\ n + 1 \in Nat
  OBVIOUS
<1>2. HeldIn(h, n, k) \in Int /\ HeldIn(h, n + 1, k) = HeldIn(h, n, k)
  BY HeldMore
<1>3. CASE method = "hybrid" /\ HeldIn(h, n, k) = 0
  <2>1. b = n
    <3>1. n \notin (b + 1)..n
      BY <1>3 DEF FifoAt, LastEmpty
    <3> QED BY <1>1, <3>1
  <2>2. Buys(h, n, n, k) = {} /\ Sales(h, n, n, k) = {} /\ No(h, n, n, k) = 0 /\ SoldIn(h, n, n, k) = 0
    BY <1>1, ScopeStart
  <2>3. Len(c.lots) = 0
    BY <2>1, <2>2 DEF FifoAt, OldestGone
  <2>4. c.lots = <<>>
    <3>1. c.lots \in Seq(Lots)
      BY DEF Books
    <3> QED BY <2>3, <3>1
  <2>5. ~c.pooled
    BY <1>3, <2>1, <2>2 DEF FifoAt, Crowded
  <2>6. FifoAt(h, n + 1, n + 1, k, c, 0)
    <3> DEFINE x == n + 1
    <3>1. x \in Nat /\ HeldIn(h, x, k) = 0
      BY <1>1, <1>2, <1>3
    <3> HIDE DEF x
    <3>2. FifoAt(h, x, x, k, c, 0)
      BY <1>3, <2>4, <2>5, <3>1, FifoEmpty
    <3> QED BY <3>2 DEF x
  <2>7. n + 1 \in 0..(n + 1)
    BY <1>1
  <2> QED BY <2>6, <2>7
<1>4. CASE ~(method = "hybrid" /\ HeldIn(h, n, k) = 0)
  <2>1. LastEmpty(h, b, n + 1, k)
    <3>1. LastEmpty(h, b, n, k)
      BY DEF FifoAt
    <3>2. CASE method # "hybrid"
      BY <3>1, <3>2 DEF LastEmpty
    <3>3. CASE method = "hybrid"
      <4>1. HeldIn(h, n + 1, k) # 0
        BY <1>2, <1>4, <3>3
      <4>2. \A m \in (b + 1)..(n + 1) : m \in (b + 1)..n \/ m = n + 1
        BY <1>1
      <4> QED BY <3>1, <3>3, <4>1, <4>2 DEF LastEmpty
    <3> QED BY <3>2, <3>3
  <2>2. Sales(h, b, n + 1, k) = Sales(h, b, n, k)
    <3>1. Adds(h, b, n, k)
      BY <1>1, ScopeMore
    <3> QED BY <3>1 DEF Adds
  <2>3. SoldIn(h, b, n + 1, k) = SoldIn(h, b, n, k)
    BY <2>2 DEF SoldIn
  <2>4. Crowded(h, b, n + 1, k) <=> Crowded(h, b, n, k)
    BY <2>2 DEF Crowded
  <2>5. OldestGone(c.lots, h, b, n + 1, k, SoldIn(h, b, n, k) + 0)
    <3>1. OldestGone(c.lots, h, b, n, k, SoldIn(h, b, n, k) + 0)
      BY DEF FifoAt
    <3> DEFINE d == SoldIn(h, b, n, k) + 0
    <3> HIDE DEF d
    <3>2. OldestGone(c.lots, h, b, n, k, d) => OldestGone(c.lots, h, b, n + 1, k, d)
      BY <1>1, GoneStays
    <3> QED BY <3>1, <3>2 DEF d
  <2>6. FifoAt(h, b, n + 1, k, c, 0)
    BY <2>1, <2>3, <2>4, <2>5 DEF FifoAt
  <2>7. b \in 0..(n + 1)
    BY <1>1
  <2> QED BY <2>6, <2>7
<1> QED BY <1>3, <1>4

\* An acquisition adds its lot, exact or provenance only.
LEMMA FifoBuy ==
  ASSUME NEW h \in Seq(Activities), NEW n \in 0..(Len(h) - 1), NEW b \in 0..n, NEW k,
         NEW c \in Books, FifoAt(h, b, n, k, c, 0), Key(h, h[n + 1]) = k, IsBuy(h[n + 1]),
         method \in {"fifo", "hybrid"}, HeldIn(h, n, k) >= 0
  PROVE  FifoAt(h, b, n + 1, k, BuyInto(c, h[n + 1]), 0)
<1> DEFINE a == h[n + 1]
           d == SoldIn(h, b, n, k) + 0
<1>1. b \in Nat /\ n \in b..(Len(h) - 1) /\ n \in Nat /\ n \in b..Len(h) /\ n \in 0..Len(h) /\ n + 1 \in DOMAIN h
  OBVIOUS
<1>2. LastEmpty(h, b, n, k) /\ OldestGone(c.lots, h, b, n, k, d) /\ (method = "hybrid" => (c.pooled <=> Crowded(h, b, n, k)))
  BY DEF FifoAt
<1>3. /\ BoughtIn(h, b, n, k) \in Nat /\ SoldIn(h, b, n, k) \in Nat
      /\ HeldIn(h, n, k) = BoughtIn(h, b, n, k) - SoldIn(h, b, n, k)
  BY <1>1, <1>2, SoldOfBought
<1>4. d \in Nat /\ d <= BoughtIn(h, b, n, k)
  BY <1>3
<1>5. a \in Activities /\ a.qty \in Nat \ {0} /\ a.amount \in Int
  <2>1. a \in Activities
    BY <1>1
  <2> QED BY <2>1, ActivityType
<1>6. /\ Sales(h, b, n + 1, k) = Sales(h, b, n, k)
      /\ SoldIn(h, b, n + 1, k) = SoldIn(h, b, n, k)
  <2>1. Sales(h, b, n + 1, k) = Sales(h, b, n, k)
    BY <1>1, ScopeMore DEF Adds
  <2> QED BY <2>1 DEF SoldIn
<1>7. Crowded(h, b, n + 1, k) <=> Crowded(h, b, n, k)
  BY <1>6 DEF Crowded
<1>8. LastEmpty(h, b, n + 1, k)
  <2>1. CASE method # "hybrid"
    BY <1>2, <2>1 DEF LastEmpty
  <2>2. CASE method = "hybrid"
    <3>1. HeldIn(h, n + 1, k) # 0
      <4>1. HeldIn(h, n, k) \in Int /\ HeldIn(h, n + 1, k) = HeldIn(h, n, k) + Signed(a)
        BY HeldMore
      <4>2. Signed(a) = a.qty
        BY DEF Signed, IsBuy
      <4> QED BY <1>5, <4>1, <4>2
    <3>2. \A m \in (b + 1)..(n + 1) : m \in (b + 1)..n \/ m = n + 1
      BY <1>1
    <3> QED BY <1>2, <2>2, <3>1, <3>2 DEF LastEmpty
  <2> QED BY <2>1, <2>2
<1>9. PICK l \in Lots : BuyInto(c, a).lots = Append(c.lots, l) /\ l.qty = a.qty
  <2>1. method # "average" /\ c \in [lots : Seq(Lots), pooled : BOOLEAN, qty : Nat, basis : Int]
    BY DEF Books
  <2>2. [qty |-> a.qty, basis |-> a.amount] \in Lots /\ [qty |-> a.qty, basis |-> 0] \in Lots
    BY <1>5 DEF Lots
  <2> HIDE DEF a
  <2>3. CASE ~c.pooled
    <3>1. BuyInto(c, a).lots = Append(c.lots, [qty |-> a.qty, basis |-> a.amount])
      BY <2>1, <2>3 DEF BuyInto, AddLot
    <3> QED BY <2>2, <3>1
  <2>4. CASE c.pooled
    <3>1. BuyInto(c, a).lots = Append(c.lots, [qty |-> a.qty, basis |-> 0])
      BY <2>1, <2>4 DEF BuyInto, AddLot, AddToPool
    <3> QED BY <2>2, <3>1
  <2> QED BY <2>3, <2>4
<1>10. BuyInto(c, a).pooled = c.pooled
  BY <1>5, Bought1
<1>11. OldestGone(Append(c.lots, l), h, b, n + 1, k, d)
  <2>1. c.lots \in Seq(Lots)
    BY DEF Books
  <2> HIDE DEF d
  <2> QED BY <1>1, <1>2, <1>4, <1>9, <2>1, GoneBought
<1>12. OldestGone(BuyInto(c, a).lots, h, b, n + 1, k, SoldIn(h, b, n + 1, k) + 0)
  <2> HIDE DEF a
  <2> QED BY <1>6, <1>9, <1>11
<1> QED BY <1>2, <1>7, <1>8, <1>10, <1>12 DEF FifoAt

\* A disposal that leaves something, and falls back if it could have come from two acquisitions.
LEMMA FifoSale ==
  ASSUME NEW h \in Seq(Activities), NEW n \in 0..(Len(h) - 1), NEW b \in 0..n, NEW k, NEW c \in Books,
         LastEmpty(h, b, n, k), Key(h, h[n + 1]) = k, ~IsBuy(h[n + 1]),
         OldestGone(c.lots, h, b, n, k, SoldIn(h, b, n, k) + h[n + 1].qty),
         method = "hybrid" =>
           /\ HeldIn(h, n + 1, k) # 0
           /\ c.pooled <=> Crowded(h, b, n, k) \/ Cardinality(FragIn(h, b, n, k)) > 1
  PROVE  FifoAt(h, b, n + 1, k, c, 0)
<1> DEFINE x == n + 1
           d == SoldIn(h, b, n, k) + h[n + 1].qty
<1>1. b \in Nat /\ n \in b..(Len(h) - 1) /\ n \in Nat /\ x - 1 = n
  OBVIOUS
<1>2. /\ Sales(h, b, n + 1, k) = Sales(h, b, n, k) \cup {x} /\ SoldIn(h, b, n + 1, k) = d /\ d \in Nat
  <2>1. Adds(h, b, n, k)
    BY <1>1, ScopeMore
  <2> QED BY <2>1 DEF Adds
<1>3. LastEmpty(h, b, n + 1, k)
  <2>1. \A m \in (b + 1)..(n + 1) : m \in (b + 1)..n \/ m = n + 1
    BY <1>1
  <2> QED BY <2>1 DEF LastEmpty
<1>4. Crowded(h, b, n + 1, k) <=> Crowded(h, b, n, k) \/ Cardinality(FragIn(h, b, n, k)) > 1
  BY <1>1, <1>2 DEF Crowded
<1>5. OldestGone(c.lots, h, b, n + 1, k, d)
  <2> HIDE DEF d
  <2>1. OldestGone(c.lots, h, b, n, k, d)
    BY DEF d
  <2> QED BY <1>1, <2>1, GoneStays
<1>6. OldestGone(c.lots, h, b, n + 1, k, SoldIn(h, b, n + 1, k) + 0)
  <2>1. SoldIn(h, b, n + 1, k) + 0 = d
    <3> HIDE DEF d
    <3> QED BY <1>2
  <2> QED BY <1>5, <2>1
<1> QED BY <1>3, <1>4, <1>6 DEF FifoAt

\* Oldest first, in the methods that take lots so, and what is left in between.
FifoBook(h, n, k, c, d, busy) ==
  /\ d \in Nat
  /\ \E b \in 0..n : FifoAt(h, b, n, k, c, d) /\ (method = "hybrid" /\ busy => ~(Cardinality(FragIn(h, b, n, k)) > 1))
Busy(k) == work.on /\ k = Key(Inputs, Input)
FifoInv ==
  IF ~Replaying THEN books = [k \in Keys |-> NewBook]
  ELSE method \in {"fifo", "hybrid"} => \A k \in Keys : FifoBook(Inputs, pos, k, books[k], Pending(k), Busy(k))

\* What it says of the next state.
LEMMA FifoSame ==
  ASSUME method' = method
  PROVE  \A h, n, k, c, d, busy : FifoBook(h, n, k, c, d, busy)' <=> FifoBook(h, n, k, c, d, busy)
BY DEF FifoBook, FifoAt, LastEmpty, OldestGone, Crowded, FragIn, HeldIn, SoldIn, BoughtIn, No, Buys, Sales, QtyAt,
  Clamp, Key, Broadened, Signed, IsBuy

LEMMA FifoThen ==
  ASSUME history' = history, year' = year, method' = method, Replaying,
         method \in {"fifo", "hybrid"} =>
           \A k \in Keys :
             LET busy == work'.on /\ k = Key(Inputs, Inputs[pos' + 1])
             IN FifoBook(Inputs, pos', k, books'[k],
                         IF busy THEN Inputs[pos' + 1].qty - work'.left ELSE 0, busy)
  PROVE  FifoInv'
<1>1. Inputs' = Inputs /\ (Replaying' <=> Replaying) /\ \A a : Key(Inputs, a)' = Key(Inputs, a)
  BY QtyThen
<1>2. \A h, n, k, c, d, busy : FifoBook(h, n, k, c, d, busy)' <=> FifoBook(h, n, k, c, d, busy)
  BY FifoSame
<1>3. \A k : /\ Busy(k)' <=> work'.on /\ k = Key(Inputs, Inputs[pos' + 1])
             /\ Pending(k)' = IF work'.on /\ k = Key(Inputs, Inputs[pos' + 1])
                              THEN Inputs[pos' + 1].qty - work'.left ELSE 0
  BY <1>1 DEF Busy, Pending, Input, Key, Broadened
<1>4. ASSUME method \in {"fifo", "hybrid"}, NEW k \in Keys
      PROVE  FifoBook(Inputs, pos, k, books[k], Pending(k), Busy(k))'
  <2> DEFINE busy == work'.on /\ k = Key(Inputs, Inputs[pos' + 1])
             d == IF busy THEN Inputs[pos' + 1].qty - work'.left ELSE 0
  <2>1. FifoBook(Inputs, pos', k, books'[k], d, busy)
    BY <1>4
  <2>2. (Busy(k)' <=> busy) /\ Pending(k)' = d
    BY <1>3
  <2>3. Busy(k)' \in BOOLEAN /\ busy \in BOOLEAN
    BY <1>3
  <2> HIDE DEF busy, d
  <2>4. Busy(k)' = busy
    BY <2>2, <2>3
  <2> QED BY <1>1, <1>2, <2>1, <2>2, <2>4
<1> QED BY <1>1, <1>4 DEF FifoInv

\* A book that was not touched yet.
LEMMA FifoStart ==
  ASSUME NEW h, NEW k, NEW busy, busy = FALSE, method \in {"fifo", "hybrid"}
  PROVE  FifoBook(h, 0, k, NewBook, 0, busy)
<1>1. NewBook.lots = <<>> /\ ~NewBook.pooled
  BY DEF NewBook
<1>2. 0 \in 0..0 /\ 0 \in Nat
  OBVIOUS
<1>3. CASE method = "hybrid"
  <2>1. HeldIn(h, 0, k) = 0
    BY HeldStart
  <2>2. FifoAt(h, 0, 0, k, NewBook, 0)
    <3> DEFINE n == 0
    <3>1. n \in Nat /\ HeldIn(h, n, k) = 0
      BY <2>1
    <3> HIDE DEF n
    <3>2. FifoAt(h, n, n, k, NewBook, 0)
      BY <1>1, <1>3, <3>1, FifoEmpty
    <3> QED BY <3>2 DEF n
  <2> QED BY <1>2, <2>2 DEF FifoBook
<1>4. CASE method = "fifo"
  <2>1. Buys(h, 0, 0, k) = {} /\ No(h, 0, 0, k) = 0 /\ SoldIn(h, 0, 0, k) = 0
    BY ScopeStart
  <2>2. LastEmpty(h, 0, 0, k)
    BY <1>4 DEF LastEmpty
  <2>3. OldestGone(NewBook.lots, h, 0, 0, k, SoldIn(h, 0, 0, k) + 0)
    BY <1>1, <2>1 DEF OldestGone
  <2>4. FifoAt(h, 0, 0, k, NewBook, 0)
    BY <1>4, <2>2, <2>3 DEF FifoAt
  <2> QED BY <1>2, <2>4, <1>4 DEF FifoBook
<1> QED BY <1>3, <1>4

\* An activity that is over, whose own book is as it should be.
LEMMA FifoDone ==
  ASSUME IInv, FifoInv, NEW before, NEW c \in Books, NEW allocated, NEW zero,
         Done(before, c, allocated, zero),
         method \in {"fifo", "hybrid"} => FifoBook(Inputs, pos + 1, Key(Inputs, Input), c, 0, FALSE)
  PROVE  FifoInv'
<1> DEFINE K == Key(Inputs, Input)
<1>1. /\ Replaying /\ pos < Len(Inputs) /\ books' = Put(c) /\ pos' = pos + 1 /\ work' = NoWork
      /\ history' = history /\ method' = method /\ year' = year /\ TypeOK
  BY DEF Done, IInv
<1>2. /\ Inputs \in Seq(Activities) /\ pos \in 0..(Len(Inputs) - 1) /\ pos \in Nat
      /\ K \in Keys /\ books \in [Keys -> Books] /\ Input = Inputs[pos + 1]
  <2>1. Inputs \in Seq(Activities) /\ pos \in 0..(Len(Inputs) - 1) /\ pos \in Nat
    BY <1>1, InputsType DEF TypeOK
  <2> QED BY <1>1, <2>1, InputType DEF TypeOK, Input
<1>3. \A k \in Keys : Put(c)[k] = IF k = K THEN c ELSE books[k]
  BY <1>2 DEF Put
<1>4. ~work'.on
  BY <1>1, NewTypes
<1>5. ASSUME method \in {"fifo", "hybrid"}, NEW k \in Keys
      PROVE  FifoBook(Inputs, pos', k, books'[k], 0, FALSE)
  <2>1. CASE k = K
    BY <1>1, <1>3, <1>5, <2>1
  <2>2. CASE k # K
    <3>1. FifoBook(Inputs, pos, k, books[k], Pending(k), Busy(k))
      BY <1>1, <1>5 DEF FifoInv
    <3>2. Pending(k) = 0
      BY <2>2 DEF Pending
    <3>3. PICK b \in 0..pos : FifoAt(Inputs, b, pos, k, books[k], 0)
      BY <3>1, <3>2 DEF FifoBook
    <3>4. books[k] \in Books /\ Key(Inputs, Inputs[pos + 1]) # k
      BY <1>2, <1>5, <2>2
    <3>5. \E e \in 0..(pos + 1) : FifoAt(Inputs, e, pos + 1, k, books[k], 0)
      BY <1>2, <3>3, <3>4, FifoOther
    <3>6. FifoBook(Inputs, pos + 1, k, books[k], 0, FALSE)
      BY <3>5 DEF FifoBook
    <3>7. books'[k] = books[k]
      BY <1>1, <1>3, <1>5, <2>2
    <3> QED BY <1>1, <3>6, <3>7
  <2> QED BY <2>1, <2>2
<1>6. method \in {"fifo", "hybrid"} =>
        \A k \in Keys :
          LET busy == work'.on /\ k = Key(Inputs, Inputs[pos' + 1])
          IN FifoBook(Inputs, pos', k, books'[k], IF busy THEN Inputs[pos' + 1].qty - work'.left ELSE 0, busy)
  BY <1>4, <1>5
<1> QED BY <1>1, <1>6, FifoThen

LEMMA FifoBuys ==
  ASSUME IInv, QtyInv, FifoInv, BuyDone
  PROVE  FifoInv'
<1> DEFINE K == Key(Inputs, Input)
<1>1. Done(Captured, BuyInto(Book, Input), 0, FALSE) /\ ~work.on /\ IsBuy(Input) /\ pos < Len(Inputs) /\ TypeOK
      /\ Replaying
  BY DEF BuyDone, Done, IInv
<1>2. /\ Inputs \in Seq(Activities) /\ pos \in 0..(Len(Inputs) - 1) /\ pos \in Nat
      /\ K \in Keys /\ Book \in Books /\ Book = books[K] /\ Input = Inputs[pos + 1] /\ Input \in Activities
  <2>1. Inputs \in Seq(Activities) /\ pos \in 0..(Len(Inputs) - 1) /\ pos \in Nat
    BY <1>1, InputsType DEF TypeOK
  <2> QED BY <1>1, <2>1, InputType DEF TypeOK, Input, Book
<1>3. BuyInto(Book, Input) \in Books
  BY <1>2, Bought1
<1>4. ASSUME method \in {"fifo", "hybrid"} PROVE FifoBook(Inputs, pos + 1, K, BuyInto(Book, Input), 0, FALSE)
  <2>1. FifoBook(Inputs, pos, K, books[K], Pending(K), Busy(K)) /\ Pending(K) = 0
    BY <1>1, <1>2, <1>4 DEF FifoInv, Pending
  <2>2. PICK b \in 0..pos : FifoAt(Inputs, b, pos, K, Book, 0)
    BY <1>2, <2>1 DEF FifoBook
  <2>3. HeldIn(Inputs, pos, K) >= 0
    <3>1. pos \in 0..pos
      BY <1>2
    <3> QED BY <1>1, <1>2, <3>1 DEF QtyInv
  <2>4. FifoAt(Inputs, b, pos + 1, K, BuyInto(Book, Inputs[pos + 1]), 0)
    <3>1. Key(Inputs, Inputs[pos + 1]) = K /\ IsBuy(Inputs[pos + 1])
      BY <1>1, <1>2
    <3> HIDE DEF K
    <3> QED BY <1>2, <1>4, <2>2, <2>3, <3>1, FifoBuy
  <2>5. b \in 0..(pos + 1)
    BY <1>2, <2>2
  <2> QED BY <1>2, <2>4, <2>5 DEF FifoBook
<1> QED BY <1>1, <1>3, <1>4, FifoDone

\* A disposal that is complete.
LEMMA FifoLots ==
  ASSUME IInv, QtyInv, FifoInv, LotsDone
  PROVE  FifoInv'
<1> DEFINE K == Key(Inputs, Input)
<1>1. /\ Done(acc, LotsLeft, work.allocated, BookQty(Book) = 0) /\ work.on /\ ~IsBuy(Input)
      /\ pos < Len(Inputs) /\ TypeOK /\ work.left = 0 /\ Working /\ PoolInv /\ Replaying /\ ~Book.pooled
  BY DEF LotsDone, Done, IInv, WorkInv
<1>2. /\ Inputs \in Seq(Activities) /\ pos \in 0..(Len(Inputs) - 1) /\ pos \in Nat
      /\ K \in Keys /\ Book \in Books /\ Book = books[K] /\ Input = Inputs[pos + 1] /\ Input \in Activities
      /\ Input.qty \in Nat
  <2>1. Inputs \in Seq(Activities) /\ pos \in 0..(Len(Inputs) - 1) /\ pos \in Nat
    BY <1>1, InputsType DEF TypeOK
  <2> QED BY <1>1, <2>1, InputType DEF TypeOK, Input, Book
<1>3. LotsLeft \in Books
  BY <1>1, LotsLeftType
<1>4. BookQty(Book) = 0 <=> HeldIn(Inputs, pos + 1, K) = 0
  BY LotsQty
<1>5. ASSUME method \in {"fifo", "hybrid"} PROVE FifoBook(Inputs, pos + 1, K, LotsLeft, 0, FALSE)
  <2>1. CASE method = "hybrid" /\ BookQty(Book) = 0
    <3>1. LotsLeft.lots = <<>> /\ ~LotsLeft.pooled
      BY <2>1 DEF LotsLeft, Emptied, NewBook
    <3>2. pos + 1 \in Nat /\ HeldIn(Inputs, pos + 1, K) = 0
      BY <1>2, <1>4, <2>1
    <3> DEFINE x == pos + 1
    <3>3. x \in Nat /\ HeldIn(Inputs, x, K) = 0
      BY <3>2
    <3> HIDE DEF x, K
    <3>4. FifoAt(Inputs, x, x, K, LotsLeft, 0)
      BY <2>1, <3>1, <3>3, FifoEmpty
    <3>5. x \in 0..x
      BY <3>3
    <3>6. FifoBook(Inputs, x, K, LotsLeft, 0, FALSE)
      BY <3>4, <3>5 DEF FifoBook
    <3> QED BY <3>6 DEF x
  <2>2. CASE ~(method = "hybrid" /\ BookQty(Book) = 0)
    <3>1. LotsLeft = Book
      BY <1>5, <2>2 DEF LotsLeft, Emptied
    <3>2. FifoBook(Inputs, pos, K, Book, Input.qty, TRUE)
      <4>1. Pending(K) = Input.qty - 0 /\ Busy(K) = TRUE
        BY <1>1 DEF Pending, Busy
      <4>2. Pending(K) = Input.qty
        BY <1>2, <4>1
      <4>3. FifoBook(Inputs, pos, K, books[K], Pending(K), Busy(K))
        BY <1>1, <1>2, <1>5 DEF FifoInv
      <4> HIDE DEF K
      <4> QED BY <1>2, <4>1, <4>2, <4>3
    <3>3. PICK b \in 0..pos : /\ FifoAt(Inputs, b, pos, K, Book, Input.qty)
                              /\ method = "hybrid" => ~(Cardinality(FragIn(Inputs, b, pos, K)) > 1)
      BY <3>2 DEF FifoBook
    <3>4. /\ LastEmpty(Inputs, b, pos, K)
          /\ OldestGone(Book.lots, Inputs, b, pos, K, SoldIn(Inputs, b, pos, K) + Inputs[pos + 1].qty)
          /\ method = "hybrid" => (Book.pooled <=> Crowded(Inputs, b, pos, K))
      BY <1>2, <3>3 DEF FifoAt
    <3>5. method = "hybrid" =>
            /\ HeldIn(Inputs, pos + 1, K) # 0
            /\ Book.pooled <=> Crowded(Inputs, b, pos, K) \/ Cardinality(FragIn(Inputs, b, pos, K)) > 1
      BY <1>1, <1>4, <2>2, <3>3, <3>4
    <3>6. Key(Inputs, Inputs[pos + 1]) = K /\ ~IsBuy(Inputs[pos + 1])
      BY <1>1, <1>2
    <3> HIDE DEF K
    <3>7. FifoAt(Inputs, b, pos + 1, K, Book, 0)
      BY <1>2, <3>3, <3>4, <3>5, <3>6, FifoSale
    <3>8. b \in 0..(pos + 1)
      BY <1>2, <3>3
    <3> QED BY <3>1, <3>7, <3>8 DEF FifoBook
  <2> QED BY <2>1, <2>2
<1> QED BY <1>1, <1>3, <1>5, FifoDone

\* A book that holds something has an open lot.
LEMMA OpenLotExists ==
  ASSUME NEW c \in Books, ~c.pooled, BookQty(c) # 0
  PROVE  OpenLots(c) # {}
<1> SUFFICES ASSUME OpenLots(c) = {} PROVE BookQty(c) = 0
  OBVIOUS
<1> DEFINE f == QtyOf(c.lots)
           D == DOMAIN c.lots
<1>1. c.lots \in Seq(Lots)
  BY DEF Books
<1>2. IsFiniteSet(D) /\ DOMAIN f = D /\ \A i \in D : f[i] \in Nat /\ ~(f[i] > 0)
  BY <1>1, LotsFinite, LotValues DEF OpenLots, QtyOf
<1>3. BookQty(c) = SumFunctionOnSet(f, D)
  BY <1>2 DEF BookQty, SumFunction
<1> HIDE DEF f, D
<1>4. \A i \in D : f[i] = 0
  BY <1>2
<1>5. SumFunctionOnSet(f, D) = SumFunctionOnSet(f, {})
  BY <1>2, <1>4, SumZeros
<1> QED BY <1>3, <1>5, SumEmpty

\* A disposal from a pool takes from the oldest lots, and a scope that only now becomes a pool
\* has more than one of them.
LEMMA FifoPool ==
  ASSUME IInv, QtyInv, FifoInv, PoolDone
  PROVE  FifoInv'
<1> DEFINE K == Key(Inputs, Input)
           p == Pooled(Book)
<1>1. /\ Done(Captured, PoolLeft(p), FromPool(p), p.qty = Input.qty) /\ ~work.on /\ ~IsBuy(Input)
      /\ pos < Len(Inputs) /\ TypeOK /\ Replaying /\ ~Exact(Book) /\ method \in {"hybrid", "average"}
      /\ ~(p.qty < Input.qty)
  BY DEF PoolDone, Done, IInv
<1>2. /\ Inputs \in Seq(Activities) /\ pos \in 0..(Len(Inputs) - 1) /\ pos \in Nat
      /\ K \in Keys /\ Book \in Books /\ Book = books[K] /\ Input = Inputs[pos + 1] /\ Input \in Activities
      /\ Input.qty \in Nat \ {0}
  <2>1. Inputs \in Seq(Activities) /\ pos \in 0..(Len(Inputs) - 1) /\ pos \in Nat
    BY <1>1, InputsType DEF TypeOK
  <2> QED BY <1>1, <2>1, InputType DEF TypeOK, Input, Book
<1>3. /\ PoolLeft(p) \in Books /\ p \in Books /\ p.qty = BookQty(Book)
      /\ p.qty = Input.qty => PoolLeft(p) = NewBook
      /\ p.qty # Input.qty => PoolLeft(p).pooled /\ PoolLeft(p).lots = OldestConsumed(p.lots, Input.qty)
  <2> DEFINE b == Pooled(Book)
  <2>1. b = Pooled(Book)
    OBVIOUS
  <2> HIDE DEF b
  <2>2. ~(b.qty < Input.qty)
    BY <1>1, <2>1
  <2>3. /\ b \in Books /\ b.pooled /\ b.qty = BookQty(Book) /\ b.basis = BookBasis(Book)
        /\ PoolLeft(b) \in Books /\ BookQty(PoolLeft(b)) = BookQty(Book) - Input.qty
        /\ b.qty = Input.qty => PoolLeft(b) = NewBook
        /\ b.qty # Input.qty =>
             /\ PoolLeft(b).pooled /\ PoolLeft(b).qty = b.qty - Input.qty
             /\ PoolLeft(b).basis = b.basis - FromPool(b)
             /\ PoolLeft(b).lots = OldestConsumed(b.lots, Input.qty)
    BY <1>1, <2>1, <2>2, PoolLeftType
  <2> QED BY <2>1, <2>3
<1>4. p.qty = Input.qty <=> HeldIn(Inputs, pos + 1, K) = 0
  BY PoolQty
<1>5. ASSUME method = "hybrid" PROVE FifoBook(Inputs, pos + 1, K, PoolLeft(p), 0, FALSE)
  <2>1. CASE p.qty = Input.qty
    <3>1. PoolLeft(p).lots = <<>> /\ ~PoolLeft(p).pooled
      <4>1. PoolLeft(p) = NewBook
        BY <1>3, <2>1
      <4>2. NewBook.lots = <<>> /\ ~NewBook.pooled
        BY <1>5 DEF NewBook
      <4> HIDE DEF p
      <4> QED BY <4>1, <4>2
    <3> DEFINE x == pos + 1
    <3>2. x \in Nat /\ HeldIn(Inputs, x, K) = 0
      BY <1>2, <1>4, <2>1
    <3> HIDE DEF x, K, p
    <3>3. FifoAt(Inputs, x, x, K, PoolLeft(p), 0)
      BY <1>5, <3>1, <3>2, FifoEmpty
    <3>4. x \in 0..x
      BY <3>2
    <3>5. FifoBook(Inputs, x, K, PoolLeft(p), 0, FALSE)
      BY <3>3, <3>4 DEF FifoBook
    <3> QED BY <3>5 DEF x
  <2>2. CASE p.qty # Input.qty
    <3>1. FifoBook(Inputs, pos, K, books[K], Pending(K), Busy(K)) /\ Pending(K) = 0
      BY <1>1, <1>2, <1>5 DEF FifoInv, Pending
    <3>2. PICK b \in 0..pos : FifoAt(Inputs, b, pos, K, Book, 0)
      BY <1>2, <3>1 DEF FifoBook
    <3> DEFINE d == SoldIn(Inputs, b, pos, K)
    <3>3. b \in Nat /\ pos \in b..Len(Inputs) /\ pos \in 0..Len(Inputs) /\ b \in 0..pos
      BY <1>2, <3>2
    <3>4. /\ LastEmpty(Inputs, b, pos, K) /\ OldestGone(Book.lots, Inputs, b, pos, K, d + 0)
          /\ Book.pooled <=> Crowded(Inputs, b, pos, K)
      BY <1>5, <3>2 DEF FifoAt
    <3>5. d \in Nat
      BY <1>2, <3>3, <3>4, SoldOfBought
    <3>6. OldestGone(Book.lots, Inputs, b, pos, K, d)
      <4> HIDE DEF d
      <4>1. d + 0 = d
        BY <3>5
      <4> QED BY <3>4, <4>1
    <3>7. p.lots \in Seq(Lots) /\ OldestGone(p.lots, Inputs, b, pos, K, d)
      <4>1. Book.lots \in Seq(Lots) /\ p.lots \in Seq(Lots)
        BY <1>2, <1>3 DEF Books
      <4>2. Len(p.lots) = Len(Book.lots) /\ \A i \in DOMAIN Book.lots : p.lots[i].qty = Book.lots[i].qty
        <5>1. CASE Book.pooled
          BY <5>1 DEF Pooled
        <5>2. CASE ~Book.pooled
          <6>1. p.lots = [i \in DOMAIN Book.lots |-> [Book.lots[i] EXCEPT !.basis = 0]]
            BY <5>2 DEF Pooled
          <6>2. DOMAIN p.lots = DOMAIN Book.lots
            BY <6>1
          <6>3. \A i \in DOMAIN Book.lots : Book.lots[i] \in Lots
            BY <4>1
          <6> HIDE DEF p
          <6>4. \A i \in DOMAIN Book.lots : p.lots[i].qty = Book.lots[i].qty
            BY <6>1, <6>3 DEF Lots
          <6>5. Len(p.lots) = Len(Book.lots)
            BY <4>1, <6>2
          <6> QED BY <6>4, <6>5
        <5> QED BY <5>1, <5>2
      <4> DEFINE N == No(Inputs, b, pos, K)
      <4>3. \A i \in Buys(Inputs, b, pos, K) : No(Inputs, b, i, K) \in 1..N
        BY <1>2, <3>3, BuyAt
      <4>4. Len(Book.lots) = N
        BY <3>6 DEF OldestGone
      <4> HIDE DEF p, N
      <4>5. \A i \in Buys(Inputs, b, pos, K) : No(Inputs, b, i, K) \in DOMAIN Book.lots
        BY <4>1, <4>3, <4>4
      <4> QED BY <3>6, <4>1, <4>2, <4>4, <4>5 DEF OldestGone, N
    <3>8. OldestGone(PoolLeft(p).lots, Inputs, b, pos, K, d + Inputs[pos + 1].qty)
      <4> HIDE DEF p, d, K
      <4>1. Input.qty \in Nat
        BY <1>2
      <4>2. OldestGone(OldestConsumed(p.lots, Input.qty), Inputs, b, pos, K, d + Input.qty)
        BY <1>2, <3>3, <3>5, <3>7, <4>1, GoneConsumed
      <4> QED BY <1>2, <1>3, <2>2, <4>2
    <3>9. Crowded(Inputs, b, pos, K) \/ Cardinality(FragIn(Inputs, b, pos, K)) > 1
      <4>1. CASE Book.pooled
        BY <3>4, <4>1
      <4>2. CASE ~Book.pooled
        <5>1. Cardinality(OpenLots(Book)) # 1
          BY <1>1, <1>5, <4>2 DEF Exact
        <5>2. IsFiniteSet(OpenLots(Book)) /\ Cardinality(FragIn(Inputs, b, pos, K)) = Cardinality(OpenLots(Book))
          <6> HIDE DEF K
          <6> QED BY <1>2, <3>3, <3>6, FragOpen DEF d
        <5>3. BookQty(Book) # 0
          <6>1. p.qty = BookQty(Book) /\ ~(p.qty < Input.qty) /\ Input.qty \in Nat \ {0}
            BY <1>1, <1>2, <1>3
          <6> HIDE DEF p
          <6> QED BY <6>1
        <5>4. OpenLots(Book) # {}
          BY <1>2, <4>2, <5>3, OpenLotExists
        <5>5. Cardinality(OpenLots(Book)) \in Nat /\ Cardinality(OpenLots(Book)) # 0
          BY <5>2, <5>4, FS_CardinalityType, FS_EmptySet
        <5> QED BY <5>1, <5>2, <5>5
      <4> QED BY <4>1, <4>2
    <3>10. /\ HeldIn(Inputs, pos + 1, K) # 0
           /\ PoolLeft(p).pooled <=> Crowded(Inputs, b, pos, K) \/ Cardinality(FragIn(Inputs, b, pos, K)) > 1
      BY <1>3, <1>4, <2>2, <3>9
    <3>11. Key(Inputs, Inputs[pos + 1]) = K /\ ~IsBuy(Inputs[pos + 1])
      BY <1>1, <1>2
    <3>12. FifoAt(Inputs, b, pos + 1, K, PoolLeft(p), 0)
      <4>1. OldestGone(PoolLeft(p).lots, Inputs, b, pos, K, SoldIn(Inputs, b, pos, K) + Inputs[pos + 1].qty)
        BY <3>8
      <4> HIDE DEF K, p, d
      <4> QED BY <1>2, <1>3, <3>3, <3>4, <3>10, <3>11, <4>1, FifoSale
    <3>13. b \in 0..(pos + 1)
      BY <1>2, <3>2
    <3> QED BY <3>12, <3>13 DEF FifoBook
  <2> QED BY <2>1, <2>2
<1>6. method \in {"fifo", "hybrid"} => FifoBook(Inputs, pos + 1, K, PoolLeft(p), 0, FALSE)
  BY <1>1, <1>5
<1> QED BY <1>1, <1>3, <1>6, FifoDone

\* A disposal from exact lots starts in a hybrid scope only if they are one.
LEMMA FifoBegun ==
  ASSUME IInv, FifoInv, LotsBegun
  PROVE  FifoInv'
<1> DEFINE K == Key(Inputs, Input)
<1>1. /\ Replaying /\ pos < Len(Inputs) /\ ~work.on /\ TypeOK /\ work'.on /\ work'.left = Input.qty
      /\ books' = books /\ history' = history /\ method' = method /\ year' = year /\ pos' = pos
      /\ Exact(Book)
  BY DEF LotsBegun, IInv
<1>2. /\ Inputs \in Seq(Activities) /\ pos \in 0..(Len(Inputs) - 1) /\ pos \in Nat
      /\ K \in Keys /\ Book \in Books /\ Book = books[K] /\ Input = Inputs[pos + 1]
      /\ Input.qty \in Nat /\ books \in [Keys -> Books]
  <2>1. Inputs \in Seq(Activities) /\ pos \in 0..(Len(Inputs) - 1) /\ pos \in Nat
    BY <1>1, InputsType DEF TypeOK
  <2> QED BY <1>1, <2>1, InputType DEF TypeOK, Input, Book
<1>3. ASSUME method \in {"fifo", "hybrid"}, NEW k \in Keys, NEW busy \in BOOLEAN, busy => k = K
      PROVE  FifoBook(Inputs, pos, k, books[k], 0, busy)
  <2>1. FifoBook(Inputs, pos, k, books[k], Pending(k), Busy(k)) /\ Pending(k) = 0
    BY <1>1, <1>3 DEF FifoInv, Pending
  <2>2. PICK b \in 0..pos : FifoAt(Inputs, b, pos, k, books[k], 0)
    BY <2>1 DEF FifoBook
  <2>3. ASSUME method = "hybrid", k = K PROVE ~(Cardinality(FragIn(Inputs, b, pos, k)) > 1)
    <3> DEFINE d == SoldIn(Inputs, b, pos, k)
    <3>1. b \in Nat /\ pos \in b..Len(Inputs) /\ pos \in 0..Len(Inputs) /\ b \in 0..pos
      BY <1>2, <2>2
    <3>2. LastEmpty(Inputs, b, pos, k) /\ OldestGone(books[k].lots, Inputs, b, pos, k, d + 0)
      BY <2>2 DEF FifoAt
    <3>3. d \in Nat
      BY <1>2, <3>1, <3>2, SoldOfBought
    <3>4. OldestGone(books[k].lots, Inputs, b, pos, k, d)
      <4> HIDE DEF d
      <4>1. d + 0 = d
        BY <3>3
      <4> QED BY <3>2, <4>1
    <3>5. books[k] \in Books
      BY <1>2, <1>3
    <3>6. Cardinality(FragIn(Inputs, b, pos, k)) = Cardinality(OpenLots(books[k]))
      <4> HIDE DEF K
      <4> QED BY <1>2, <3>1, <3>4, <3>5, FragOpen DEF d
    <3>7. Cardinality(OpenLots(books[k])) = 1
      BY <1>1, <1>2, <2>3 DEF Exact
    <3> QED BY <3>6, <3>7
  <2> QED BY <1>3, <2>2, <2>3 DEF FifoBook
<1>4. method \in {"fifo", "hybrid"} =>
        \A k \in Keys :
          LET busy == work'.on /\ k = Key(Inputs, Inputs[pos' + 1])
          IN FifoBook(Inputs, pos', k, books'[k], IF busy THEN Inputs[pos' + 1].qty - work'.left ELSE 0, busy)
  <2> SUFFICES ASSUME method \in {"fifo", "hybrid"}, NEW k \in Keys
               PROVE  LET busy == work'.on /\ k = Key(Inputs, Inputs[pos' + 1])
                      IN FifoBook(Inputs, pos', k, books'[k],
                                  IF busy THEN Inputs[pos' + 1].qty - work'.left ELSE 0, busy)
    OBVIOUS
  <2> DEFINE busy == work'.on /\ k = Key(Inputs, Inputs[pos' + 1])
             d == IF busy THEN Inputs[pos' + 1].qty - work'.left ELSE 0
  <2>1. busy \in BOOLEAN /\ (busy => k = K)
    BY <1>1, <1>2
  <2>2. Inputs[pos' + 1].qty - work'.left = 0
    BY <1>1, <1>2
  <2>3. d = 0
    BY <2>2
  <2> HIDE DEF busy, d, K
  <2>4. FifoBook(Inputs, pos, k, books[k], 0, busy)
    BY <1>3, <2>1
  <2>5. FifoBook(Inputs, pos', k, books'[k], d, busy)
    BY <1>1, <2>3, <2>4
  <2> QED BY <2>5 DEF busy, d
<1> QED BY <1>1, <1>4, FifoThen

\* The next lot of a disposal is the oldest that is open.
LEMMA FifoHead ==
  ASSUME TypeOK, Working, work.on, work.left > 0, work.queue # <<>>, method \in {"fifo", "hybrid"}
  PROVE  \A s \in DOMAIN Book.lots : s < Head(work.queue) => Book.lots[s].qty = 0
<1> DEFINE r == Head(work.queue)
<1> SUFFICES ASSUME NEW s \in DOMAIN Book.lots, s < r, Book.lots[s].qty # 0
             PROVE  FALSE
  OBVIOUS
<1>1. work \in Works /\ Book \in Books /\ pos < Len(Inputs)
  BY InputType DEF TypeOK, Working
<1>2. work.queue \in Seq(Nat) /\ r = work.queue[1] /\ 1 \in DOMAIN work.queue
  BY <1>1 DEF Works
<1>3. Book.lots \in Seq(Lots) /\ s \in Nat /\ Book.lots[s].qty \in Nat
  <2>1. Book.lots \in Seq(Lots)
    BY <1>1 DEF Books
  <2> QED BY <2>1, LotValues
<1>4. s \in OpenLots(Book)
  BY <1>3 DEF OpenLots
<1>5. PICK m \in DOMAIN work.queue : work.queue[m] = s
  BY <1>4 DEF Working, Queued
<1>6. r \in Nat /\ m # 1 /\ m \in Nat /\ 1 < m
  <2>1. r \in Nat /\ m \in Nat /\ 1 <= m
    BY <1>2
  <2> QED BY <1>2, <1>3, <1>5, <2>1
<1>7. Before(Book.lots, r, s)
  <2> HIDE DEF r
  <2> QED BY <1>2, <1>5, <1>6 DEF Working, Queued
<1>8. r < s
  BY <1>7 DEF Before
<1> QED BY <1>3, <1>6, <1>8

LEMMA FifoTakes ==
  ASSUME IInv, QtyInv, FifoInv, LotDone
  PROVE  FifoInv'
<1> DEFINE K == Key(Inputs, Input)
           c == [Book EXCEPT !.lots = LotsAfter]
           t == Taken(Next1)
           r == Head(work.queue)
<1>1. /\ Replaying /\ pos < Len(Inputs) /\ work.on /\ TypeOK /\ books' = Put(c) /\ Working
      /\ history' = history /\ method' = method /\ year' = year /\ pos' = pos
      /\ work.left > 0 /\ work.queue # <<>>
      /\ work' = [work EXCEPT !.queue = Tail(@), !.left = @ - t, !.allocated = @ + FromLot]
  BY DEF LotDone, IInv, WorkInv
<1>2. /\ r \in OpenLots(Book) /\ Next1 \in Lots /\ Next1.qty > 0
      /\ LotsAfter \in Seq(Lots) /\ DOMAIN LotsAfter = DOMAIN Book.lots
      /\ \A j \in DOMAIN Book.lots \ {r} : LotsAfter[j] = Book.lots[j]
      /\ LotsAfter[r].qty = Next1.qty - t
      /\ c \in Books /\ ~c.pooled /\ c.lots = LotsAfter
      /\ work'.on /\ work'.left = work.left - t
  BY <1>1, LotsAfterType
<1>3. /\ t \in Nat /\ t <= Next1.qty /\ Next1 = Book.lots[r] /\ r \in DOMAIN Book.lots
  BY <1>1, <1>2, TakenIs DEF Next1, OpenLots
<1>4. /\ Inputs \in Seq(Activities) /\ pos \in 0..(Len(Inputs) - 1) /\ pos \in Nat
      /\ K \in Keys /\ Book \in Books /\ Book = books[K] /\ Input = Inputs[pos + 1]
      /\ Input.qty \in Nat /\ books \in [Keys -> Books] /\ work.left \in Nat /\ Book.lots \in Seq(Lots)
  <2>1. Inputs \in Seq(Activities) /\ pos \in 0..(Len(Inputs) - 1) /\ pos \in Nat
    BY <1>1, InputsType DEF TypeOK
  <2>2. Book \in Books
    BY <1>1, InputType
  <2> QED BY <1>1, <2>1, <2>2, InputType DEF TypeOK, Input, Book, Works, Books
<1>5. \A k \in Keys : Put(c)[k] = IF k = K THEN c ELSE books[k]
  <2> HIDE DEF c
  <2> QED BY <1>4 DEF Put
<1>6. \A k \in Keys : Pending(k) = (IF k = K THEN Input.qty - work.left ELSE 0) /\ (Busy(k) <=> k = K)
  BY <1>1 DEF Pending, Busy
<1>8. ASSUME method \in {"fifo", "hybrid"}
      PROVE  FifoBook(Inputs, pos, K, c, Pending(K) + t, TRUE)
  <2>1. FifoBook(Inputs, pos, K, Book, Pending(K), TRUE)
    <3>1. FifoBook(Inputs, pos, K, books[K], Pending(K), Busy(K)) /\ Busy(K) = TRUE
      BY <1>1, <1>4, <1>6, <1>8 DEF FifoInv, Busy
    <3> HIDE DEF K
    <3> QED BY <1>4, <3>1
  <2>0. Pending(K) \in Nat
    BY <2>1 DEF FifoBook
  <2>2. PICK b \in 0..pos : /\ FifoAt(Inputs, b, pos, K, Book, Pending(K))
                            /\ method = "hybrid" => ~(Cardinality(FragIn(Inputs, b, pos, K)) > 1)
    BY <2>1 DEF FifoBook
  <2> DEFINE s == SoldIn(Inputs, b, pos, K)
             d == s + Pending(K)
  <2>3. b \in Nat /\ pos \in b..Len(Inputs) /\ pos \in 0..Len(Inputs) /\ b \in 0..pos
    BY <1>4, <2>2
  <2>4. /\ LastEmpty(Inputs, b, pos, K) /\ OldestGone(Book.lots, Inputs, b, pos, K, d)
        /\ method = "hybrid" => (Book.pooled <=> Crowded(Inputs, b, pos, K))
    BY <2>2 DEF FifoAt
  <2>5. s \in Nat /\ d \in Nat
    <3>1. s \in Nat
      BY <1>4, <2>3, <2>4, SoldOfBought
    <3> QED BY <2>0, <3>1
  <2>6. \A q \in DOMAIN Book.lots : q < r => Book.lots[q].qty = 0
    BY <1>1, <1>8, FifoHead
  <2>7. OldestGone(LotsAfter, Inputs, b, pos, K, d + t)
    <3> HIDE DEF d, t, r, K
    <3> QED BY <1>2, <1>3, <1>4, <2>3, <2>4, <2>5, <2>6, GoneTaken, ZenonT(30)
  <2>8. d + t = s + (Pending(K) + t)
    <3> HIDE DEF t, K, s
    <3> QED BY <1>3, <2>0, <2>5
  <2>9. OldestGone(c.lots, Inputs, b, pos, K, SoldIn(Inputs, b, pos, K) + (Pending(K) + t))
    <3> HIDE DEF c, t, K, d
    <3> QED BY <1>2, <2>7, <2>8
  <2>10. method = "hybrid" => (c.pooled <=> Crowded(Inputs, b, pos, K))
    <3>1. ~Book.pooled
      BY DEF LotDone
    <3> HIDE DEF c
    <3> QED BY <1>2, <2>4, <3>1
  <2>11. FifoAt(Inputs, b, pos, K, c, Pending(K) + t)
    <3> HIDE DEF c, K, t
    <3> QED BY <2>4, <2>9, <2>10 DEF FifoAt
  <2>12. Pending(K) + t \in Nat
    BY <1>3, <2>0
  <2> HIDE DEF c, K, t
  <2> QED BY <2>2, <2>11, <2>12 DEF FifoBook
<1>9. ASSUME method \in {"fifo", "hybrid"}, NEW k \in Keys
      PROVE  LET busy == work'.on /\ k = Key(Inputs, Inputs[pos' + 1])
             IN FifoBook(Inputs, pos', k, books'[k],
                         IF busy THEN Inputs[pos' + 1].qty - work'.left ELSE 0, busy)
  <2> DEFINE busy == work'.on /\ k = Key(Inputs, Inputs[pos' + 1])
             d == IF busy THEN Inputs[pos' + 1].qty - work'.left ELSE 0
  <2>1. CASE k = K
    <3>1. busy = TRUE
      BY <1>1, <1>2, <1>4, <2>1
    <3>2. Input.qty - work'.left = Pending(K) + t
      <4>1. Pending(K) = Input.qty - work.left
        BY <1>4, <1>6
      <4> HIDE DEF K, t
      <4> QED BY <1>2, <1>3, <1>4, <4>1
    <3>3. d = Pending(K) + t
      <4>1. d = Input.qty - work'.left
        BY <1>1, <1>4, <3>1
      <4> QED BY <3>2, <4>1
    <3>4. books'[k] = c
      <4> HIDE DEF c
      <4> QED BY <1>1, <1>5, <1>9, <2>1
    <3> HIDE DEF busy, d, c, K, t
    <3>5. FifoBook(Inputs, pos', k, books'[k], d, busy)
      BY <1>1, <1>8, <1>9, <2>1, <3>1, <3>3, <3>4
    <3> QED BY <3>5 DEF busy, d
  <2>2. CASE k # K
    <3>1. busy = FALSE /\ d = 0
      BY <1>1, <1>4, <2>2
    <3>2. books'[k] = books[k]
      <4> HIDE DEF c
      <4> QED BY <1>1, <1>5, <1>9, <2>2
    <3>3. FifoBook(Inputs, pos, k, books[k], 0, FALSE)
      <4>1. FifoBook(Inputs, pos, k, books[k], Pending(k), Busy(k)) /\ Pending(k) = 0 /\ Busy(k) = FALSE
        BY <1>1, <1>6, <1>9, <2>2 DEF FifoInv, Busy
      <4> QED BY <4>1
    <3> HIDE DEF busy, d
    <3>4. FifoBook(Inputs, pos', k, books'[k], d, busy)
      BY <1>1, <3>1, <3>2, <3>3
    <3> QED BY <3>4 DEF busy, d
  <2> QED BY <2>1, <2>2
<1>10. method \in {"fifo", "hybrid"} =>
         \A k \in Keys :
           LET busy == work'.on /\ k = Key(Inputs, Inputs[pos' + 1])
           IN FifoBook(Inputs, pos', k, books'[k], IF busy THEN Inputs[pos' + 1].qty - work'.left ELSE 0, busy)
  BY <1>9
<1> QED BY <1>1, <1>10, FifoThen

LEMMA FifoSteps ==
  ASSUME IInv, QtyInv, FifoInv, [Next]_vars
  PROVE  FifoInv'
<1>1. CASE BuyDone
  BY <1>1, FifoBuys
<1>2. CASE LotsDone
  BY <1>2, FifoLots
<1>3. CASE PoolDone
  BY <1>3, FifoPool
<1>4. CASE LotsBegun
  BY <1>4, FifoBegun
<1>5. CASE LotDone
  BY <1>5, FifoTakes
<1>6. CASE Failed \/ Finish
  <2>1. /\ ~Replaying' /\ books' = [k \in Keys |-> NewBook] /\ method' = method
    BY <1>6 DEF Failed, Abort, Finish, Replaying
  <2>2. NewBook' = NewBook
    BY <2>1 DEF NewBook
  <2> QED BY <2>1, <2>2 DEF FifoInv
<1>7. ASSUME NEW y \in Years, Begin(y) PROVE FifoInv'
  <2>1. pos' = 0 /\ books' = [k \in Keys |-> NewBook] /\ ~Replaying /\ method' = method /\ work' = work
    BY <1>7 DEF Begin
  <2>2. ~work'.on
    BY <2>1, NewTypes DEF IInv, WorkInv, Working
  <2>3. \A h, n, k, c, d, busy : FifoBook(h, n, k, c, d, busy)' <=> FifoBook(h, n, k, c, d, busy)
    BY <2>1, FifoSame
  <2>4. ASSUME method \in {"fifo", "hybrid"}, NEW k \in Keys
        PROVE  FifoBook(Inputs, pos, k, books[k], Pending(k), Busy(k))'
    <3>1. \A h, busy : busy = FALSE => FifoBook(h, 0, k, NewBook, 0, busy)
      BY <2>4, FifoStart
    <3>2. Pending(k)' = 0 /\ Busy(k)' = FALSE
      BY <2>2 DEF Pending, Busy
    <3>3. books'[k] = NewBook
      BY <2>1, <2>4
    <3> QED BY <2>1, <2>3, <3>1, <3>2, <3>3
  <2>5. Replaying'
    BY <1>7 DEF Begin, Replaying, Years
  <2> QED BY <2>1, <2>4, <2>5 DEF FifoInv
<1>8. ASSUME NEW a \in Activities, Record(a) PROVE FifoInv'
  <2>1. ~Replaying /\ ~Replaying' /\ books' = books /\ method' = method
    BY <1>8 DEF Record, Replaying
  <2>2. NewBook' = NewBook
    BY <2>1 DEF NewBook
  <2> QED BY <2>1, <2>2 DEF FifoInv
<1>9. CASE UNCHANGED vars
  <2>1. /\ history' = history /\ year' = year /\ method' = method /\ pos' = pos /\ work' = work
        /\ books' = books
    BY <1>9 DEF vars
  <2>2. CASE ~Replaying
    <3>1. NewBook' = NewBook /\ (Replaying' <=> Replaying)
      BY <2>1 DEF NewBook, Replaying
    <3> QED BY <2>1, <2>2, <3>1 DEF FifoInv
  <2>3. CASE Replaying
    <3>1. ASSUME method \in {"fifo", "hybrid"}, NEW k \in Keys
          PROVE  LET busy == work'.on /\ k = Key(Inputs, Inputs[pos' + 1])
                 IN FifoBook(Inputs, pos', k, books'[k],
                             IF busy THEN Inputs[pos' + 1].qty - work'.left ELSE 0, busy)
      <4>1. FifoBook(Inputs, pos, k, books[k], Pending(k), Busy(k))
        BY <2>3, <3>1 DEF FifoInv
      <4>2. /\ Pending(k) = IF Busy(k) THEN Input.qty - work.left ELSE 0
            /\ Busy(k) = (work.on /\ k = Key(Inputs, Input)) /\ Input = Inputs[pos + 1]
        BY DEF Pending, Busy, Input
      <4> QED BY <2>1, <4>1, <4>2
    <3> QED BY <2>1, <2>3, <3>1, FifoThen
  <2> QED BY <2>2, <2>3
<1> QED BY <1>1, <1>2, <1>3, <1>4, <1>5, <1>6, <1>7, <1>8, <1>9, Steps

LEMMA FifoAlways == Spec => [](IInv /\ QtyInv /\ FifoInv)
<1>1. Init => FifoInv
  BY DEF Init, Replaying, FifoInv
<1>2. ASSUME IInv, QtyInv, FifoInv, [Next]_vars PROVE FifoInv'
  BY <1>2, FifoSteps
<1>3. Spec => [](IInv /\ QtyInv)
  BY QtyAlways, PTL
<1> QED BY <1>1, <1>2, <1>3, PTL DEF Spec

-----------------------------------------------------------------------------
(* What that says of the lots and pools.                                   *)

\* The sums that the properties are written with.
LEMMA QuantityIs ==
  ASSUME NEW S \in SUBSET DOMAIN Inputs, IsFiniteSet(S)
  PROVE  Quantity(S) = SumFunctionOnSet(QtyAt(Inputs), S)
<1> DEFINE f == [i \in S |-> Inputs[i].qty]
           g == QtyAt(Inputs)
<1>1. \A i \in S : f[i] = g[i]
  BY DEF QtyAt
<1> HIDE DEF f, g
<1>2. SumFunctionOnSet(f, S) = SumFunctionOnSet(g, S)
  BY <1>1, SumSame
<1> QED BY <1>2 DEF Quantity, f, g

LEMMA AmongFinite ==
  ASSUME NEW b \in Int, NEW n \in Int, NEW S, S \subseteq (b + 1)..n
  PROVE  IsFiniteSet(S)
<1>1. IsFiniteSet((b + 1)..n)
  <2>1. b + 1 \in Int
    OBVIOUS
  <2> QED BY <2>1, FS_Interval
<1> QED BY <1>1, FS_Subset

LEMMA ProvenanceIs == IInv /\ QtyInv /\ FifoInv => ProvenanceCovers
<1> SUFFICES ASSUME IInv, QtyInv, FifoInv, method = "hybrid", NEW k \in Keys, books[k].pooled
             PROVE  SumFunction(QtyOf(books[k].lots)) = books[k].qty
  BY DEF ProvenanceCovers
<1>1. Replaying
  <2>1. ~NewBook.pooled
    BY DEF NewBook
  <2> QED BY <2>1 DEF FifoInv
<1>2. TypeOK /\ (work.on => Working)
  BY DEF IInv, WorkInv
<1>3. Pending(k) = 0
  <2>1. ~Busy(k)
    BY <1>2 DEF Busy, Working, Book
  <2> QED BY <2>1 DEF Busy, Pending
<1>4. /\ Inputs \in Seq(Activities) /\ pos \in 0..Len(Inputs) /\ pos \in Nat /\ books[k] \in Books
      /\ books[k].lots \in Seq(Lots)
  <2>1. Inputs \in Seq(Activities) /\ pos \in 0..Len(Inputs) /\ pos \in Nat /\ books[k] \in Books
    BY <1>2, InputsType DEF TypeOK
  <2> QED BY <2>1 DEF Books
<1>5. PICK b \in 0..pos : FifoAt(Inputs, b, pos, k, books[k], 0)
  BY <1>1, <1>3 DEF FifoInv, FifoBook
<1> DEFINE B == BoughtIn(Inputs, b, pos, k)
           s == SoldIn(Inputs, b, pos, k)
           H == HeldIn(Inputs, pos, k)
<1>6. b \in Nat /\ pos \in b..Len(Inputs) /\ b \in 0..pos
  BY <1>4, <1>5
<1>7. B \in Nat /\ s \in Nat /\ H = B - s
  BY <1>4, <1>5, <1>6, SoldOfBought DEF FifoAt
<1>8. H >= 0 /\ books[k].qty = H - 0
  <2>1. BookQty(books[k]) = books[k].qty
    BY DEF BookQty
  <2>2. pos \in 0..pos
    BY <1>4
  <2> QED BY <1>1, <1>3, <2>1, <2>2 DEF QtyInv
<1>9. SumFunction(QtyOf(books[k].lots)) = IF B <= s THEN 0 ELSE B - s
  <2> HIDE DEF s
  <2>1. s + 0 = s
    BY <1>7
  <2>2. OldestGone(books[k].lots, Inputs, b, pos, k, s)
    BY <1>5, <2>1 DEF FifoAt, s
  <2> QED BY <1>4, <1>6, <1>7, <2>2, LotsHold
<1> HIDE DEF B, s, H
<1> QED BY <1>7, <1>8, <1>9

\* Where scopes do not matter.
LEMMA AssetBuys ==
  ASSUME method # "hybrid", NEW h, NEW n
  PROVE  Buys(h, 0, n, Asset) = {j \in 1..n : IsBuy(h[j])} /\ Sales(h, 0, n, Asset) = {j \in 1..n : ~IsBuy(h[j])}
BY DEF Buys, Sales, Key

LEMMA AssetCounts ==
  ASSUME TypeOK, method # "hybrid", NEW n \in 0..pos
  PROVE  /\ LotNo(n) = No(Inputs, 0, n, Asset) /\ Bought(1..n) = BoughtIn(Inputs, 0, n, Asset)
         /\ Disposed(1..n) = SoldIn(Inputs, 0, n, Asset)
<1>1. Inputs \in Seq(Activities) /\ pos \in 0..Len(Inputs) /\ 1..n \subseteq DOMAIN Inputs /\ n \in Int /\ 0 \in Int
  <2>1. Inputs \in Seq(Activities) /\ pos \in 0..Len(Inputs) /\ Len(Inputs) \in Nat
    BY InputsType DEF TypeOK
  <2> QED BY <2>1
<1>2. /\ Buys(Inputs, 0, n, Asset) = {j \in 1..n : IsBuy(Inputs[j])}
      /\ Sales(Inputs, 0, n, Asset) = {j \in 1..n : ~IsBuy(Inputs[j])}
  BY AssetBuys
<1>3. IsFiniteSet(Buys(Inputs, 0, n, Asset)) /\ IsFiniteSet(Sales(Inputs, 0, n, Asset))
  <2>1. IsFiniteSet(1..n)
    BY <1>1, FS_Interval
  <2> QED BY <1>2, <2>1, FS_Subset
<1>4. Buys(Inputs, 0, n, Asset) \in SUBSET DOMAIN Inputs /\ Sales(Inputs, 0, n, Asset) \in SUBSET DOMAIN Inputs
  BY <1>1, <1>2
<1>5. Quantity(Buys(Inputs, 0, n, Asset)) = BoughtIn(Inputs, 0, n, Asset)
  BY <1>3, <1>4, QuantityIs DEF BoughtIn
<1>6. Quantity(Sales(Inputs, 0, n, Asset)) = SoldIn(Inputs, 0, n, Asset)
  BY <1>3, <1>4, QuantityIs DEF SoldIn
<1>7. LotNo(n) = No(Inputs, 0, n, Asset)
  BY <1>2 DEF LotNo, No
<1>8. Bought(1..n) = Quantity(Buys(Inputs, 0, n, Asset)) /\ Disposed(1..n) = Quantity(Sales(Inputs, 0, n, Asset))
  BY <1>2 DEF Bought, Disposed
<1> QED BY <1>5, <1>6, <1>7, <1>8

LEMMA FifoIs ==
  ASSUME IInv, FifoInv, Replaying, ~work.on, method = "fifo", NEW i \in 1..pos, IsBuy(Inputs[i])
  PROVE  books[Asset].lots[LotNo(i)].qty = Clamp(Bought(1..i) - Disposed(1..pos), Inputs[i].qty)
<1>1. TypeOK /\ Asset \in Keys
  BY DEF IInv, Keys
<1>2. pos \in Nat /\ i \in 0..pos /\ pos \in 0..pos
  BY <1>1, InputsType DEF TypeOK
<1>3. FifoBook(Inputs, pos, Asset, books[Asset], Pending(Asset), Busy(Asset)) /\ Pending(Asset) = 0
  BY <1>1 DEF FifoInv, Pending
<1>4. FifoAt(Inputs, 0, pos, Asset, books[Asset], 0)
  BY <1>3 DEF FifoBook, FifoAt, LastEmpty
<1>5. i \in Buys(Inputs, 0, pos, Asset)
  BY AssetBuys
<1>6. /\ LotNo(i) = No(Inputs, 0, i, Asset) /\ Bought(1..i) = BoughtIn(Inputs, 0, i, Asset)
      /\ Disposed(1..pos) = SoldIn(Inputs, 0, pos, Asset)
  BY <1>1, <1>2, AssetCounts
<1>7. books[Asset].lots[No(Inputs, 0, i, Asset)].qty
        = Clamp(BoughtIn(Inputs, 0, i, Asset) - (SoldIn(Inputs, 0, pos, Asset) + 0), Inputs[i].qty)
  BY <1>4, <1>5 DEF FifoAt, OldestGone
<1>8. SoldIn(Inputs, 0, pos, Asset) \in Nat
  <2>1. Inputs \in Seq(Activities) /\ pos \in 0..Len(Inputs) /\ 0 \in Nat
    BY <1>1, InputsType DEF TypeOK
  <2>2. Scoped(Inputs, 0, pos, Asset)
    BY <2>1, ScopedIs
  <2> QED BY <2>2 DEF Scoped
<1>9. SoldIn(Inputs, 0, pos, Asset) + 0 = SoldIn(Inputs, 0, pos, Asset)
  BY <1>8
<1> QED BY <1>6, <1>7, <1>9

LEMMA MaxIs ==
  ASSUME NEW S \in SUBSET Int, NEW x \in S, \A y \in S : y <= x
  PROVE  Max(S) = x
<1>1. \E z \in S : \A y \in S : z >= y
  OBVIOUS
<1>2. Max(S) \in S /\ \A y \in S : Max(S) >= y
  BY <1>1 DEF Max
<1> DEFINE m == Max(S)
<1>3. m \in Int /\ m <= x /\ m >= x /\ x \in Int
  BY <1>2
<1> HIDE DEF m
<1>4. m = x
  BY <1>3
<1> QED BY <1>4 DEF m

\* What the activities of a scope since it was last empty are.
LEMMA SinceIs ==
  ASSUME TypeOK, method = "hybrid", NEW k, NEW b \in 0..pos, LastEmpty(Inputs, b, pos, k)
  PROVE  SinceEmpty(k) = {i \in (b + 1)..pos : Key(Inputs, Inputs[i]) = k}
<1> DEFINE S == {n \in 0..pos : HeldIn(Inputs, n, k) = 0}
<1>1. pos \in Nat /\ b \in Int
  BY InputsType DEF TypeOK
<1>2. S \in SUBSET Int /\ b \in S
  BY DEF LastEmpty
<1>3. \A y \in S : y <= b
  <2> SUFFICES ASSUME NEW y \in S, ~(y <= b) PROVE FALSE
    OBVIOUS
  <2>1. y \in (b + 1)..pos /\ HeldIn(Inputs, y, k) = 0
    BY <1>1
  <2> QED BY <2>1 DEF LastEmpty
<1>4. Max(S) = b
  <2> HIDE DEF S
  <2> QED BY <1>2, <1>3, MaxIs
<1> QED BY <1>4 DEF SinceEmpty

\* How many of its acquisitions were open before an activity.
LEMMA FragmentsAre ==
  ASSUME TypeOK, NEW k, NEW b \in 0..pos, NEW p \in (b + 1)..pos
  PROVE  Fragments({i \in (b + 1)..(p - 1) : Key(Inputs, Inputs[i]) = k}) = Cardinality(FragIn(Inputs, b, p - 1, k))
<1> DEFINE h == Inputs
           n == p - 1
           S == {i \in (b + 1)..n : Key(h, h[i]) = k}
<1>1. h \in Seq(Activities) /\ pos \in 0..Len(h) /\ Len(h) \in Nat /\ pos \in Nat /\ b \in Nat /\ DOMAIN h = 1..Len(h)
  BY InputsType DEF TypeOK
<1>2. n \in b..Len(h) /\ n \in Nat /\ n <= pos /\ n <= Len(h)
  BY <1>1
<1> HIDE DEF h, n
<1>3. Disposed(S) = SoldIn(h, b, n, k)
  <2>1. {i \in S : ~IsBuy(h[i])} = Sales(h, b, n, k)
    BY DEF Sales
  <2>2. Sales(h, b, n, k) \subseteq (b + 1)..n /\ Sales(h, b, n, k) \in SUBSET DOMAIN h
    BY <1>1, <1>2 DEF Sales
  <2>3. IsFiniteSet(Sales(h, b, n, k))
    BY <1>1, <1>2, <2>2, AmongFinite
  <2>4. Quantity(Sales(h, b, n, k)) = SumFunctionOnSet(QtyAt(h), Sales(h, b, n, k))
    BY <2>2, <2>3, QuantityIs DEF h
  <2>5. Disposed(S) = Quantity({i \in S : ~IsBuy(h[i])})
    BY DEF Disposed, h
  <2> HIDE DEF S
  <2> QED BY <2>1, <2>4, <2>5 DEF SoldIn
<1>4. ASSUME NEW i \in S PROVE Bought({j \in S : j <= i}) = BoughtIn(h, b, i, k)
  <2>1. i \in (b + 1)..n /\ i \in Int /\ b \in Int
    BY <1>2
  <2>2. {j \in {l \in S : l <= i} : IsBuy(h[j])} = Buys(h, b, i, k)
    BY <1>1, <1>2, <2>1 DEF Buys
  <2>3. Buys(h, b, i, k) \subseteq (b + 1)..i /\ Buys(h, b, i, k) \in SUBSET DOMAIN h
    BY <1>1, <1>2, <2>1 DEF Buys
  <2>4. IsFiniteSet(Buys(h, b, i, k))
    BY <2>1, <2>3, AmongFinite
  <2>5. Quantity(Buys(h, b, i, k)) = SumFunctionOnSet(QtyAt(h), Buys(h, b, i, k))
    BY <2>3, <2>4, QuantityIs DEF h
  <2>6. Bought({j \in S : j <= i}) = Quantity({j \in {l \in S : l <= i} : IsBuy(h[j])})
    BY DEF Bought, h
  <2> HIDE DEF S
  <2> QED BY <2>2, <2>5, <2>6 DEF BoughtIn
<1>5. {i \in S : IsBuy(h[i])} = Buys(h, b, n, k)
  BY DEF Buys
<1>6. \A i \in S : Bought({j \in S : j <= i}) > Disposed(S) <=> BoughtIn(h, b, i, k) > SoldIn(h, b, n, k)
  <2> HIDE DEF S
  <2> QED BY <1>3, <1>4
<1>7. {i \in S : IsBuy(h[i]) /\ Bought({j \in S : j <= i}) > Disposed(S)} = FragIn(h, b, n, k)
  <2> HIDE DEF S
  <2> QED BY <1>5, <1>6 DEF FragIn
<1>8. Fragments(S) = Cardinality(FragIn(h, b, n, k))
  BY <1>7 DEF Fragments, h
<1> QED BY <1>8 DEF h, n

LEMMA FallbackIs == IInv /\ QtyInv /\ FifoInv => FallbackByHistory
<1> SUFFICES ASSUME IInv, QtyInv, FifoInv, Replaying, ~work.on, method = "hybrid", NEW k \in Keys
             PROVE  books[k].pooled <=>
                      \E p \in SinceEmpty(k) : /\ ~IsBuy(Inputs[p])
                                               /\ Fragments({i \in SinceEmpty(k) : i < p}) > 1
  BY DEF FallbackByHistory
<1>1. TypeOK /\ pos \in Nat
  BY InputsType DEF IInv, TypeOK
<1>2. PICK b \in 0..pos : FifoAt(Inputs, b, pos, k, books[k], Pending(k))
  BY DEF FifoInv, FifoBook
<1>3. b \in Nat /\ LastEmpty(Inputs, b, pos, k) /\ (books[k].pooled <=> Crowded(Inputs, b, pos, k))
  BY <1>2 DEF FifoAt
<1>4. SinceEmpty(k) = {i \in (b + 1)..pos : Key(Inputs, Inputs[i]) = k}
  BY <1>1, <1>2, <1>3, SinceIs
<1> DEFINE T == SinceEmpty(k)
<1>5. ASSUME NEW p \in T
      PROVE  Fragments({i \in T : i < p}) = Cardinality(FragIn(Inputs, b, p - 1, k))
  <2>1. p \in (b + 1)..pos /\ p \in Int /\ b \in Int
    BY <1>1, <1>2, <1>4
  <2>2. {i \in T : i < p} = {i \in (b + 1)..(p - 1) : Key(Inputs, Inputs[i]) = k}
    BY <1>1, <1>4, <2>1
  <2>3. Fragments({i \in (b + 1)..(p - 1) : Key(Inputs, Inputs[i]) = k}) = Cardinality(FragIn(Inputs, b, p - 1, k))
    BY <1>1, <1>2, <2>1, FragmentsAre
  <2> HIDE DEF T
  <2> QED BY <2>2, <2>3
<1>6. Sales(Inputs, b, pos, k) = {p \in T : ~IsBuy(Inputs[p])}
  BY <1>4 DEF Sales
<1> HIDE DEF T
<1>7. Crowded(Inputs, b, pos, k) <=> \E p \in T : ~IsBuy(Inputs[p]) /\ Fragments({i \in T : i < p}) > 1
  BY <1>5, <1>6 DEF Crowded
<1> QED BY <1>3, <1>7 DEF T

-----------------------------------------------------------------------------
(* Lots that are taken newest first.                                       *)

LEMMA MinIs ==
  ASSUME NEW S \in SUBSET Nat, S # {}
  PROVE  Min(S) \in S /\ \A y \in S : Min(S) <= y
<1>1. \E x \in S : \A y \in S : x <= y
  BY LeastNumber
<1> QED BY <1>1 DEF Min

\* The least the asset held from activity i to activity n, and then in the middle of a disposal.
Low(h, n, c, i) == Min({Net(h, t) : t \in i..n} \cup {c})

LowAt(h, n, c, i, m) == /\ m \in Nat /\ m <= c /\ \A t \in i..n : m <= Net(h, t)
                        /\ m = c \/ \E t \in i..n : m = Net(h, t)

LEMMA LowIs ==
  ASSUME NEW h, NEW n, NEW c \in Nat, NEW i, \A t \in i..n : Net(h, t) \in Nat
  PROVE  LowAt(h, n, c, i, Low(h, n, c, i))
<1> DEFINE S == {Net(h, t) : t \in i..n} \cup {c}
<1>1. S \in SUBSET Nat /\ S # {}
  OBVIOUS
<1>2. Min(S) \in S /\ \A y \in S : Min(S) <= y
  <2> HIDE DEF S
  <2> QED BY <1>1, MinIs
<1> DEFINE m == Min(S)
<1>3. m \in S /\ (\A y \in S : m <= y) /\ m \in Nat
  BY <1>1, <1>2
<1> HIDE DEF m
<1>4. LowAt(h, n, c, i, m)
  BY <1>3 DEF LowAt
<1> QED BY <1>4 DEF m, Low

LEMMA LowOnly ==
  ASSUME NEW h, NEW n, NEW c \in Nat, NEW i, \A t \in i..n : Net(h, t) \in Nat,
         NEW m, LowAt(h, n, c, i, m)
  PROVE  Low(h, n, c, i) = m
<1> DEFINE l == Low(h, n, c, i)
<1>1. LowAt(h, n, c, i, l)
  BY LowIs
<1> HIDE DEF l
<1>2. l \in Nat /\ m \in Nat /\ l <= m /\ m <= l
  BY <1>1 DEF LowAt
<1>3. l = m
  BY <1>2
<1> QED BY <1>3 DEF l

\* The lots of the asset after n activities, when c units are left.
NewestGone(lots, h, n, c) ==
  /\ Len(lots) = No(h, 0, n, Asset)
  /\ \A i \in Buys(h, 0, n, Asset) :
       lots[No(h, 0, i, Asset)].qty = Clamp(Low(h, n, c, i) - Net(h, i - 1), h[i].qty)

\* What the sync accepts, where scopes do not matter.
Whole(h) == \A i \in DOMAIN h : Key(h, h[i]) = Asset
NeverShort(h, n) == \A t \in 0..n : Net(h, t) \in Nat

\* The asset before and after an acquisition.
LEMMA NetBuy ==
  ASSUME NEW h \in Seq(Activities), NEW n \in 0..Len(h), NeverShort(h, n), NEW i \in Buys(h, 0, n, Asset)
  PROVE  /\ i \in 1..n /\ i - 1 \in 0..n /\ h[i].qty \in Nat \ {0} /\ i \in 0..n
         /\ Net(h, i - 1) \in Nat /\ Net(h, i) \in Nat /\ Net(h, i) = Net(h, i - 1) + h[i].qty
<1> DEFINE l == i - 1
<1>1. i \in 1..n /\ i \in DOMAIN h /\ IsBuy(h[i])
  BY DEF Buys
<1>2. l \in 0..n /\ l \in 0..(Len(h) - 1) /\ l + 1 = i /\ i \in 0..n
  BY <1>1
<1> HIDE DEF l
<1>3. Net(h, l) \in Int /\ Net(h, l + 1) = Net(h, l) + Signed(h[l + 1])
  BY <1>2, NetMore
<1>4. Signed(h[i]) = h[i].qty /\ h[i].qty \in Nat \ {0}
  BY <1>1, SignedIs
<1>5. Net(h, l) \in Nat /\ Net(h, i) \in Nat
  BY <1>2 DEF NeverShort
<1>6. Net(h, i) = Net(h, l) + h[i].qty
  BY <1>2, <1>3, <1>4
<1> QED BY <1>1, <1>2, <1>4, <1>5, <1>6 DEF l

\* Where all later lots are closed, nothing was held less of since a lot was bought than now.
LEMMA LaterClosed ==
  ASSUME NEW h \in Seq(Activities), Whole(h), NEW n \in 0..Len(h), NeverShort(h, n),
         NEW c \in Nat, c <= Net(h, n), NEW i \in Buys(h, 0, n, Asset),
         \A j \in Buys(h, 0, n, Asset) : i < j => Low(h, n, c, j) <= Net(h, j - 1)
  PROVE  Low(h, n, c, i) = c /\ \A t \in i..n : c <= Net(h, t)
<1> DEFINE Bad == {l \in 0..(n - i) : ~(c <= Net(h, n - l))}
<1>0. i \in 1..n /\ n \in Nat /\ n <= Len(h)
  BY DEF Buys
<1>1. \A t \in i..n : Net(h, t) \in Nat
  BY <1>0 DEF NeverShort
<1>2. ASSUME Bad # {} PROVE FALSE
  <2>1. Bad \in SUBSET Nat
    OBVIOUS
  <2>2. PICK l \in Bad : \A m \in Bad : l <= m
    <3> HIDE DEF Bad
    <3> QED BY <1>2, <2>1, LeastNumber
  <2> DEFINE t == n - l
  <2>3. l \in 0..(n - i) /\ ~(c <= Net(h, t)) /\ l \in Nat /\ t \in i..n /\ t \in Int
    BY <1>0
  <2>4. \A s \in (t + 1)..n : c <= Net(h, s)
    <3> SUFFICES ASSUME NEW s \in (t + 1)..n PROVE c <= Net(h, s)
      OBVIOUS
    <3> DEFINE m == n - s
    <3>1. m \in 0..(n - i) /\ m < l /\ n - m = s /\ m \in Int
      BY <1>0, <2>3
    <3>2. m \notin Bad
      <4> HIDE DEF Bad, m
      <4> QED BY <2>2, <2>3, <3>1
    <3> HIDE DEF m
    <3> QED BY <3>1, <3>2
  <2> HIDE DEF t, Bad
  <2>5. t # n
    BY <2>3
  <2>6. t \in 0..(Len(h) - 1) /\ t + 1 \in 1..n /\ t + 1 \in DOMAIN h /\ t \in 0..n
    BY <1>0, <2>3, <2>5
  <2>7. Net(h, t) \in Nat /\ Net(h, t + 1) \in Nat /\ c <= Net(h, t + 1) /\ Net(h, t + 1) = Net(h, t) + Signed(h[t + 1])
    <3>1. Net(h, t + 1) = Net(h, t) + Signed(h[t + 1])
      BY <2>6, NetMore
    <3>2. t + 1 \in 0..n /\ t + 1 \in (t + 1)..n
      BY <2>6
    <3> QED BY <2>4, <2>6, <3>1, <3>2 DEF NeverShort
  <2>8. IsBuy(h[t + 1])
    <3>1. /\ Signed(h[t + 1]) = IF IsBuy(h[t + 1]) THEN h[t + 1].qty ELSE -h[t + 1].qty
          /\ h[t + 1].qty \in Nat \ {0}
      BY <2>6, SignedIs
    <3> QED BY <2>3, <2>7, <3>1
  <2>9. t + 1 \in Buys(h, 0, n, Asset)
    BY <2>6, <2>8 DEF Buys, Whole
  <2>10. i < t + 1 /\ (t + 1) - 1 = t
    BY <1>0, <2>3
  <2>11. Low(h, n, c, t + 1) <= Net(h, t)
    BY <2>9, <2>10
  <2>12. LowAt(h, n, c, t + 1, c)
    BY <2>4 DEF LowAt
  <2>13. Low(h, n, c, t + 1) = c
    <3>1. \A s \in (t + 1)..n : Net(h, s) \in Nat
      BY <2>6 DEF NeverShort
    <3> DEFINE x == t + 1
    <3>2. LowAt(h, n, c, x, c) /\ \A s \in x..n : Net(h, s) \in Nat
      BY <2>12, <3>1
    <3> HIDE DEF x
    <3>3. Low(h, n, c, x) = c
      BY <3>2, LowOnly
    <3> QED BY <3>3 DEF x
  <2> QED BY <2>3, <2>11, <2>13
<1>3. \A t \in i..n : c <= Net(h, t)
  <2> SUFFICES ASSUME NEW t \in i..n PROVE c <= Net(h, t)
    OBVIOUS
  <2> DEFINE l == n - t
  <2>1. l \in 0..(n - i) /\ n - l = t
    BY <1>0
  <2>2. l \notin Bad
    BY <1>2
  <2> HIDE DEF l
  <2> QED BY <2>1, <2>2
<1>4. LowAt(h, n, c, i, c)
  BY <1>3 DEF LowAt
<1> QED BY <1>1, <1>3, <1>4, LowOnly

\* An activity that is no acquisition changes no lot once all it disposes of is taken.
LEMMA NewestStays ==
  ASSUME NEW h \in Seq(Activities), NEW n \in 0..(Len(h) - 1), NEW lots, ~IsBuy(h[n + 1]),
         NewestGone(lots, h, n, Net(h, n + 1))
  PROVE  NewestGone(lots, h, n + 1, Net(h, n + 1))
<1> DEFINE c == Net(h, n + 1)
<1>1. Buys(h, 0, n + 1, Asset) = Buys(h, 0, n, Asset)
  <2>1. 0 \in Nat /\ n \in 0..(Len(h) - 1)
    OBVIOUS
  <2>2. Adds(h, 0, n, Asset)
    BY <2>1, ScopeMore
  <2> QED BY <2>2 DEF Adds
<1>2. ASSUME NEW i \in Buys(h, 0, n, Asset)
      PROVE  Low(h, n + 1, c, i) = Low(h, n, c, i)
  <2>1. \A t : t \in i..(n + 1) <=> t \in i..n \/ t = n + 1
    <3>1. i \in 1..n /\ n \in Nat
      BY DEF Buys
    <3> QED BY <3>1
  <2>2. {Net(h, t) : t \in i..(n + 1)} \cup {c} = {Net(h, t) : t \in i..n} \cup {c}
    BY <2>1
  <2> QED BY <2>2 DEF Low
<1> HIDE DEF c
<1>3. NewestGone(lots, h, n, c)
  BY DEF c
<1>4. NewestGone(lots, h, n + 1, c)
  BY <1>1, <1>2, <1>3 DEF NewestGone, No
<1> QED BY <1>4 DEF c

\* An acquisition is a new lot, and what was held before stays held.
LEMMA NewestBought ==
  ASSUME NEW h \in Seq(Activities), Whole(h), NEW n \in 0..(Len(h) - 1), NeverShort(h, n),
         NEW lots \in Seq(Lots), IsBuy(h[n + 1]), NewestGone(lots, h, n, Net(h, n)),
         NEW l \in Lots, l.qty = h[n + 1].qty
  PROVE  NewestGone(Append(lots, l), h, n + 1, Net(h, n + 1))
<1> DEFINE x == n + 1
           N == No(h, 0, n, Asset)
           q == h[x].qty
           more == Append(lots, l)
           c == Net(h, n)
           e == Net(h, x)
<1>0. 0 \in Nat /\ n \in Nat /\ n \in 0..Len(h) /\ x \in 0..Len(h) /\ x \in Int /\ x \in DOMAIN h
  OBVIOUS
<1>1. /\ N \in Nat /\ q \in Nat \ {0} /\ x \in DOMAIN h
      /\ Buys(h, 0, x, Asset) = Buys(h, 0, n, Asset) \cup {x}
      /\ No(h, 0, x, Asset) = N + 1
  <2>1. Adds(h, 0, n, Asset)
    BY <1>0, ScopeMore
  <2> QED BY <1>0, <2>1 DEF Adds, Whole
<1>2. /\ Len(lots) = N /\ more \in Seq(Lots) /\ Len(more) = N + 1 /\ more[N + 1] = l
      /\ \A r \in 1..N : more[r] = lots[r]
  <2>1. Len(lots) = N
    BY DEF NewestGone
  <2> QED BY <1>1, <2>1
<1>3. c \in Nat /\ e \in Nat /\ e = c + q
  <2>1. e = c + Signed(h[x])
    BY NetMore
  <2>2. Signed(h[x]) = q
    BY <1>0, SignedIs
  <2>3. c \in Nat
    BY <1>0 DEF NeverShort
  <2> HIDE DEF c, e, q
  <2> QED BY <1>1, <2>1, <2>2, <2>3
<1>4. \A t \in 0..x : Net(h, t) \in Nat
  <2>1. \A t \in 0..x : t \in 0..n \/ t = x
    BY <1>0
  <2> QED BY <1>3, <2>1 DEF NeverShort
<1>5. x - 1 = n
  BY <1>0
<1> HIDE DEF x, N, q, more, c, e
<1>6. ASSUME NEW i \in Buys(h, 0, n, Asset)
      PROVE  more[No(h, 0, i, Asset)].qty = Clamp(Low(h, x, e, i) - Net(h, i - 1), h[i].qty)
  <2>1. i \in 1..n /\ i \in 0..n
    BY <1>0 DEF Buys
  <2> DEFINE m == Low(h, n, c, i)
  <2>2. /\ \A t \in i..n : Net(h, t) \in Nat
        /\ \A t \in i..x : Net(h, t) \in Nat
        /\ n \in i..n /\ \A t \in i..n : t \in i..x
        /\ \A t \in i..x : t \in i..n \/ t = x
    BY <1>0, <1>4, <2>1 DEF x
  <2>3. LowAt(h, n, c, i, m)
    BY <1>3, <2>2, LowIs
  <2> HIDE DEF m
  <2>4. LowAt(h, x, e, i, m)
    <3>1. m \in Nat /\ m <= c /\ m <= e
      BY <1>1, <1>3, <2>3 DEF LowAt
    <3>2. \A t \in i..x : m <= Net(h, t)
      BY <2>2, <2>3, <3>1 DEF LowAt, e
    <3>3. \E t \in i..x : m = Net(h, t)
      BY <2>2, <2>3 DEF LowAt, c
    <3> QED BY <3>1, <3>2, <3>3 DEF LowAt
  <2>5. Low(h, x, e, i) = m
    BY <1>3, <2>2, <2>4, LowOnly
  <2>6. lots[No(h, 0, i, Asset)].qty = Clamp(m - Net(h, i - 1), h[i].qty)
    BY DEF NewestGone, m, c
  <2>7. No(h, 0, i, Asset) \in 1..N
    BY <1>0, BuyAt DEF N
  <2> QED BY <1>2, <2>5, <2>6, <2>7
<1>7. more[No(h, 0, x, Asset)].qty = Clamp(Low(h, x, e, x) - Net(h, x - 1), h[x].qty)
  <2>1. x..x = {x}
    BY <1>0
  <2>2. LowAt(h, x, e, x, e) /\ \A t \in x..x : Net(h, t) \in Nat
    BY <1>3, <2>1 DEF LowAt, e
  <2>3. Low(h, x, e, x) = e
    BY <1>3, <2>2, LowOnly
  <2>4. e - Net(h, x - 1) = q
    BY <1>1, <1>3, <1>5 DEF c
  <2>5. Clamp(q, q) = q
    <3>1. q \in Int /\ q \in Nat
      BY <1>1
    <3>2. Clamp(q, q) = IF q <= 0 THEN 0 ELSE IF q <= q THEN q ELSE q
      BY <3>1, ClampIs
    <3> QED BY <1>1, <3>2
  <2>6. h[x].qty = q /\ l.qty = q
    BY DEF q, x
  <2> QED BY <1>1, <1>2, <2>3, <2>4, <2>5, <2>6
<1>8. NewestGone(more, h, x, e)
  BY <1>1, <1>2, <1>6, <1>7 DEF NewestGone
<1> QED BY <1>8 DEF more, x, e

\* What a disposal takes from the newest open lot.
LEMMA NewestTaken ==
  ASSUME NEW h \in Seq(Activities), Whole(h), NEW n \in 0..Len(h), NeverShort(h, n),
         NEW c \in Nat, c <= Net(h, n), NEW lots \in Seq(Lots), NewestGone(lots, h, n, c),
         NEW r \in DOMAIN lots, lots[r].qty > 0, \A s \in DOMAIN lots : s > r => lots[s].qty = 0,
         NEW t \in Nat, t <= lots[r].qty, NEW more \in Seq(Lots), DOMAIN more = DOMAIN lots,
         more[r].qty = lots[r].qty - t, \A s \in DOMAIN lots \ {r} : more[s] = lots[s]
  PROVE  NewestGone(more, h, n, c - t)
<1>0. 0 \in Nat /\ n \in Nat /\ n \in 0..Len(h)
  OBVIOUS
<1>1. Len(lots) = No(h, 0, n, Asset) /\ Len(more) = No(h, 0, n, Asset) /\ r \in 1..No(h, 0, n, Asset)
  <2>1. Len(lots) = No(h, 0, n, Asset)
    BY DEF NewestGone
  <2> QED BY <2>1
<1>2. PICK j \in Buys(h, 0, n, Asset) : No(h, 0, j, Asset) = r
  <2>1. Scoped(h, 0, n, Asset)
    BY <1>0, ScopedIs
  <2> QED BY <1>1, <2>1 DEF Scoped
<1>3. \A i \in Buys(h, 0, n, Asset) :
        /\ i \in 1..n /\ h[i].qty \in Nat \ {0} /\ Net(h, i - 1) \in Nat /\ i - 1 \in 0..n
        /\ Net(h, i) \in Nat /\ Net(h, i) = Net(h, i - 1) + h[i].qty
  BY NetBuy
<1>4. \A i \in Buys(h, 0, n, Asset) : No(h, 0, i, Asset) \in DOMAIN lots /\ No(h, 0, i, Asset) \in Nat
  <2>1. \A i \in Buys(h, 0, n, Asset) : No(h, 0, i, Asset) \in 1..No(h, 0, n, Asset)
    BY <1>0, BuyAt
  <2> QED BY <1>1, <2>1
<1>5. \A i \in Buys(h, 0, n, Asset) :
        LET m == Low(h, n, c, i)
            x == m - Net(h, i - 1)
        IN /\ LowAt(h, n, c, i, m) /\ x \in Int
           /\ lots[No(h, 0, i, Asset)].qty = IF x <= 0 THEN 0 ELSE IF x <= h[i].qty THEN x ELSE h[i].qty
  <2> SUFFICES ASSUME NEW i \in Buys(h, 0, n, Asset)
               PROVE  LET m == Low(h, n, c, i)
                          x == m - Net(h, i - 1)
                      IN /\ LowAt(h, n, c, i, m) /\ x \in Int
                         /\ lots[No(h, 0, i, Asset)].qty
                              = IF x <= 0 THEN 0 ELSE IF x <= h[i].qty THEN x ELSE h[i].qty
    OBVIOUS
  <2> DEFINE m == Low(h, n, c, i)
             x == m - Net(h, i - 1)
             q == h[i].qty
  <2>1. \A s \in i..n : Net(h, s) \in Nat
    <3>1. i \in 1..n
      BY <1>3
    <3>2. \A s \in i..n : s \in 0..n
      BY <1>0, <3>1
    <3> QED BY <3>2 DEF NeverShort
  <2>2. LowAt(h, n, c, i, m)
    BY <2>1, LowIs
  <2>3. lots[No(h, 0, i, Asset)].qty = Clamp(x, q)
    BY DEF NewestGone
  <2>4. x \in Int
    <3> HIDE DEF m
    <3> QED BY <1>3, <2>2 DEF LowAt
  <2>5. q \in Nat
    BY <1>3
  <2> HIDE DEF m, x, q
  <2>6. Clamp(x, q) = IF x <= 0 THEN 0 ELSE IF x <= q THEN x ELSE q
    BY <2>4, <2>5, ClampIs
  <2> QED BY <2>2, <2>3, <2>4, <2>6 DEF m, x, q
<1>6. ASSUME NEW i \in Buys(h, 0, n, Asset), j < i PROVE Low(h, n, c, i) <= Net(h, i - 1)
  <2> DEFINE m == Low(h, n, c, i)
             s == No(h, 0, i, Asset)
  <2>1. r < s
    BY <1>0, <1>2, <1>6, BuysOrdered
  <2>2. lots[s].qty = 0
    <3> HIDE DEF s
    <3>1. s \in DOMAIN lots /\ s \in Nat
      BY <1>4 DEF s
    <3> QED BY <1>1, <2>1, <3>1
  <2>3. /\ m \in Nat /\ h[i].qty \in Nat \ {0} /\ Net(h, i - 1) \in Nat
        /\ lots[s].qty = IF m - Net(h, i - 1) <= 0 THEN 0
                         ELSE IF m - Net(h, i - 1) <= h[i].qty THEN m - Net(h, i - 1) ELSE h[i].qty
    BY <1>3, <1>5 DEF LowAt
  <2> HIDE DEF m, s
  <2>4. m <= Net(h, i - 1)
    BY <2>2, <2>3
  <2> QED BY <2>4 DEF m
<1>7. Low(h, n, c, j) = c /\ \A s \in j..n : c <= Net(h, s)
  BY <1>6, LaterClosed
<1> DEFINE x == c - Net(h, j - 1)
<1>8. x \in Int /\ lots[r].qty = x /\ x > 0 /\ x <= h[j].qty /\ h[j].qty \in Nat /\ Net(h, j - 1) \in Nat
      /\ c = Net(h, j - 1) + x
  <2>1. lots[r].qty = IF x <= 0 THEN 0 ELSE IF x <= h[j].qty THEN x ELSE h[j].qty
    BY <1>2, <1>5, <1>7
  <2>2. c <= Net(h, j)
    <3>1. j \in j..n
      BY <1>0, <1>3
    <3> QED BY <1>7, <3>1
  <2>3. Net(h, j) = Net(h, j - 1) + h[j].qty /\ Net(h, j - 1) \in Nat /\ h[j].qty \in Nat
    BY <1>3
  <2>4. lots[r].qty > 0
    OBVIOUS
  <2> DEFINE y == Net(h, j - 1)
             q == h[j].qty
             o == lots[r].qty
  <2>5. /\ o = IF c - y <= 0 THEN 0 ELSE IF c - y <= q THEN c - y ELSE q
        /\ c <= y + q /\ y \in Nat /\ q \in Nat /\ o > 0
    BY <2>1, <2>2, <2>3, <2>4
  <2> HIDE DEF y, q, o
  <2>6. c - y \in Int /\ o = c - y /\ c - y > 0 /\ c - y <= q /\ c = y + (c - y)
    BY <2>5
  <2> QED BY <2>5, <2>6 DEF y, q, o
<1> HIDE DEF x
<1> DEFINE d == c - t
<1>9. /\ d \in Nat /\ d <= c /\ Net(h, j - 1) <= d
      /\ d - Net(h, j - 1) = x - t /\ x - t \in Nat /\ x - t <= h[j].qty
  <2> DEFINE y == Net(h, j - 1)
             q == h[j].qty
  <2>1. /\ x \in Int /\ x <= q /\ q \in Nat /\ y \in Nat /\ c = y + x /\ t \in Nat /\ t <= x
    <3>1. x \in Int /\ x <= q /\ q \in Nat /\ y \in Nat /\ c = y + x
      BY <1>8
    <3>2. t \in Nat /\ t <= x
      BY <1>8
    <3> QED BY <3>1, <3>2
  <2> HIDE DEF y, q
  <2>2. /\ d \in Nat /\ d <= c /\ y <= d
        /\ d - y = x - t /\ x - t \in Nat /\ x - t <= q
    BY <2>1
  <2> QED BY <2>2 DEF y, q
<1> HIDE DEF d
<1>11. ASSUME NEW i \in Buys(h, 0, n, Asset)
       PROVE  more[No(h, 0, i, Asset)].qty = Clamp(Low(h, n, d, i) - Net(h, i - 1), h[i].qty)
  <2> DEFINE m == Low(h, n, c, i)
             l == Low(h, n, d, i)
             y == Net(h, i - 1)
             q == h[i].qty
             s == No(h, 0, i, Asset)
  <2>1. /\ i \in 1..n /\ j \in 1..n /\ q \in Nat /\ y \in Nat /\ s \in DOMAIN lots
        /\ \A u \in i..n : Net(h, u) \in Nat
    <3>1. i \in 1..n /\ j \in 1..n
      BY <1>3
    <3>2. q \in Nat /\ y \in Nat
      BY <1>3
    <3>3. s \in DOMAIN lots
      BY <1>4
    <3>4. \A u \in i..n : Net(h, u) \in Nat
      BY <1>0, <3>1 DEF NeverShort
    <3> HIDE DEF q, y, s
    <3> QED BY <3>1, <3>2, <3>3, <3>4
  <2>2. LowAt(h, n, c, i, m) /\ LowAt(h, n, d, i, l)
    <3>1. LowAt(h, n, c, i, m)
      BY <1>5
    <3>2. LowAt(h, n, d, i, l)
      BY <1>9, <2>1, LowIs
    <3> QED BY <3>1, <3>2
  <2>3. lots[s].qty = IF m - y <= 0 THEN 0 ELSE IF m - y <= q THEN m - y ELSE q
    BY <1>5, Zenon
  <2>4. i # j => s # r
    BY <1>0, <1>2, SameBuy
  <2>5. l - y \in Int
    <3> HIDE DEF l, y
    <3> QED BY <2>1, <2>2 DEF LowAt
  <2>6. Clamp(l - y, q) = IF l - y <= 0 THEN 0 ELSE IF l - y <= q THEN l - y ELSE q
    <3> HIDE DEF l, y, q
    <3> QED BY <2>1, <2>5, ClampIs
  <2>7. CASE i = j
    <3>1. LowAt(h, n, d, i, d)
      <4>1. \A u \in i..n : d <= Net(h, u)
        <5> SUFFICES ASSUME NEW u \in i..n PROVE d <= Net(h, u)
          OBVIOUS
        <5>1. c <= Net(h, u) /\ Net(h, u) \in Nat
          BY <1>7, <2>1, <2>7
        <5> QED BY <1>9, <5>1
      <4> QED BY <1>9, <4>1 DEF LowAt
    <3>2. l = d
      BY <1>9, <2>1, <3>1, LowOnly
    <3>3. s = r /\ l - y = x - t
      BY <1>2, <1>9, <2>7, <3>2
    <3>4. more[s].qty = x - t
      <4> HIDE DEF s
      <4> QED BY <1>8, <3>3
    <3>5. q = h[j].qty
      BY <2>7
    <3> HIDE DEF l, y, q, s
    <3>6. Clamp(l - y, q) = x - t
      BY <1>9, <2>6, <3>3, <3>5
    <3> QED BY <3>4, <3>6 DEF l, y, q, s
  <2>8. CASE j < i
    <3>1. m <= y
      BY <1>6, <2>8
    <3>2. l <= m
      <4> HIDE DEF l, m
      <4>1. l \in Nat /\ m \in Nat /\ l <= d /\ \A u \in i..n : l <= Net(h, u)
        BY <2>2 DEF LowAt
      <4>2. m = c \/ \E u \in i..n : m = Net(h, u)
        BY <2>2 DEF LowAt
      <4> QED BY <1>9, <4>1, <4>2
    <3>3. more[s] = lots[s]
      <4>1. s # r
        BY <2>1, <2>4, <2>8
      <4> HIDE DEF s
      <4> QED BY <2>1, <4>1
    <3>4. l \in Nat /\ m \in Nat
      BY <2>2 DEF LowAt
    <3> HIDE DEF l, m, y, q, s
    <3>5. lots[s].qty = 0 /\ Clamp(l - y, q) = 0
      BY <2>1, <2>3, <2>6, <3>1, <3>2, <3>4
    <3> QED BY <3>3, <3>5 DEF l, y, q, s
  <2>9. CASE i < j
    <3>1. l = m
      <4>1. j - 1 \in i..n
        BY <2>1, <2>9
      <4>2. m <= Net(h, j - 1)
        <5> HIDE DEF m
        <5> QED BY <2>2, <4>1 DEF LowAt
      <4> HIDE DEF l, m
      <4>3. l \in Nat /\ m \in Nat /\ l <= d /\ \A u \in i..n : l <= Net(h, u)
        BY <2>2 DEF LowAt
      <4>4. m <= c /\ (\A u \in i..n : m <= Net(h, u)) /\ m <= d
        <5>1. m <= c /\ \A u \in i..n : m <= Net(h, u)
          BY <2>2 DEF LowAt
        <5>2. m <= d
          <6> DEFINE z == Net(h, j - 1)
          <6>1. m <= z /\ z <= d /\ m \in Nat /\ z \in Nat /\ d \in Nat
            BY <1>8, <1>9, <4>2, <4>3
          <6> HIDE DEF z
          <6> QED BY <6>1
        <5> QED BY <5>1, <5>2
      <4>5. l <= m
        <5>1. m = c \/ \E u \in i..n : m = Net(h, u)
          BY <2>2 DEF LowAt
        <5> QED BY <1>9, <4>3, <5>1
      <4>6. m <= l
        <5>1. l = d \/ \E u \in i..n : l = Net(h, u)
          BY <2>2 DEF LowAt
        <5> QED BY <4>4, <5>1
      <4> QED BY <4>3, <4>5, <4>6
    <3>2. more[s] = lots[s]
      <4>1. s # r
        BY <2>1, <2>4, <2>9
      <4> HIDE DEF s
      <4> QED BY <2>1, <4>1
    <3> HIDE DEF l, m, y, q, s
    <3>3. lots[s].qty = Clamp(l - y, q)
      BY <2>3, <2>6, <3>1
    <3> QED BY <3>2, <3>3 DEF l, y, q, s
  <2> QED BY <2>1, <2>7, <2>8, <2>9
<1>12. NewestGone(more, h, n, d)
  BY <1>1, <1>11 DEF NewestGone
<1> QED BY <1>12 DEF d

-----------------------------------------------------------------------------
(* The lots of the last-in method during a replay.                         *)

\* What the replay has left of the asset.
Cur == Net(Inputs, pos) - IF work.on THEN Input.qty - work.left ELSE 0
LifoInv == Replaying /\ method = "lifo" =>
  Cur <= Net(Inputs, pos) /\ NewestGone(books[Asset].lots, Inputs, pos, Cur)

\* What it says of the next state.
LEMMA LifoThen ==
  ASSUME history' = history, year' = year, method' = method, NEW c,
         Replaying /\ method = "lifo" =>
           c <= Net(Inputs, pos') /\ NewestGone(books'[Asset].lots, Inputs, pos', c),
         c = Net(Inputs, pos') - IF work'.on THEN Inputs[pos' + 1].qty - work'.left ELSE 0
  PROVE  LifoInv'
<1>1. Inputs' = Inputs /\ (Replaying' <=> Replaying)
  BY QtyThen
<1>2. \A lots, h, n, d : NewestGone(lots, h, n, d)' <=> NewestGone(lots, h, n, d)
  BY DEF NewestGone, No, Buys, Key, Broadened, Low, Net, SignedOf, Signed, IsBuy, Clamp
<1>3. Cur' = c /\ \A h, n : Net(h, n)' = Net(h, n)
  BY <1>1 DEF Cur, Input, Net, SignedOf, Signed
<1> QED BY <1>1, <1>2, <1>3 DEF LifoInv

\* Where scopes do not matter.
LEMMA LifoWhole ==
  ASSUME IInv, QtyInv, Replaying, method = "lifo"
  PROVE  /\ Inputs \in Seq(Activities) /\ pos \in 0..Len(Inputs) /\ pos \in Nat /\ Whole(Inputs)
         /\ NeverShort(Inputs, pos) /\ Asset \in Keys /\ books[Asset].lots \in Seq(Lots)
         /\ books[Asset] \in Books /\ ~books[Asset].pooled
         /\ Cur \in Nat
<1>1. TypeOK /\ Asset \in Keys
  BY DEF IInv, Keys
<1>2. Inputs \in Seq(Activities) /\ pos \in 0..Len(Inputs) /\ pos \in Nat
  BY <1>1, InputsType DEF TypeOK
<1>3. books[Asset] \in Books /\ books[Asset].lots \in Seq(Lots) /\ books \in [Keys -> Books]
  BY <1>1 DEF TypeOK, Books
<1>4. ~books[Asset].pooled
  BY <1>1 DEF IInv, PoolInv
<1>5. Whole(Inputs)
  BY DEF Whole, Key
<1>6. NeverShort(Inputs, pos)
  <2> SUFFICES ASSUME NEW t \in 0..pos PROVE Net(Inputs, t) \in Nat
    BY DEF NeverShort
  <2>1. HeldIn(Inputs, t, Asset) = Net(Inputs, t)
    <3>1. \A i \in 1..t : Key(Inputs, Inputs[i]) = Asset
      BY DEF Key
    <3> QED BY <3>1, AssetHeld
  <2>2. HeldIn(Inputs, t, Asset) >= 0
    BY <1>1 DEF QtyInv
  <2>3. t \in 0..Len(Inputs)
    BY <1>2
  <2>4. Net(Inputs, t) \in Int
    BY <1>2, <2>3, HeldType
  <2> QED BY <2>1, <2>2, <2>4
<1>7. Cur \in Nat
  <2>1. OpenQty(books) = Cur
    BY DEF QtyInv, Cur
  <2> QED BY <1>3, <2>1, OpenType
<1> QED BY <1>1, <1>2, <1>3, <1>4, <1>5, <1>6, <1>7

\* An activity that is over, whose own book is as it should be.
LEMMA LifoDone ==
  ASSUME IInv, QtyInv, NEW before, NEW c \in Books, NEW allocated, NEW zero,
         Done(before, c, allocated, zero),
         method = "lifo" => NewestGone(c.lots, Inputs, pos + 1, Net(Inputs, pos + 1))
  PROVE  LifoInv'
<1> DEFINE e == Net(Inputs, pos + 1)
<1>1. /\ Replaying /\ pos < Len(Inputs) /\ books' = Put(c) /\ pos' = pos + 1 /\ work' = NoWork
      /\ history' = history /\ method' = method /\ year' = year /\ TypeOK
  BY DEF Done, IInv
<1>2. Inputs \in Seq(Activities) /\ pos + 1 \in 0..Len(Inputs) /\ books \in [Keys -> Books] /\ Asset \in Keys
  <2>1. Inputs \in Seq(Activities) /\ pos + 1 \in 0..Len(Inputs)
    BY <1>1, InputsType DEF TypeOK
  <2> QED BY <1>1, <2>1 DEF TypeOK, Keys
<1>3. ~work'.on
  BY <1>1, NewTypes
<1>4. e \in Int
  BY <1>2, HeldType
<1>5. ASSUME method = "lifo" PROVE books'[Asset] = c
  <2>1. Key(Inputs, Input) = Asset
    BY <1>5 DEF Key
  <2>2. Put(c)[Asset] = c
    BY <1>2, <2>1 DEF Put
  <2> QED BY <1>1, <2>2
<1>6. e = Net(Inputs, pos') - IF work'.on THEN Inputs[pos' + 1].qty - work'.left ELSE 0
  <2>1. e = e - 0
    BY <1>4
  <2> QED BY <1>1, <1>3, <2>1
<1>7. Replaying /\ method = "lifo" => e <= Net(Inputs, pos') /\ NewestGone(books'[Asset].lots, Inputs, pos', e)
  <2>1. e <= e
    BY <1>4
  <2> QED BY <1>1, <1>5, <2>1
<1> HIDE DEF e
<1> QED BY <1>1, <1>6, <1>7, LifoThen

LEMMA LifoBuys ==
  ASSUME IInv, QtyInv, LifoInv, BuyDone
  PROVE  LifoInv'
<1>1. Done(Captured, BuyInto(Book, Input), 0, FALSE) /\ ~work.on /\ IsBuy(Input) /\ pos < Len(Inputs) /\ TypeOK
      /\ Replaying
  BY DEF BuyDone, Done, IInv
<1>2. Book \in Books /\ Input \in Activities /\ BuyInto(Book, Input) \in Books /\ Input = Inputs[pos + 1]
      /\ Input.qty \in Nat \ {0} /\ Input.amount \in Int
  <2>1. Book \in Books /\ Input \in Activities
    BY <1>1, InputType
  <2> QED BY <2>1, Bought1, ActivityType DEF Input
<1>3. ASSUME method = "lifo"
      PROVE  NewestGone(BuyInto(Book, Input).lots, Inputs, pos + 1, Net(Inputs, pos + 1))
  <2>1. /\ Inputs \in Seq(Activities) /\ pos \in 0..Len(Inputs) /\ pos \in Nat /\ Whole(Inputs)
        /\ NeverShort(Inputs, pos) /\ Asset \in Keys /\ books[Asset].lots \in Seq(Lots)
        /\ books[Asset] \in Books /\ ~books[Asset].pooled /\ Cur \in Nat
    BY <1>1, <1>3, LifoWhole
  <2>2. Book = books[Asset]
    BY <1>3 DEF Book, Key
  <2>3. NewestGone(Book.lots, Inputs, pos, Net(Inputs, pos))
    <3>1. Cur = Net(Inputs, pos) - 0 /\ Net(Inputs, pos) \in Nat
      <4>1. pos \in 0..pos
        BY <2>1
      <4> QED BY <1>1, <2>1, <4>1 DEF Cur, NeverShort
    <3>2. Cur = Net(Inputs, pos)
      BY <3>1
    <3> QED BY <1>1, <1>3, <2>2, <3>2 DEF LifoInv
  <2> DEFINE l == [qty |-> Input.qty, basis |-> Input.amount]
  <2>4. l \in Lots /\ l.qty = Inputs[pos + 1].qty
    BY <1>2 DEF Lots
  <2>5. BuyInto(Book, Input).lots = Append(Book.lots, l)
    <3>1. Book \in [lots : Seq(Lots), pooled : BOOLEAN, qty : Nat, basis : Int]
      BY <1>2 DEF Books
    <3> QED BY <2>1, <2>2, <3>1 DEF BuyInto, AddLot
  <2>6. pos \in 0..(Len(Inputs) - 1) /\ IsBuy(Inputs[pos + 1])
    BY <1>1, <1>2, <2>1
  <2> HIDE DEF l
  <2>7. NewestGone(Append(Book.lots, l), Inputs, pos + 1, Net(Inputs, pos + 1))
    BY <2>1, <2>2, <2>3, <2>4, <2>6, NewestBought
  <2> QED BY <2>5, <2>7
<1> QED BY <1>1, <1>2, <1>3, LifoDone

\* A disposal that is complete.
LEMMA LifoLots ==
  ASSUME IInv, QtyInv, LifoInv, LotsDone
  PROVE  LifoInv'
<1>1. /\ Done(acc, LotsLeft, work.allocated, BookQty(Book) = 0) /\ work.on /\ ~IsBuy(Input)
      /\ pos < Len(Inputs) /\ TypeOK /\ work.left = 0 /\ Working /\ PoolInv /\ Replaying
  BY DEF LotsDone, Done, IInv, WorkInv
<1>2. LotsLeft \in Books
  BY <1>1, LotsLeftType
<1>3. ASSUME method = "lifo"
      PROVE  NewestGone(LotsLeft.lots, Inputs, pos + 1, Net(Inputs, pos + 1))
  <2>1. Inputs \in Seq(Activities) /\ pos \in 0..Len(Inputs) /\ pos \in Nat /\ Cur \in Nat
    BY <1>1, <1>3, LifoWhole
  <2>2. LotsLeft = books[Asset]
    BY <1>3 DEF LotsLeft, Emptied, Book, Key
  <2>3. pos \in 0..(Len(Inputs) - 1) /\ ~IsBuy(Inputs[pos + 1]) /\ pos + 1 \in DOMAIN Inputs /\ Input = Inputs[pos + 1]
    BY <1>1, <2>1 DEF Input
  <2>4. Cur = Net(Inputs, pos + 1)
    <3>1. Net(Inputs, pos) \in Int /\ Net(Inputs, pos + 1) = Net(Inputs, pos) + Signed(Inputs[pos + 1])
      BY <2>1, <2>3, NetMore
    <3>2. Signed(Input) = -Input.qty /\ Input.qty \in Nat \ {0}
      BY <1>1, <2>1, <2>3, SignedIs
    <3>3. Cur = Net(Inputs, pos) - (Input.qty - 0)
      BY <1>1 DEF Cur
    <3> DEFINE x == Net(Inputs, pos)
               q == Input.qty
    <3>4. Net(Inputs, pos + 1) = x + (-q) /\ Cur = x - (q - 0) /\ x \in Int /\ q \in Nat
      BY <2>3, <3>1, <3>2, <3>3
    <3> HIDE DEF x, q
    <3> QED BY <3>4
  <2>5. NewestGone(books[Asset].lots, Inputs, pos, Net(Inputs, pos + 1))
    BY <1>1, <1>3, <2>4 DEF LifoInv
  <2> QED BY <2>1, <2>2, <2>3, <2>5, NewestStays
<1> QED BY <1>1, <1>2, <1>3, LifoDone

LEMMA LifoBegun ==
  ASSUME IInv, QtyInv, LifoInv, LotsBegun
  PROVE  LifoInv'
<1>1. /\ Replaying /\ pos < Len(Inputs) /\ ~work.on /\ TypeOK /\ work'.on /\ work'.left = Input.qty
      /\ books' = books /\ history' = history /\ method' = method /\ year' = year /\ pos' = pos
  BY DEF LotsBegun, IInv
<1>2. Input.qty \in Nat \ {0} /\ Input = Inputs[pos + 1]
  BY <1>1, InputType DEF Input
<1>3. Input.qty - Input.qty = 0
  BY <1>2
<1>4. Cur = Net(Inputs, pos') - IF work'.on THEN Inputs[pos' + 1].qty - work'.left ELSE 0
  BY <1>1, <1>2, <1>3 DEF Cur
<1> QED BY <1>1, <1>4, LifoThen DEF LifoInv

\* The next lot of a disposal is the newest that is open.
LEMMA LifoHead ==
  ASSUME TypeOK, Working, work.on, work.left > 0, work.queue # <<>>, method = "lifo"
  PROVE  \A s \in DOMAIN Book.lots : s > Head(work.queue) => Book.lots[s].qty = 0
<1> DEFINE r == Head(work.queue)
<1> SUFFICES ASSUME NEW s \in DOMAIN Book.lots, s > r, Book.lots[s].qty # 0
             PROVE  FALSE
  OBVIOUS
<1>1. work \in Works /\ Book \in Books /\ pos < Len(Inputs)
  BY InputType DEF TypeOK, Working
<1>2. work.queue \in Seq(Nat) /\ r = work.queue[1] /\ 1 \in DOMAIN work.queue
  BY <1>1 DEF Works
<1>3. Book.lots \in Seq(Lots) /\ s \in Nat /\ Book.lots[s].qty \in Nat
  <2>1. Book.lots \in Seq(Lots)
    BY <1>1 DEF Books
  <2> QED BY <2>1, LotValues
<1>4. s \in OpenLots(Book)
  BY <1>3 DEF OpenLots
<1>5. PICK m \in DOMAIN work.queue : work.queue[m] = s
  BY <1>4 DEF Working, Queued
<1>6. r \in Nat /\ m # 1 /\ m \in Nat /\ 1 < m
  <2>1. r \in Nat /\ m \in Nat /\ 1 <= m
    BY <1>2
  <2> QED BY <1>2, <1>3, <1>5, <2>1
<1>7. Before(Book.lots, r, s)
  <2> HIDE DEF r
  <2> QED BY <1>2, <1>5, <1>6 DEF Working, Queued
<1>8. r > s
  BY <1>7 DEF Before
<1> QED BY <1>3, <1>6, <1>8

LEMMA LifoTakes ==
  ASSUME IInv, QtyInv, LifoInv, LotDone
  PROVE  LifoInv'
<1> DEFINE c == [Book EXCEPT !.lots = LotsAfter]
           t == Taken(Next1)
           r == Head(work.queue)
           e == Cur - t
<1>1. /\ Replaying /\ pos < Len(Inputs) /\ work.on /\ TypeOK /\ books' = Put(c) /\ Working
      /\ history' = history /\ method' = method /\ year' = year /\ pos' = pos
      /\ work.left > 0 /\ work.queue # <<>>
      /\ work' = [work EXCEPT !.queue = Tail(@), !.left = @ - t, !.allocated = @ + FromLot]
  BY DEF LotDone, IInv, WorkInv
<1>2. /\ r \in OpenLots(Book) /\ Next1 \in Lots /\ Next1.qty > 0
      /\ LotsAfter \in Seq(Lots) /\ DOMAIN LotsAfter = DOMAIN Book.lots
      /\ \A j \in DOMAIN Book.lots \ {r} : LotsAfter[j] = Book.lots[j]
      /\ LotsAfter[r].qty = Next1.qty - t
      /\ c.lots = LotsAfter
      /\ work'.on /\ work'.left = work.left - t
  BY <1>1, LotsAfterType
<1>3. /\ t \in Nat /\ t <= Next1.qty /\ Next1 = Book.lots[r] /\ r \in DOMAIN Book.lots
  BY <1>1, <1>2, TakenIs DEF Next1, OpenLots
<1>4. /\ Input = Inputs[pos + 1] /\ Input.qty \in Nat \ {0} /\ books \in [Keys -> Books] /\ work.left \in Nat
      /\ Asset \in Keys /\ pos \in 0..Len(Inputs) /\ Inputs \in Seq(Activities)
  BY <1>1, InputType, InputsType DEF TypeOK, Input, Works, Keys
<1>5. Net(Inputs, pos) \in Int
  BY <1>4, HeldType
<1> HIDE DEF c, t, r
<1>6. e = Net(Inputs, pos') - IF work'.on THEN Inputs[pos' + 1].qty - work'.left ELSE 0
  <2> DEFINE x == Net(Inputs, pos)
             q == Input.qty
             l == work.left
  <2>1. Cur = x - (q - l)
    BY <1>1 DEF Cur
  <2>2. x \in Int /\ q \in Int /\ l \in Int /\ t \in Int
    BY <1>3, <1>4, <1>5
  <2> HIDE DEF x, q, l
  <2>3. e = x - (q - (l - t))
    BY <2>1, <2>2
  <2> QED BY <1>1, <1>2, <1>4, <2>3 DEF x, q, l
<1>7. ASSUME method = "lifo"
      PROVE  e <= Net(Inputs, pos') /\ NewestGone(books'[Asset].lots, Inputs, pos', e)
  <2>1. /\ Inputs \in Seq(Activities) /\ pos \in 0..Len(Inputs) /\ pos \in Nat /\ Whole(Inputs)
        /\ NeverShort(Inputs, pos) /\ Asset \in Keys /\ books[Asset].lots \in Seq(Lots)
        /\ books[Asset] \in Books /\ Cur \in Nat
    BY <1>1, <1>7, LifoWhole
  <2>2. Book = books[Asset] /\ books'[Asset] = c
    <3>1. Key(Inputs, Input) = Asset
      BY <1>7 DEF Key
    <3> QED BY <1>1, <1>4, <3>1 DEF Book, Put
  <2>3. Cur <= Net(Inputs, pos) /\ NewestGone(Book.lots, Inputs, pos, Cur)
    BY <1>1, <1>7, <2>2 DEF LifoInv
  <2>4. \A s \in DOMAIN Book.lots : s > r => Book.lots[s].qty = 0
    BY <1>1, <1>7, LifoHead DEF r
  <2>5. NewestGone(LotsAfter, Inputs, pos, Cur - t)
    <3> DEFINE h == Inputs
               lots == Book.lots
               more == LotsAfter
               n == pos
               was == Cur
    <3>1. /\ h \in Seq(Activities) /\ Whole(h) /\ n \in 0..Len(h) /\ NeverShort(h, n)
          /\ was \in Nat /\ was <= Net(h, n) /\ lots \in Seq(Lots) /\ NewestGone(lots, h, n, was)
      BY <2>1, <2>2, <2>3
    <3>2. /\ r \in DOMAIN lots /\ lots[r].qty > 0 /\ \A s \in DOMAIN lots : s > r => lots[s].qty = 0
          /\ t \in Nat /\ t <= lots[r].qty
      BY <1>2, <1>3, <2>4
    <3>3. /\ more \in Seq(Lots) /\ DOMAIN more = DOMAIN lots /\ more[r].qty = lots[r].qty - t
          /\ \A s \in DOMAIN lots \ {r} : more[s] = lots[s]
      BY <1>2, <1>3
    <3> HIDE DEF h, lots, more, n, was
    <3>4. NewestGone(more, h, n, was - t)
      BY <3>1, <3>2, <3>3, NewestTaken
    <3> QED BY <3>4 DEF h, more, n, was
  <2>6. e <= Net(Inputs, pos)
    BY <1>3, <1>5, <2>1, <2>3
  <2> QED BY <1>1, <1>2, <2>2, <2>5, <2>6
<1> HIDE DEF e
<1> QED BY <1>1, <1>6, <1>7, LifoThen

LEMMA LifoSteps ==
  ASSUME IInv, QtyInv, LifoInv, [Next]_vars
  PROVE  LifoInv'
<1>1. CASE BuyDone
  BY <1>1, LifoBuys
<1>2. CASE LotsDone
  BY <1>2, LifoLots
<1>3. CASE PoolDone
  <2>1. method' = method /\ method # "lifo"
    BY <1>3 DEF PoolDone, Done
  <2> QED BY <2>1 DEF LifoInv
<1>4. CASE LotsBegun
  BY <1>4, LifoBegun
<1>5. CASE LotDone
  BY <1>5, LifoTakes
<1>6. CASE Failed \/ Finish
  <2>1. ~Replaying'
    BY <1>6 DEF Failed, Abort, Finish, Replaying
  <2> QED BY <2>1 DEF LifoInv
<1>7. ASSUME NEW y \in Years, Begin(y) PROVE LifoInv'
  <2>1. pos' = 0 /\ books' = [k \in Keys |-> NewBook] /\ ~Replaying /\ method' = method /\ work' = work
    BY <1>7 DEF Begin
  <2>2. ~work'.on
    BY <2>1, NewTypes DEF IInv, WorkInv, Working
  <2>3. \A h : Net(h, 0)' = 0
    BY NetStart DEF Net, SignedOf, Signed
  <2>4. Cur' = 0 /\ Net(Inputs, pos)' = 0
    BY <2>1, <2>2, <2>3 DEF Cur
  <2>5. \A h : Buys(h, 0, 0, Asset)' = {} /\ No(h, 0, 0, Asset)' = 0
    <3>1. 1..0 = {}
      OBVIOUS
    <3> QED BY <3>1, FS_EmptySet DEF Buys, No
  <2>6. books'[Asset].lots = <<>>
    BY <2>1 DEF Keys, NewBook
  <2>7. NewestGone(books[Asset].lots, Inputs, pos, Cur)'
    BY <2>1, <2>5, <2>6 DEF NewestGone
  <2> QED BY <2>4, <2>7 DEF LifoInv
<1>8. ASSUME NEW a \in Activities, Record(a) PROVE LifoInv'
  <2>1. ~Replaying'
    BY <1>8 DEF Record, Replaying
  <2> QED BY <2>1 DEF LifoInv
<1>9. CASE UNCHANGED vars
  <2>1. /\ history' = history /\ year' = year /\ method' = method /\ pos' = pos /\ work' = work
        /\ books' = books
    BY <1>9 DEF vars
  <2>2. Cur = Net(Inputs, pos') - IF work'.on THEN Inputs[pos' + 1].qty - work'.left ELSE 0
    BY <2>1 DEF Cur, Input
  <2> QED BY <2>1, <2>2, LifoThen DEF LifoInv
<1> QED BY <1>1, <1>2, <1>3, <1>4, <1>5, <1>6, <1>7, <1>8, <1>9, Steps

LEMMA LifoIs ==
  ASSUME IInv, QtyInv, LifoInv, Replaying, ~work.on, method = "lifo", NEW i \in 1..pos, IsBuy(Inputs[i])
  PROVE  books[Asset].lots[LotNo(i)].qty =
           Clamp(Min({HeldAfter(t) : t \in i..pos}) - HeldAfter(i - 1), Inputs[i].qty)
<1>1. /\ TypeOK /\ Inputs \in Seq(Activities) /\ pos \in 0..Len(Inputs) /\ pos \in Nat
      /\ NeverShort(Inputs, pos)
  BY LifoWhole DEF IInv
<1>2. i \in 0..pos /\ i - 1 \in 0..pos /\ i..pos \subseteq 0..pos /\ pos \in i..pos
  BY <1>1
<1>3. \A t \in 0..pos : HeldAfter(t) = Net(Inputs, t)
  <2> SUFFICES ASSUME NEW t \in 0..pos PROVE HeldAfter(t) = Net(Inputs, t)
    OBVIOUS
  <2> DEFINE g == SubSeq(Inputs, 1, t)
  <2>1. t \in Nat /\ t <= Len(Inputs) /\ 1 \in 1..(Len(Inputs) + 1) /\ t \in 0..Len(Inputs)
    BY <1>1
  <2>2. g \in Seq(Activities) /\ Len(g) = t /\ \A s \in 1..t : g[s] = Inputs[s]
    BY <1>1, <2>1, SubSeqProperties
  <2>3. HeldAfter(t) = Held(g, Keys)
    BY DEF HeldAfter, Replayed
  <2> HIDE DEF g
  <2>4. Held(g, Keys) = Net(g, t)
    BY <2>2, HeldIsNet
  <2>5. Net(g, t) = Net(Inputs, t)
    BY <1>1, <2>1, <2>2, NetSame
  <2> QED BY <2>3, <2>4, <2>5
<1>4. Cur = Net(Inputs, pos)
  <2>1. Net(Inputs, pos) \in Int
    BY <1>1, HeldType
  <2>2. Cur = Net(Inputs, pos) - 0
    BY DEF Cur
  <2> QED BY <2>1, <2>2
<1>5. {HeldAfter(t) : t \in i..pos} = {Net(Inputs, t) : t \in i..pos} \cup {Cur}
  BY <1>2, <1>3, <1>4
<1>6. Min({HeldAfter(t) : t \in i..pos}) = Low(Inputs, pos, Cur, i)
  BY <1>5 DEF Low
<1>7. HeldAfter(i - 1) = Net(Inputs, i - 1)
  BY <1>2, <1>3
<1>8. i \in Buys(Inputs, 0, pos, Asset)
  BY AssetBuys
<1>9. LotNo(i) = No(Inputs, 0, i, Asset)
  BY <1>1, <1>2, AssetCounts
<1>10. books[Asset].lots[No(Inputs, 0, i, Asset)].qty
         = Clamp(Low(Inputs, pos, Cur, i) - Net(Inputs, i - 1), Inputs[i].qty)
  BY <1>8 DEF LifoInv, NewestGone
<1> QED BY <1>6, <1>7, <1>9, <1>10

(* FR-022, FR-023 and FR-027a: whatever the history, the lots that are left first-in are those
   of the last units bought, last-in those that holdings never fell below; a scope of the hybrid
   method is in fallback exactly when a disposal could have come from two of its acquisitions,
   and its provenance queue then holds what its pool does. *)
THEOREM BooksFollow == Spec => []BooksByHistory
<1>1. Init => LifoInv
  BY DEF Init, Replaying, LifoInv
<1>2. ASSUME IInv, QtyInv, LifoInv, [Next]_vars PROVE LifoInv'
  BY <1>2, LifoSteps
<1>3. ASSUME IInv, QtyInv, FifoInv, LifoInv PROVE BooksByHistory
  <2>1. LotsByHistory
    BY <1>3, FifoIs, LifoIs DEF LotsByHistory
  <2> QED BY <1>3, <2>1, FallbackIs, ProvenanceIs DEF BooksByHistory
<1>4. Spec => [](IInv /\ QtyInv /\ FifoInv)
  BY FifoAlways
<1> QED BY <1>1, <1>2, <1>3, <1>4, PTL DEF Spec
=============================================================================
