------------------------- MODULE HistorySyncProofs -------------------------
(***************************************************************************)
(* Proofs about HistorySync, for every set of activities, page size, bound *)
(* and server. Only whole histories are stored, and a history retrieved    *)
(* from a server that counts what it has is the one first listed, unless   *)
(* edits cancelled out or left the number of activities alone. What is     *)
(* stored of it, and whether, depends on the activities alone and not on   *)
(* their order, pages or copies, and no identity is sold beyond what it    *)
(* holds.                                                                  *)
(***************************************************************************)
EXTENDS HistorySync, FoldTheorems, SequenceTheorems, TLAPS

Types ==
    /\ server \in Seq(Entries) /\ listed \in Seq(Entries) /\ got \in Seq(Entries)
    /\ expected \in Int /\ edited \subseteq Edits /\ honest \in BOOLEAN
    /\ phase \in Phases

\* The loop of FetchActivitiesHistory: it waits for a page only while some are
\* missing, and is left with as many entries as were reported first.
Counted ==
    /\ expected = NoCount => got = <<>> /\ edited = {} /\ phase \notin {"build", "persist"}
    /\ expected # NoCount /\ phase \in {"send", "read"} => Len(got) < expected
    /\ phase \in {"build", "persist"} => Len(got) = expected
    /\ phase = "prepare" \/ (phase = "idle" /\ outcome = "none") => expected = NoCount
    /\ phase = "persist" => cache.retrieved = Len(got)
    /\ stored # Nothing => phase = "idle" /\ outcome # "none" /\ StoredWhole

\* Edits that leave the number of activities as it was reported.
Unnoticed == {"insert", "delete"} \subseteq edited \/ edited \cap {"change", "reorder"} # {}

\* Until then the length of the account tells what happened to it.
Traced ==
    honest /\ expected # NoCount =>
        /\ expected = Len(listed)
        /\ edited = {} => server = listed
        /\ edited = {"insert"} => Len(server) > Len(listed)
        /\ edited = {"delete"} => Len(server) < Len(listed)
        /\ ~Unnoticed => /\ Len(got) <= Len(listed)
                         /\ \A i \in 1..Len(got) : got[i] = listed[i]

IInv == Types /\ Counted /\ Traced
-----------------------------------------------------------------------------
(* Sequences.                                                              *)

\* An inserted activity makes the account longer by one.
LEMMA InsertLength ==
    ASSUME NEW S, NEW s \in Seq(S), NEW k \in 1..(Len(s) + 1), NEW e \in S
    PROVE  InsertAt(s, k, e) \in Seq(S) /\ Len(InsertAt(s, k, e)) = Len(s) + 1
<1>1. SubSeq(s, 1, k - 1) \in Seq(S) /\ Len(SubSeq(s, 1, k - 1)) = k - 1
  BY SubSeqProperties
<1>2. SubSeq(s, k, Len(s)) \in Seq(S) /\ Len(SubSeq(s, k, Len(s))) = Len(s) + 1 - k
  BY SubSeqProperties
<1>3. <<e>> \in Seq(S) /\ Len(<<e>>) = 1
  OBVIOUS
<1>4. SubSeq(s, 1, k - 1) \o <<e>> \in Seq(S) /\ Len(SubSeq(s, 1, k - 1) \o <<e>>) = k
  BY <1>1, <1>3, ConcatProperties
<1> DEFINE front == SubSeq(s, 1, k - 1) \o <<e>>
           back == SubSeq(s, k, Len(s))
<1>5. InsertAt(s, k, e) = front \o back
  BY DEF InsertAt
<1> HIDE DEF front, back
<1>6. front \o back \in Seq(S) /\ Len(front \o back) = Len(front) + Len(back)
  BY <1>2, <1>4, ConcatProperties DEF front, back
<1>7. Len(front) = k /\ Len(back) = Len(s) + 1 - k /\ Len(s) \in Nat
  BY <1>2, <1>4, LenProperties DEF front, back
<1> QED BY <1>5, <1>6, <1>7

\* A deleted one makes it shorter by one.
LEMMA RemoveLength ==
    ASSUME NEW S, NEW s \in Seq(S), NEW k \in DOMAIN s
    PROVE  RemoveAt(s, k) \in Seq(S) /\ Len(RemoveAt(s, k)) = Len(s) - 1
<1>1. SubSeq(s, 1, k - 1) \in Seq(S) /\ Len(SubSeq(s, 1, k - 1)) = k - 1
  BY SubSeqProperties
<1>2. SubSeq(s, k + 1, Len(s)) \in Seq(S) /\ Len(SubSeq(s, k + 1, Len(s))) = Len(s) - k
  BY SubSeqProperties
<1> DEFINE front == SubSeq(s, 1, k - 1)
           back == SubSeq(s, k + 1, Len(s))
<1>3. RemoveAt(s, k) = front \o back
  BY DEF RemoveAt
<1> HIDE DEF front, back
<1>4. front \o back \in Seq(S) /\ Len(front \o back) = Len(front) + Len(back)
  BY <1>1, <1>2, ConcatProperties DEF front, back
<1>5. Len(front) = k - 1 /\ Len(back) = Len(s) - k /\ Len(s) \in Nat
  BY <1>1, <1>2, LenProperties DEF front, back
<1> QED BY <1>3, <1>4, <1>5

\* A page is the next piece of the account.
LEMMA PageEntries ==
    ASSUME NEW S, NEW s \in Seq(S), NEW g \in Seq(S),
           NEW k \in 0..Len(s), k > Len(g)
    PROVE  LET page == SubSeq(s, Len(g) + 1, k) IN
           /\ page \in Seq(S) /\ Len(page) = k - Len(g)
           /\ g \o page \in Seq(S) /\ Len(g \o page) = k
           /\ \A i \in 1..k : (g \o page)[i] = IF i <= Len(g) THEN g[i] ELSE s[i]
<1> DEFINE page == SubSeq(s, Len(g) + 1, k)
<1>1. page \in Seq(S) /\ Len(page) = k - Len(g)
      /\ \A i \in 1..(k - Len(g)) : page[i] = s[Len(g) + i]
  BY SubSeqProperties
<1> HIDE DEF page
<1>2. g \o page \in Seq(S) /\ Len(g \o page) = k
  BY <1>1, ConcatProperties
<1>3. \A i \in 1..k : (g \o page)[i] = IF i <= Len(g) THEN g[i] ELSE s[i]
  <2> SUFFICES ASSUME NEW i \in 1..k
               PROVE (g \o page)[i] = IF i <= Len(g) THEN g[i] ELSE s[i]
    OBVIOUS
  <2>1. i \in Nat /\ Len(g) \in Nat /\ k \in Nat /\ Len(page) = k - Len(g)
    BY <1>1, LenProperties
  <2>2. i \in 1..(Len(g) + Len(page))
    BY <2>1
  <2>3. (g \o page)[i] = IF i <= Len(g) THEN g[i] ELSE page[i - Len(g)]
    BY <1>1, <2>2, ConcatProperties
  <2>4. ASSUME i > Len(g) PROVE page[i - Len(g)] = s[i]
    <3>1. i - Len(g) \in 1..(k - Len(g)) /\ Len(g) + (i - Len(g)) = i
      BY <2>1, <2>4
    <3> QED BY <1>1, <3>1
  <2> QED BY <2>1, <2>3, <2>4
<1> QED BY <1>1, <1>2, <1>3 DEF page

\* A page that is not empty is such a piece.
LEMMA EmptyPage ==
    ASSUME NEW S, NEW s \in Seq(S), NEW m \in Nat, NEW k \in 0..Len(s), k <= m
    PROVE  SubSeq(s, m + 1, k) = <<>>
  BY SubSeqEmpty

\* As many places as a sequence is long.
LEMMA PlacesOf ==
    ASSUME NEW S, NEW s \in Seq(S)
    PROVE  /\ Len(s) \in Nat /\ DOMAIN s = 1..Len(s) /\ IsFiniteSet(DOMAIN s)
           /\ Cardinality(DOMAIN s) = Len(s) /\ \A k \in DOMAIN s : s[k] \in S
<1> DEFINE one == 1
           n == Len(s)
<1>1. n \in Nat /\ DOMAIN s = one..n /\ one \in Int /\ n \in Int /\ \A k \in DOMAIN s : s[k] \in S
  OBVIOUS
<1>2. IF one > n THEN 0 = n ELSE n - one + 1 = n
  BY <1>1
<1> HIDE DEF one, n
<1>3. IsFiniteSet(one..n) /\ Cardinality(one..n) = n
  BY <1>1, <1>2, FS_Interval
<1> QED BY <1>1, <1>3 DEF one, n

\* Any values for the places 1 to n are a sequence.
LEMMA IsSeq ==
    ASSUME NEW S, NEW n \in Nat, NEW t \in [1..n -> S]
    PROVE  t \in Seq(S) /\ Len(t) = n
<1>1. t \in Seq(S)
  BY SeqDef
<1>2. Len(t) \in Nat /\ DOMAIN t = 1..Len(t) /\ DOMAIN t = 1..n
  BY <1>1
<1>3. Len(t) = n
  <2> DEFINE l == Len(t)
  <2>1. l \in Nat /\ 1..l = 1..n
    BY <1>2
  <2> HIDE DEF l
  <2>2. (l >= 1 => l \in 1..n) /\ (n >= 1 => n \in 1..l)
    BY <2>1
  <2>3. l = n
    BY <2>1, <2>2
  <2> QED BY <2>3 DEF l
<1> QED BY <1>1, <1>3
-----------------------------------------------------------------------------
(* The order of the activities.                                            *)

\* The first of two different keys, part by part.
Lex(s, t) == \E i \in 1..7 : s[i] < t[i] /\ \A j \in 1..(i - 1) : s[j] = t[j]
OrderKeys == [1..7 -> Int]

\* Of two keys that differ one comes first, and the order goes on from key to key.
LEMMA LexOrders ==
    ASSUME NEW s \in OrderKeys, NEW t \in OrderKeys, NEW u \in OrderKeys
    PROVE  /\ ~Lex(s, s)
           /\ Lex(s, t) /\ Lex(t, u) => Lex(s, u)
           /\ Lex(s, t) \/ Lex(t, s) \/ s = t
<1>1. ~Lex(s, s)
  BY DEF Lex, OrderKeys
<1>2. ASSUME Lex(s, t), Lex(t, u) PROVE Lex(s, u)
  <2>1. PICK i \in 1..7 : s[i] < t[i] /\ \A j \in 1..(i - 1) : s[j] = t[j]
    BY <1>2 DEF Lex
  <2>2. PICK k \in 1..7 : t[k] < u[k] /\ \A j \in 1..(k - 1) : t[j] = u[j]
    BY <1>2 DEF Lex
  <2>3. s[i] \in Int /\ t[i] \in Int /\ u[i] \in Int /\ s[k] \in Int /\ t[k] \in Int /\ u[k] \in Int
    BY DEF OrderKeys
  <2>4. CASE i <= k
    <3>1. s[i] < u[i] /\ \A j \in 1..(i - 1) : s[j] = u[j]
      BY <2>1, <2>2, <2>3, <2>4
    <3> QED BY <3>1 DEF Lex
  <2>5. CASE k < i
    <3>1. s[k] < u[k] /\ \A j \in 1..(k - 1) : s[j] = u[j]
      BY <2>1, <2>2, <2>3, <2>5
    <3> QED BY <3>1 DEF Lex
  <2> QED BY <2>4, <2>5
<1>3. ASSUME s # t PROVE Lex(s, t) \/ Lex(t, s)
  <2> DEFINE D == {i \in 1..7 : s[i] # t[i]}
  <2>1. D \in SUBSET Nat /\ D # {}
    BY <1>3 DEF OrderKeys
  <2>2. PICK i \in D : \A j \in D : i <= j
    <3> HIDE DEF D
    <3> QED BY <2>1, LeastNumber
  <2>3. i \in 1..7 /\ s[i] # t[i] /\ s[i] \in Int /\ t[i] \in Int
    BY DEF OrderKeys
  <2>4. \A j \in 1..(i - 1) : s[j] = t[j]
    BY <2>2, <2>3
  <2> QED BY <2>3, <2>4 DEF Lex
<1> QED BY <1>1, <1>2, <1>3

\* What stands between two keys that begin alike begins like them.
LEMMA LexBetween ==
    ASSUME NEW s \in OrderKeys, NEW t \in OrderKeys, NEW u \in OrderKeys,
           ~Lex(t, s), ~Lex(u, t), \A i \in 1..4 : s[i] = u[i]
    PROVE  \A i \in 1..4 : t[i] = s[i]
<1>1. \A i \in 1..7 : s[i] \in Int /\ t[i] \in Int /\ u[i] \in Int
  BY DEF OrderKeys
<1>2. \A i \in 1..7 : (\A j \in 1..(i - 1) : t[j] = s[j]) => ~(t[i] < s[i])
  BY DEF Lex
<1>3. \A i \in 1..7 : (\A j \in 1..(i - 1) : u[j] = t[j]) => ~(u[i] < t[i])
  BY DEF Lex
<1>4. t[1] = s[1]
  BY <1>1, <1>2, <1>3
<1>5. t[2] = s[2]
  <2>1. \A j \in 1..(2 - 1) : t[j] = s[j] /\ u[j] = t[j]
    BY <1>4
  <2> QED BY <1>1, <1>2, <1>3, <2>1
<1>6. t[3] = s[3]
  <2>1. \A j \in 1..(3 - 1) : t[j] = s[j] /\ u[j] = t[j]
    BY <1>4, <1>5
  <2> QED BY <1>1, <1>2, <1>3, <2>1
<1>7. t[4] = s[4]
  <2>1. \A j \in 1..(4 - 1) : t[j] = s[j] /\ u[j] = t[j]
    BY <1>4, <1>5, <1>6
  <2> QED BY <1>1, <1>2, <1>3, <2>1
<1> QED BY <1>4, <1>5, <1>6, <1>7

\* Activities go as their keys go.
LEMMA KeyOfActivity ==
    ASSUME NEW a \in Activities, NEW b \in Activities
    PROVE  /\ OrderKey(a) \in OrderKeys
           /\ Precedes(a, b) <=> Lex(OrderKey(a), OrderKey(b))
           /\ SupportedFields(a) /\ SupportedFields(b) =>
                 (TypeOrder(a.type) = TypeOrder(b.type) => a.type = b.type)
<1>1. TypeOrder(a.type) \in Int /\ TypeOrder(b.type) \in Int
  BY DEF TypeOrder
<1>2. OrderKey(a) \in OrderKeys /\ OrderKey(b) \in OrderKeys
  BY <1>1 DEF OrderKey, OrderKeys, Activities
<1>3. DOMAIN OrderKey(a) = 1..7
  BY <1>2 DEF OrderKeys
<1>4. Precedes(a, b) <=> Lex(OrderKey(a), OrderKey(b))
  BY <1>3 DEF Precedes, Lex
<1>5. ASSUME SupportedFields(a), SupportedFields(b), TypeOrder(a.type) = TypeOrder(b.type)
      PROVE  a.type = b.type
  BY <1>5 DEF SupportedFields, TypeOrder
<1> QED BY <1>2, <1>4, <1>5

\* What precedes, and what does not, goes on from activity to activity.
LEMMA PrecedesOrders ==
    ASSUME NEW a \in Activities, NEW b \in Activities, NEW c \in Activities
    PROVE  /\ ~Precedes(a, a)
           /\ Precedes(a, b) /\ Precedes(b, c) => Precedes(a, c)
           /\ Precedes(a, b) /\ ~Precedes(c, b) => Precedes(a, c)
           /\ ~Precedes(b, a) /\ Precedes(b, c) => Precedes(a, c)
           /\ ~Precedes(b, a) /\ ~Precedes(c, b) => ~Precedes(c, a)
           /\ Precedes(a, b) \/ Precedes(b, a) \/ OrderKey(a) = OrderKey(b)
<1> DEFINE s == OrderKey(a)
           t == OrderKey(b)
           u == OrderKey(c)
<1>1. /\ s \in OrderKeys /\ t \in OrderKeys /\ u \in OrderKeys
      /\ Precedes(a, a) <=> Lex(s, s)
      /\ Precedes(a, b) <=> Lex(s, t)
      /\ Precedes(b, a) <=> Lex(t, s)
      /\ Precedes(b, c) <=> Lex(t, u)
      /\ Precedes(c, b) <=> Lex(u, t)
      /\ Precedes(a, c) <=> Lex(s, u)
      /\ Precedes(c, a) <=> Lex(u, s)
  BY KeyOfActivity
<1> HIDE DEF s, t, u
<1>2. /\ ~Lex(s, s) /\ (Lex(s, t) /\ Lex(t, u) => Lex(s, u)) /\ (Lex(s, t) \/ Lex(t, s) \/ s = t)
      /\ (Lex(t, u) \/ Lex(u, t) \/ t = u) /\ (Lex(s, u) \/ Lex(u, s) \/ s = u)
      /\ (Lex(u, s) /\ Lex(s, t) => Lex(u, t)) /\ (Lex(t, u) /\ Lex(u, s) => Lex(t, s))
  BY <1>1, LexOrders
<1> QED BY <1>1, <1>2 DEF s, t, u

\* What the hash covers is all there is but the asset identity.
LEMMA HashKeeps ==
    ASSUME NEW a \in Activities
    PROVE  /\ Hash(a) \in Activities /\ Hash(Hash(a)) = Hash(a) /\ OrderKey(Hash(a)) = OrderKey(a)
           /\ Hash(a).symbol = a.symbol /\ Hash(a).type = a.type /\ Hash(a).scope = a.scope
           /\ Hash(a).day = a.day /\ Hash(a).id = a.id /\ Hash(a).shape = a.shape
           /\ Signed(Hash(a)) = Signed(a) /\ (SupportedFields(Hash(a)) <=> SupportedFields(a))
           /\ Signed(a) \in Int
<1> DEFINE h == Hash(a)
<1>1. /\ h \in Activities /\ h.day = a.day /\ h.symbol = a.symbol /\ h.type = a.type /\ h.id = a.id
      /\ h.body = a.body /\ h.quantity = a.quantity /\ h.scope = a.scope /\ h.shape = a.shape /\ h.asset = 0
  BY DEF Hash, Activities
<1>2. Hash(h) = h
  BY DEF Hash, Activities
<1> HIDE DEF h
<1>3. OrderKey(h) = OrderKey(a)
  BY <1>1 DEF OrderKey
<1>4. Signed(h) = Signed(a) /\ (SupportedFields(h) <=> SupportedFields(a))
  BY <1>1 DEF Signed, SupportedFields
<1>5. a.quantity \in Int /\ -a.quantity \in Int
  BY DEF Activities
<1>6. Signed(a) \in Int
  BY <1>5 DEF Signed
<1> QED BY <1>1, <1>2, <1>3, <1>4, <1>6 DEF h

\* Supported activities with one place in the order are copies of each other.
LEMMA SameKeySameHash ==
    ASSUME NEW a \in Activities, NEW b \in Activities
    PROVE  /\ Hash(a) = Hash(b) => OrderKey(a) = OrderKey(b)
           /\ SupportedFields(a) /\ SupportedFields(b) /\ OrderKey(a) = OrderKey(b) => Hash(a) = Hash(b)
<1>1. ASSUME Hash(a) = Hash(b) PROVE OrderKey(a) = OrderKey(b)
  <2>1. OrderKey(Hash(a)) = OrderKey(a) /\ OrderKey(Hash(b)) = OrderKey(b)
    BY HashKeeps
  <2> QED BY <1>1, <2>1
<1>2. ASSUME SupportedFields(a), SupportedFields(b), OrderKey(a) = OrderKey(b) PROVE Hash(a) = Hash(b)
  <2>1. /\ OrderKey(a)[1] = OrderKey(b)[1] /\ OrderKey(a)[2] = OrderKey(b)[2] /\ OrderKey(a)[3] = OrderKey(b)[3]
        /\ OrderKey(a)[4] = OrderKey(b)[4] /\ OrderKey(a)[5] = OrderKey(b)[5] /\ OrderKey(a)[6] = OrderKey(b)[6]
        /\ OrderKey(a)[7] = OrderKey(b)[7]
    BY <1>2
  <2>2. /\ a.day = b.day /\ a.symbol = b.symbol /\ TypeOrder(a.type) = TypeOrder(b.type) /\ a.id = b.id
        /\ a.body = b.body /\ a.quantity = b.quantity /\ a.scope = b.scope
    BY <2>1 DEF OrderKey
  <2>3. a.type = b.type /\ a.shape = b.shape
    BY <1>2, <2>2, KeyOfActivity DEF SupportedFields
  <2> QED BY <2>2, <2>3 DEF Hash, Activities
<1> QED BY <1>1, <1>2
-----------------------------------------------------------------------------
(* Sorting, and removing copies.                                           *)

\* Every finite set can be put in a row, which holds all of it once.
LEMMA RowIs ==
    ASSUME NEW S, IsFiniteSet(S), NEW R, Orders(R, S)
    PROVE  /\ Row(S, R) \in [1..Cardinality(S) -> S]
           /\ \A m, n \in 1..Cardinality(S) : m < n => <<Row(S, R)[m], Row(S, R)[n]>> \in R
           /\ \A m, n \in 1..Cardinality(S) : Row(S, R)[m] = Row(S, R)[n] => m = n
           /\ \A x \in S : \E m \in 1..Cardinality(S) : Row(S, R)[m] = x
<1> DEFINE q == Row(S, R)
<1>1. \E p \in [1..Cardinality(S) -> S] : \A m, n \in DOMAIN p : m < n => <<p[m], p[n]>> \in R
  BY SortedExists DEF Sorted
<1>2. q \in [1..Cardinality(S) -> S] /\ \A m, n \in DOMAIN q : m < n => <<q[m], q[n]>> \in R
  BY <1>1 DEF Row
<1> HIDE DEF q
<1>3. Sorted(R, q)
  BY <1>2 DEF Sorted
<1>4. (\A m, n \in DOMAIN q : m # n => q[m] # q[n]) /\ \A x \in S : \E m \in DOMAIN q : q[m] = x
  BY <1>2, <1>3, SortedHoldsAll
<1> QED BY <1>2, <1>4 DEF q

\* Sorting moves every activity once, and leaves none before one that precedes it.
LEMMA InOrderIs ==
    ASSUME NEW s \in Seq(Activities)
    PROVE  /\ InOrder(s) \in Seq(Activities) /\ Len(InOrder(s)) = Len(s)
           /\ \A k \in 1..Len(s) : \E i \in 1..Len(s) : InOrder(s)[k] = s[i]
           /\ \A i \in 1..Len(s) : \E k \in 1..Len(s) : InOrder(s)[k] = s[i]
           /\ \A m, n \in 1..Len(s) : m < n => ~Precedes(InOrder(s)[n], InOrder(s)[m])
<1> DEFINE D == DOMAIN s
           before(i, j) == Precedes(s[i], s[j]) \/ (~Precedes(s[j], s[i]) /\ i < j)
           R == {w \in D \X D : before(w[1], w[2])}
           p == Row(D, R)
           t == [k \in D |-> s[p[k]]]
<1>1. /\ Len(s) \in Nat /\ D = 1..Len(s) /\ IsFiniteSet(D) /\ Cardinality(D) = Len(s)
      /\ \A k \in D : s[k] \in Activities /\ k \in Int
  BY PlacesOf
<1>2. \A i, j \in D : <<i, j>> \in R <=> Precedes(s[i], s[j]) \/ (~Precedes(s[j], s[i]) /\ i < j)
  OBVIOUS
<1> HIDE DEF D
<1>3. Orders(R, D)
  <2> HIDE DEF R
  <2>1. ASSUME NEW x \in D PROVE <<x, x>> \notin R
    BY <1>1, <1>2, PrecedesOrders
  <2>2. ASSUME NEW x \in D, NEW y \in D, x # y PROVE <<x, y>> \in R \/ <<y, x>> \in R
    <3>1. x < y \/ y < x
      BY <1>1, <2>2
    <3> QED BY <1>2, <3>1
  <2>3. ASSUME NEW x \in D, NEW y \in D, NEW z \in D, <<x, y>> \in R, <<y, z>> \in R
        PROVE  <<x, z>> \in R
    <3>1. s[x] \in Activities /\ s[y] \in Activities /\ s[z] \in Activities /\ x \in Int /\ y \in Int /\ z \in Int
      BY <1>1
    <3> DEFINE a == s[x]
               b == s[y]
               c == s[z]
    <3>2. /\ Precedes(a, b) \/ (~Precedes(b, a) /\ x < y)
          /\ Precedes(b, c) \/ (~Precedes(c, b) /\ y < z)
      BY <1>2, <2>3
    <3>3. /\ Precedes(a, b) /\ Precedes(b, c) => Precedes(a, c)
          /\ Precedes(a, b) /\ ~Precedes(c, b) => Precedes(a, c)
          /\ ~Precedes(b, a) /\ Precedes(b, c) => Precedes(a, c)
          /\ ~Precedes(b, a) /\ ~Precedes(c, b) => ~Precedes(c, a)
      BY <3>1, PrecedesOrders
    <3>4. x < y /\ y < z => x < z
      BY <3>1
    <3> HIDE DEF a, b, c
    <3>5. Precedes(a, c) \/ (~Precedes(c, a) /\ x < z)
      BY <3>2, <3>3, <3>4
    <3> QED BY <1>2, <3>5 DEF a, c
  <2> QED BY <2>1, <2>2, <2>3 DEF Orders
<1> HIDE DEF R
<1>4. /\ p \in [D -> D]
      /\ \A m, n \in D : m < n => <<p[m], p[n]>> \in R
      /\ \A x \in D : \E m \in D : p[m] = x
  BY <1>1, <1>3, RowIs
<1>5. InOrder(s) = t
  BY DEF InOrder, D, R
<1> HIDE DEF p
<1>6. t \in [1..Len(s) -> Activities]
  BY <1>1, <1>4
<1>7. t \in Seq(Activities) /\ Len(t) = Len(s)
  <2> HIDE DEF t
  <2> QED BY <1>1, <1>6, IsSeq
<1>8. \A k \in D : t[k] = s[p[k]] /\ p[k] \in D
  BY <1>4
<1>9. ASSUME NEW m \in D, NEW n \in D, m < n PROVE ~Precedes(t[n], t[m])
  <2>1. Precedes(s[p[m]], s[p[n]]) \/ ~Precedes(s[p[n]], s[p[m]])
    BY <1>2, <1>4, <1>8, <1>9
  <2>2. s[p[m]] \in Activities /\ s[p[n]] \in Activities
    BY <1>1, <1>8
  <2> QED BY <1>8, <2>1, <2>2, PrecedesOrders
<1> HIDE DEF t
<1> QED BY <1>1, <1>4, <1>5, <1>7, <1>8, <1>9

\* Removing copies keeps the first activity of each run, in the same order.
LEMMA DeduplicatedIs ==
    ASSUME NEW s \in Seq(Activities)
    PROVE  /\ Deduplicated(s) \in Seq(Activities)
           /\ \E p \in [1..Len(Deduplicated(s)) -> DOMAIN s] :
                 /\ \A n \in 1..Len(Deduplicated(s)) :
                       /\ Deduplicated(s)[n] = s[p[n]]
                       /\ p[n] > 1 => Hash(s[p[n] - 1]) # Hash(s[p[n]])
                 /\ \A m, n \in 1..Len(Deduplicated(s)) : m < n => p[m] < p[n]
                 /\ \A k \in DOMAIN s : \E n \in 1..Len(Deduplicated(s)) :
                       p[n] <= k /\ Hash(s[p[n]]) = Hash(s[k])
<1> DEFINE K == {k \in DOMAIN s : k > 1 => Hash(s[k - 1]) # Hash(s[k])}
           R == {w \in K \X K : w[1] < w[2]}
           p == Row(K, R)
           N == Cardinality(K)
           t == [n \in 1..N |-> s[p[n]]]
<1>1. /\ Len(s) \in Nat /\ DOMAIN s = 1..Len(s) /\ IsFiniteSet(DOMAIN s)
      /\ \A k \in DOMAIN s : s[k] \in Activities /\ k \in Nat
  BY PlacesOf
<1>2. K \subseteq DOMAIN s /\ IsFiniteSet(K) /\ N \in Nat
  <2>1. K \subseteq DOMAIN s
    OBVIOUS
  <2> HIDE DEF K
  <2> QED BY <1>1, <2>1, FS_Subset, FS_CardinalityType
<1>3. \A x \in K : x \in Int /\ x \in DOMAIN s
  BY <1>1, <1>2
<1>4. \A k \in DOMAIN s : k \in K <=> (k > 1 => Hash(s[k - 1]) # Hash(s[k]))
  OBVIOUS
<1> HIDE DEF K
<1>5. \A x, y \in K : <<x, y>> \in R <=> x < y
  OBVIOUS
<1> HIDE DEF R
<1>6. Orders(R, K)
  BY <1>3, <1>5 DEF Orders
<1>7. /\ p \in [1..N -> K]
      /\ \A m, n \in 1..N : m < n => <<p[m], p[n]>> \in R
      /\ \A x \in K : \E m \in 1..N : p[m] = x
  BY <1>2, <1>6, RowIs
<1>8. Deduplicated(s) = t
  BY DEF Deduplicated, K, R
<1> HIDE DEF p, N
<1>9. t \in [1..N -> Activities]
  BY <1>1, <1>3, <1>7
<1>10. t \in Seq(Activities) /\ Len(t) = N
  <2> HIDE DEF t
  <2> QED BY <1>2, <1>9, IsSeq
<1>11. \A n \in 1..N : t[n] = s[p[n]] /\ p[n] \in K
  BY <1>7
<1>12. \A m, n \in 1..N : m < n => p[m] < p[n]
  BY <1>5, <1>7
<1>13. \A k \in DOMAIN s : \E n \in 1..N : p[n] <= k /\ Hash(s[p[n]]) = Hash(s[k])
  <2> DEFINE Bad == {k \in DOMAIN s : ~ \E n \in 1..N : p[n] <= k /\ Hash(s[p[n]]) = Hash(s[k])}
  <2> SUFFICES ASSUME Bad # {} PROVE FALSE
    OBVIOUS
  <2>1. Bad \in SUBSET Nat /\ Bad # {}
    BY <1>1
  <2>2. PICK k \in Bad : \A j \in Bad : k <= j
    <3> HIDE DEF Bad
    <3> QED BY <2>1, LeastNumber
  <2>3. k \in DOMAIN s /\ k \in Nat
    BY <1>1
  <2>4. CASE k \in K
    <3>1. PICK n \in 1..N : p[n] = k
      BY <1>7, <2>4
    <3> QED BY <2>3, <3>1
  <2>5. CASE k \notin K
    <3>1. k > 1 /\ Hash(s[k - 1]) = Hash(s[k])
      BY <1>4, <2>3, <2>5
    <3>2. k - 1 \in DOMAIN s /\ k - 1 \notin Bad
      BY <1>1, <2>2, <2>3, <3>1
    <3>3. PICK n \in 1..N : p[n] <= k - 1 /\ Hash(s[p[n]]) = Hash(s[k - 1])
      BY <3>2
    <3>4. p[n] \in Int
      BY <1>3, <1>11
    <3>5. p[n] <= k /\ Hash(s[p[n]]) = Hash(s[k])
      BY <2>3, <3>1, <3>3, <3>4
    <3> QED BY <3>5
  <2> QED BY <2>4, <2>5
<1>14. p \in [1..N -> DOMAIN s] /\ \A n \in 1..N : p[n] > 1 => Hash(s[p[n] - 1]) # Hash(s[p[n]])
  BY <1>3, <1>4, <1>7
<1> HIDE DEF t
<1> QED BY <1>8, <1>10, <1>11, <1>12, <1>13, <1>14
-----------------------------------------------------------------------------
(* What depends on the contents alone.                                     *)

\* Sorted, sorted without ties, and past the field rules.
InLine(s) == \A m, n \in 1..Len(s) : m < n => ~Precedes(s[n], s[m])
Strictly(s) == \A m, n \in 1..Len(s) : m < n => Precedes(s[m], s[n])
AllSupported(s) == \A k \in 1..Len(s) : SupportedFields(s[k])

\* Neither sorting nor removing copies changes the contents.
LEMMA HashesKept ==
    ASSUME NEW s \in Seq(Activities)
    PROVE  /\ Hashes(InOrder(s)) = Hashes(s)
           /\ Hashes(Deduplicated(s)) = Hashes(s)
<1> DEFINE t == InOrder(s)
           d == Deduplicated(s)
<1>1. DOMAIN s = 1..Len(s)
  OBVIOUS
<1>2. Hashes(t) = Hashes(s)
  <2>1. /\ DOMAIN t = 1..Len(s)
        /\ \A k \in 1..Len(s) : \E i \in 1..Len(s) : t[k] = s[i]
        /\ \A i \in 1..Len(s) : \E k \in 1..Len(s) : t[k] = s[i]
    <3>1. t \in Seq(Activities) /\ Len(t) = Len(s)
      BY InOrderIs
    <3>2. DOMAIN t = 1..Len(s)
      <4> HIDE DEF t
      <4> QED BY <3>1
    <3> QED BY <3>2, InOrderIs
  <2> HIDE DEF t
  <2> QED BY <1>1, <2>1 DEF Hashes
<1>3. Hashes(d) = Hashes(s)
  <2>1. PICK p \in [1..Len(d) -> DOMAIN s] :
           /\ \A n \in 1..Len(d) : d[n] = s[p[n]]
           /\ \A k \in DOMAIN s : \E n \in 1..Len(d) : Hash(s[p[n]]) = Hash(s[k])
    BY DeduplicatedIs
  <2>2. d \in Seq(Activities)
    BY DeduplicatedIs
  <2> HIDE DEF d
  <2>3. DOMAIN d = 1..Len(d)
    BY <2>2
  <2> QED BY <2>1, <2>3 DEF Hashes
<1> QED BY <1>2, <1>3

\* Without copies every activity really precedes the next.
LEMMA CopiesGone ==
    ASSUME NEW t \in Seq(Activities), InLine(t), AllSupported(t)
    PROVE  Strictly(Deduplicated(t)) /\ AllSupported(Deduplicated(t))
<1> DEFINE d == Deduplicated(t)
<1>1. PICK p \in [1..Len(d) -> DOMAIN t] :
         /\ \A n \in 1..Len(d) : d[n] = t[p[n]] /\ (p[n] > 1 => Hash(t[p[n] - 1]) # Hash(t[p[n]]))
         /\ \A m, n \in 1..Len(d) : m < n => p[m] < p[n]
  BY DeduplicatedIs
<1>2. Len(t) \in Nat /\ DOMAIN t = 1..Len(t) /\ \A k \in 1..Len(t) : t[k] \in Activities
  BY PlacesOf
<1> HIDE DEF d
<1>3. AllSupported(d)
  BY <1>1, <1>2 DEF AllSupported
<1>4. ASSUME NEW m \in 1..Len(d), NEW n \in 1..Len(d), m < n PROVE Precedes(d[m], d[n])
  <2>1. p[m] \in 1..Len(t) /\ p[n] \in 1..Len(t) /\ p[m] < p[n] /\ p[n] > 1
    BY <1>1, <1>2, <1>4
  <2> DEFINE j == p[n] - 1
             a == t[p[m]]
             b == t[j]
             c == t[p[n]]
  <2>2. j \in 1..Len(t) /\ p[m] <= j /\ j < p[n]
    BY <1>2, <2>1
  <2>3. a \in Activities /\ b \in Activities /\ c \in Activities
    BY <1>2, <2>1, <2>2
  <2>4. Hash(b) # Hash(c)
    BY <1>1, <2>1
  <2>5. SupportedFields(b) /\ SupportedFields(c)
    BY <2>1, <2>2 DEF AllSupported
  <2>6. ~Precedes(c, b)
    BY <2>1, <2>2 DEF InLine
  <2>7. ~Precedes(b, a)
    <3>1. CASE p[m] = j
      BY <2>3, <3>1, PrecedesOrders
    <3>2. CASE p[m] < j
      BY <2>1, <2>2, <3>2 DEF InLine
    <3> QED BY <1>2, <2>1, <2>2, <3>1, <3>2
  <2> HIDE DEF a, b, c, j
  <2>8. OrderKey(b) # OrderKey(c)
    BY <2>3, <2>4, <2>5, SameKeySameHash
  <2>9. Precedes(b, c)
    BY <2>3, <2>6, <2>8, PrecedesOrders
  <2>10. Precedes(a, c)
    BY <2>3, <2>7, <2>9, PrecedesOrders
  <2> QED BY <1>1, <2>10 DEF a, c
<1> QED BY <1>3, <1>4 DEF Strictly, d

\* What is held after an activity is what its symbol's activities up to it add up to.
LEMMA HoldingsAgree ==
    ASSUME NEW d \in Seq(Activities), Strictly(d), NEW k \in 1..Len(d)
    PROVE  RunningQuantity(d, k) = HeldAfter(Hashes(d), Hash(d[k]))
<1>1. Len(d) \in Nat /\ DOMAIN d = 1..Len(d) /\ \A j \in 1..Len(d) : d[j] \in Activities
  BY PlacesOf
<1> DEFINE S == {j \in 1..k : d[j].symbol = d[k].symbol}
           f == [j \in DOMAIN d |-> Signed(d[j])]
           h == [j \in DOMAIN d |-> Hash(d[j])]
           H == Hashes(d)
           g == [b \in H |-> Signed(b)]
           T == {b \in H : b.symbol = Hash(d[k]).symbol /\ ~Precedes(Hash(d[k]), b)}
<1>2. IsFiniteSet(S) /\ S \subseteq 1..Len(d)
  <2>1. S \subseteq 1..k /\ S \subseteq 1..Len(d) /\ k \in Int
    BY <1>1
  <2> DEFINE one == 1
  <2>2. one \in Int /\ S \subseteq one..k
    BY <2>1
  <2> HIDE DEF S, one
  <2>3. IsFiniteSet(one..k)
    BY <2>1, <2>2, FS_Interval
  <2> QED BY <2>1, <2>2, <2>3, FS_Subset
<1>3. \A i, j \in 1..Len(d) : /\ Precedes(Hash(d[i]), Hash(d[j])) <=> i < j
                              /\ Hash(d[i]) = Hash(d[j]) => i = j
  <2> SUFFICES ASSUME NEW i \in 1..Len(d), NEW j \in 1..Len(d)
               PROVE  /\ Precedes(Hash(d[i]), Hash(d[j])) <=> i < j
                      /\ Hash(d[i]) = Hash(d[j]) => i = j
    OBVIOUS
  <2> DEFINE a == d[i]
             b == d[j]
  <2>1. a \in Activities /\ b \in Activities /\ Hash(a) \in Activities /\ Hash(b) \in Activities
    BY <1>1, HashKeeps
  <2>2. OrderKey(Hash(a)) = OrderKey(a) /\ OrderKey(Hash(b)) = OrderKey(b)
    BY <2>1, HashKeeps
  <2>3. (i < j => Precedes(a, b)) /\ (j < i => Precedes(b, a))
    BY DEF Strictly
  <2> HIDE DEF a, b
  <2>4. /\ Precedes(Hash(a), Hash(b)) <=> Precedes(a, b)
        /\ Hash(a) = Hash(b) => OrderKey(a) = OrderKey(b)
        /\ Precedes(a, b) => ~Precedes(b, a)
        /\ OrderKey(a) = OrderKey(b) => ~Precedes(a, b) /\ ~Precedes(b, a)
    <3>1. Precedes(Hash(a), Hash(b)) <=> Precedes(a, b)
      BY <2>1, <2>2, KeyOfActivity
    <3>2. Hash(a) = Hash(b) => OrderKey(a) = OrderKey(b)
      BY <2>1, SameKeySameHash
    <3>3. Precedes(a, b) => ~Precedes(b, a)
      BY <2>1, PrecedesOrders
    <3>4. ASSUME OrderKey(a) = OrderKey(b) PROVE ~Precedes(a, b) /\ ~Precedes(b, a)
      BY <2>1, <3>4, KeyOfActivity, LexOrders
    <3> QED BY <3>1, <3>2, <3>3, <3>4
  <2>5. i < j \/ j < i \/ i = j
    BY <1>1
  <2>6. i = j => a = b
    BY DEF a, b
  <2>7. a = b => ~Precedes(a, b)
    BY <2>1, PrecedesOrders
  <2>8. i < j <=> Precedes(a, b)
    BY <2>3, <2>4, <2>5, <2>6, <2>7
  <2>9. Hash(a) = Hash(b) => i = j
    BY <2>3, <2>4, <2>5
  <2> QED BY <2>4, <2>8, <2>9 DEF a, b
<1>4. \A j \in 1..Len(d) : /\ h[j] = Hash(d[j]) /\ h[j] \in H /\ f[j] = Signed(d[j]) /\ f[j] \in Int
                           /\ g[h[j]] = f[j] /\ h[j].symbol = d[j].symbol
  BY <1>1, HashKeeps DEF Hashes
<1>5. (\A b \in T : \E j \in S : b = h[j]) /\ \A j \in S : h[j] \in T
  <2>1. ASSUME NEW b \in T PROVE \E j \in S : b = h[j]
    <3>1. PICK j \in 1..Len(d) : b = Hash(d[j])
      BY <1>1 DEF Hashes
    <3>2. ~(k < j) /\ d[j].symbol = d[k].symbol
      BY <1>3, <1>4, <3>1
    <3>3. j \in 1..k
      BY <1>1, <3>2
    <3> QED BY <1>1, <3>1, <3>2, <3>3
  <2>2. ASSUME NEW j \in S PROVE h[j] \in T
    <3>1. j \in 1..Len(d) /\ ~(k < j) /\ d[j].symbol = d[k].symbol
      BY <1>1
    <3>2. ~Precedes(Hash(d[k]), Hash(d[j]))
      BY <1>3, <3>1
    <3>3. Hash(d[k]).symbol = d[k].symbol
      BY <1>1, HashKeeps
    <3> QED BY <1>4, <3>1, <3>2, <3>3
  <2> QED BY <2>1, <2>2
<1>6. RunningQuantity(d, k) = SumFunctionOnSet(f, S)
  BY DEF RunningQuantity
<1>7. HeldAfter(H, Hash(d[k])) = SumFunctionOnSet(g, T)
  BY DEF HeldAfter
<1>8. /\ \A x, y \in S : h[x] = h[y] => x = y
      /\ \A x \in S : f[x] \in Int /\ g[h[x]] = f[x]
  <2> HIDE DEF S, f, g, h, H
  <2>1. \A x \in S : x \in 1..Len(d)
    BY <1>2
  <2>2. \A x \in 1..Len(d) : f[x] \in Int /\ g[h[x]] = f[x]
    BY <1>4
  <2>3. \A x, y \in 1..Len(d) : h[x] = h[y] => x = y
    BY <1>3, <1>4
  <2> QED BY <2>1, <2>2, <2>3
<1> HIDE DEF S, T, f, g, h, H
<1>9. SumFunctionOnSet(f, S) = SumFunctionOnSet(g, T)
  <2>1. Renames(h, f, S, g, T)
    BY <1>5, <1>8 DEF Renames
  <2> QED BY <1>2, <2>1, SumRenamed
<1> QED BY <1>6, <1>7, <1>9 DEF H

\* In a sorted history two activities that cannot be told apart are found between
\* two neighbours.
LEMMA AmbiguityAgrees ==
    ASSUME NEW t \in Seq(Activities), InLine(t), AllSupported(t)
    PROVE  StableOrder(t) <=> \A a, b \in Hashes(t) : ~Ambiguous(a, b)
<1>1. Len(t) \in Nat /\ DOMAIN t = 1..Len(t) /\ \A k \in 1..Len(t) : t[k] \in Activities
  BY PlacesOf
<1>2. \A i, j \in 1..Len(t) : Ambiguous(Hash(t[i]), Hash(t[j])) <=> Ambiguous(t[i], t[j])
  <2> SUFFICES ASSUME NEW i \in 1..Len(t), NEW j \in 1..Len(t)
               PROVE  Ambiguous(Hash(t[i]), Hash(t[j])) <=> Ambiguous(t[i], t[j])
    OBVIOUS
  <2> DEFINE a == t[i]
             b == t[j]
  <2>1. a \in Activities /\ b \in Activities
    BY <1>1
  <2> HIDE DEF a, b
  <2>2. Ambiguous(Hash(a), Hash(b)) <=> Ambiguous(a, b)
    BY <2>1, HashKeeps DEF Ambiguous
  <2> QED BY <2>2 DEF a, b
<1>3. ASSUME \A a, b \in Hashes(t) : ~Ambiguous(a, b) PROVE StableOrder(t)
  <2> SUFFICES ASSUME NEW k \in 2..Len(t) PROVE ~Ambiguous(t[k - 1], t[k])
    BY DEF StableOrder
  <2>1. k - 1 \in 1..Len(t) /\ k \in 1..Len(t)
    BY <1>1
  <2>2. Hash(t[k - 1]) \in Hashes(t) /\ Hash(t[k]) \in Hashes(t)
    BY <1>1, <2>1 DEF Hashes
  <2> QED BY <1>2, <1>3, <2>1, <2>2
<1>4. ASSUME StableOrder(t), NEW i \in 1..Len(t), NEW j \in 1..Len(t), i < j PROVE ~Ambiguous(t[i], t[j])
  <2> SUFFICES ASSUME Ambiguous(t[i], t[j]) PROVE FALSE
    OBVIOUS
  <2> DEFINE C == {k \in 1..Len(t) : i < k /\ k <= j /\ Hash(t[k]) # Hash(t[i])}
  <2>1. C \in SUBSET Nat /\ C # {}
    <3>1. j \in C
      BY <1>1, <1>4 DEF Ambiguous
    <3> QED BY <1>1, <3>1
  <2>2. PICK k \in C : \A m \in C : k <= m
    <3> HIDE DEF C
    <3> QED BY <2>1, LeastNumber
  <2>3. k \in 1..Len(t) /\ i < k /\ k <= j /\ Hash(t[k]) # Hash(t[i]) /\ k - 1 \in 1..Len(t) /\ i <= k - 1
    BY <1>1
  <2>4. Hash(t[k - 1]) = Hash(t[i])
    <3>1. CASE k - 1 = i
      BY <3>1
    <3>2. CASE k - 1 > i
      BY <1>1, <2>2, <2>3, <3>2
    <3> QED BY <1>1, <2>3, <3>1, <3>2
  <2> DEFINE a == t[i]
             b == t[k]
             c == t[j]
             p == t[k - 1]
  <2>5. a \in Activities /\ b \in Activities /\ c \in Activities /\ p \in Activities
    BY <1>1, <2>3
  <2>6. SupportedFields(a) /\ SupportedFields(b) /\ SupportedFields(c)
    BY <2>3 DEF AllSupported
  <2>7. ~Precedes(b, a)
    BY <2>3 DEF InLine
  <2>8. ~Precedes(c, b)
    <3>1. CASE k = j
      BY <2>5, <3>1, PrecedesOrders
    <3>2. CASE k < j
      BY <2>3, <3>2 DEF InLine
    <3> QED BY <1>1, <2>3, <3>1, <3>2
  <2>9. Ambiguous(a, c) /\ ~Ambiguous(p, b) /\ Hash(p) = Hash(a) /\ Hash(b) # Hash(a)
    <3>1. k \in 2..Len(t)
      BY <1>1, <2>3
    <3> QED BY <1>4, <2>3, <2>4, <3>1 DEF StableOrder
  <2> HIDE DEF a, b, c, p
  <2>10. a.day = c.day /\ a.symbol = c.symbol /\ a.type = c.type /\ a.id = c.id
    BY <2>9 DEF Ambiguous
  <2>11. \A n \in 1..4 : OrderKey(b)[n] = OrderKey(a)[n]
    <3> DEFINE s == OrderKey(a)
               u == OrderKey(b)
               v == OrderKey(c)
    <3>1. s \in OrderKeys /\ u \in OrderKeys /\ v \in OrderKeys /\ ~Lex(u, s) /\ ~Lex(v, u)
      BY <2>5, <2>7, <2>8, KeyOfActivity
    <3>2. \A n \in 1..4 : s[n] = v[n]
      BY <2>10 DEF OrderKey
    <3> HIDE DEF s, u, v
    <3>3. \A n \in 1..4 : u[n] = s[n]
      BY <3>1, <3>2, LexBetween
    <3> QED BY <3>3 DEF s, u
  <2>12. OrderKey(b)[1] = OrderKey(a)[1] /\ OrderKey(b)[2] = OrderKey(a)[2]
         /\ OrderKey(b)[3] = OrderKey(a)[3] /\ OrderKey(b)[4] = OrderKey(a)[4]
    BY <2>11
  <2>13. b.day = a.day /\ b.symbol = a.symbol /\ TypeOrder(b.type) = TypeOrder(a.type) /\ b.id = a.id
    BY <2>12 DEF OrderKey
  <2>14. b.type = a.type
    BY <2>5, <2>6, <2>13, KeyOfActivity
  <2>15. p.day = a.day /\ p.symbol = a.symbol /\ p.type = a.type /\ p.id = a.id
    <3>1. /\ Hash(p).day = p.day /\ Hash(p).symbol = p.symbol /\ Hash(p).type = p.type /\ Hash(p).id = p.id
          /\ Hash(a).day = a.day /\ Hash(a).symbol = a.symbol /\ Hash(a).type = a.type /\ Hash(a).id = a.id
      BY <2>5, HashKeeps
    <3> QED BY <2>9, <3>1
  <2>16. Ambiguous(p, b)
    BY <2>9, <2>13, <2>14, <2>15 DEF Ambiguous
  <2> QED BY <2>9, <2>16
<1>5. ASSUME StableOrder(t), NEW a \in Hashes(t), NEW b \in Hashes(t) PROVE ~Ambiguous(a, b)
  <2>1. PICK i \in 1..Len(t), j \in 1..Len(t) : a = Hash(t[i]) /\ b = Hash(t[j])
    BY <1>1 DEF Hashes
  <2>2. Ambiguous(a, b) <=> Ambiguous(t[i], t[j])
    BY <1>2, <2>1
  <2>3. Ambiguous(t[i], t[j]) <=> Ambiguous(t[j], t[i])
    BY DEF Ambiguous
  <2>4. i = j => ~Ambiguous(t[i], t[j])
    BY DEF Ambiguous
  <2>5. i < j \/ j < i \/ i = j
    BY <1>1
  <2> QED BY <1>4, <1>5, <2>2, <2>3, <2>4, <2>5
<1> QED BY <1>3, <1>5

\* Whether scopes can be relied on is a matter of the contents.
LEMMA ReliabilityAgrees ==
    ASSUME NEW d \in Seq(Activities)
    PROVE  /\ ScopeReliability(d) = ReliabilityOf(Hashes(d))
           /\ ScopeReliability(d) \in {"reliable", "partial", "unavailable"}
<1>1. /\ Len(d) \in Nat /\ DOMAIN d = 1..Len(d) /\ IsFiniteSet(DOMAIN d)
      /\ \A k \in 1..Len(d) : d[k] \in Activities
  BY PlacesOf
<1> DEFINE timeline(symbol) == {k \in DOMAIN d : d[k].symbol = symbol}
           rel(k) == TimelineReliability(d, timeline(d[k].symbol))
           found == {rel(k) : k \in DOMAIN d}
           H == Hashes(d)
           own(k) == ScopesOf(H, d[k].symbol)
           scopes == {ScopesOf(H, a.symbol) : a \in H}
<1>2. \A k \in DOMAIN d : own(k) = {d[j].scope : j \in timeline(d[k].symbol)}
  <2> SUFFICES ASSUME NEW k \in DOMAIN d PROVE own(k) = {d[j].scope : j \in timeline(d[k].symbol)}
    OBVIOUS
  <2>1. \A j \in DOMAIN d : /\ Hash(d[j]) \in H /\ Hash(d[j]).scope = d[j].scope
                             /\ Hash(d[j]).symbol = d[j].symbol
    BY <1>1, HashKeeps DEF Hashes
  <2>2. \A b \in H : \E j \in DOMAIN d : b = Hash(d[j])
    BY DEF Hashes
  <2> HIDE DEF H
  <2>3. ASSUME NEW x \in own(k) PROVE \E j \in timeline(d[k].symbol) : x = d[j].scope
    BY <2>1, <2>2, <2>3 DEF ScopesOf
  <2>4. ASSUME NEW j \in timeline(d[k].symbol) PROVE d[j].scope \in own(k)
    BY <2>1, <2>4 DEF ScopesOf
  <2> QED BY <2>3, <2>4
<1>3. scopes = {own(k) : k \in DOMAIN d}
  <2>1. \A j \in DOMAIN d : Hash(d[j]) \in H /\ Hash(d[j]).symbol = d[j].symbol
    BY <1>1, HashKeeps DEF Hashes
  <2>2. \A b \in H : \E j \in DOMAIN d : b = Hash(d[j])
    BY DEF Hashes
  <2> HIDE DEF H
  <2> QED BY <2>1, <2>2
<1>4. ASSUME NEW k \in DOMAIN d
      PROVE  /\ rel(k) = "partial" <=> Cardinality(own(k)) > 1
             /\ rel(k) = "unavailable" <=> own(k) = {NoScope}
             /\ rel(k) \in {"partial", "unavailable", "reliable"}
             /\ own(k) = {NoScope} => Cardinality(own(k)) = 1
  <2> DEFINE line == timeline(d[k].symbol)
             S == {d[j].scope : j \in line}
             m == Min(line)
             first == d[m].scope
  <2>1. k \in line /\ line \subseteq DOMAIN d
    OBVIOUS
  <2>2. m \in line
    <3>1. line \in SUBSET Nat /\ line # {}
      BY <1>1, <2>1
    <3> HIDE DEF line
    <3>2. \E x \in line : \A y \in line : x <= y
      BY <3>1, LeastNumber
    <3> QED BY <3>2 DEF Min
  <2>3. IsFiniteSet(S)
    <3> DEFINE I == [j \in line |-> d[j].scope]
    <3>1. IsFiniteSet(line)
      BY <1>1, <2>1, FS_Subset
    <3> HIDE DEF line
    <3>2. I \in Surjection(line, S)
      BY DEF Surjection
    <3> HIDE DEF S, I
    <3> QED BY <3>1, <3>2, FS_Surjection
  <2>4. rel(k) = IF \E j \in line : d[j].scope # first THEN "partial"
                 ELSE IF first = NoScope THEN "unavailable" ELSE "reliable"
    BY DEF TimelineReliability
  <2>5. own(k) = S
    BY <1>2
  <2>6. first \in S /\ \A x \in S : \E j \in line : x = d[j].scope
    BY <2>2
  <2>7. \A j \in line : d[j].scope \in S
    OBVIOUS
  <2> HIDE DEF S, line, m, first
  <2>8. Cardinality(S) \in Nat /\ Cardinality(S) # 0
    BY <2>3, <2>6, FS_CardinalityType, FS_EmptySet
  <2>9. Cardinality(S) = 1 <=> \E x : S = {x}
    BY <2>3, FS_Singleton
  <2>10. CASE \E j \in line : d[j].scope # first
    <3>1. ~ \E x : S = {x}
      BY <2>6, <2>7, <2>10
    <3>2. Cardinality(S) # 1
      BY <2>9, <3>1, Zenon
    <3> DEFINE c == Cardinality(S)
    <3>3. c \in Nat /\ c # 0 /\ c # 1
      BY <2>8, <3>2
    <3> HIDE DEF c
    <3>4. c > 1
      BY <3>3
    <3>5. Cardinality(S) > 1
      BY <3>4 DEF c
    <3> QED BY <2>4, <2>5, <2>10, <3>1, <3>5
  <2>11. CASE \A j \in line : d[j].scope = first
    <3>1. S = {first}
      BY <2>6, <2>11
    <3>2. Cardinality(S) = 1
      BY <2>9, <3>1
    <3>3. ~ (\E j \in line : d[j].scope # first)
      BY <2>11
    <3> QED BY <2>4, <2>5, <3>1, <3>2, <3>3
  <2> QED BY <2>10, <2>11
<1>5. ScopeReliability(d) = IF "partial" \in found THEN "partial"
                            ELSE IF "reliable" \in found THEN "reliable" ELSE "unavailable"
  BY DEF ScopeReliability
<1>6. ReliabilityOf(H) = CASE \E S \in scopes : Cardinality(S) > 1 -> "partial"
                           [] \A S \in scopes : S = {NoScope}     -> "unavailable"
                           [] OTHER                               -> "reliable"
  BY DEF ReliabilityOf
<1> HIDE DEF rel, own, H
<1>7. /\ "partial" \in found <=> \E S \in scopes : Cardinality(S) > 1
      /\ "partial" \notin found => ("reliable" \in found <=> ~ \A S \in scopes : S = {NoScope})
      /\ (\A S \in scopes : S = {NoScope}) => ~ \E S \in scopes : Cardinality(S) > 1
  BY <1>3, <1>4
<1> HIDE DEF found, scopes
<1>8. ScopeReliability(d) = ReliabilityOf(H)
  BY <1>5, <1>6, <1>7
<1>9. ScopeReliability(d) \in {"reliable", "partial", "unavailable"}
  BY <1>5
<1> QED BY <1>8, <1>9 DEF H

\* The field rules look at nothing the hash leaves out.
LEMMA AllSupportedHashes ==
    ASSUME NEW s \in Seq(Activities)
    PROVE  AllSupported(s) <=> \A a \in Hashes(s) : SupportedFields(a)
<1>1. DOMAIN s = 1..Len(s) /\ \A k \in 1..Len(s) : s[k] \in Activities
  BY PlacesOf
<1>2. \A k \in 1..Len(s) : SupportedFields(Hash(s[k])) <=> SupportedFields(s[k])
  BY <1>1, HashKeeps
<1> QED BY <1>1, <1>2 DEF AllSupported, Hashes

\* Whether a history is supported is a matter of the contents.
LEMMA SupportAgrees ==
    ASSUME NEW s \in Seq(Activities)
    PROVE  LET d == Deduplicated(InOrder(s)) IN
           /\ d \in Seq(Activities) /\ Hashes(d) = Hashes(s)
           /\ StableOrder(InOrder(s)) /\ Validates(d) <=> SupportedContents(Hashes(s))
           /\ SupportedContents(Hashes(s)) => Strictly(d)
<1> DEFINE t == InOrder(s)
           d == Deduplicated(t)
           H == Hashes(s)
<1>1. t \in Seq(Activities) /\ InLine(t) /\ Hashes(t) = H
  BY InOrderIs, HashesKept DEF InLine
<1> HIDE DEF t
<1>2. d \in Seq(Activities) /\ Hashes(d) = H
  BY <1>1, DeduplicatedIs, HashesKept
<1> HIDE DEF d, H
<1>3. DOMAIN d = 1..Len(d) /\ Len(d) \in Nat /\ \A k \in 1..Len(d) : d[k] \in Activities /\ Hash(d[k]) \in H
  BY <1>2, PlacesOf DEF Hashes
<1>4. /\ AllSupported(t) <=> \A a \in H : SupportedFields(a)
      /\ AllSupported(d) <=> \A a \in H : SupportedFields(a)
  BY <1>1, <1>2, AllSupportedHashes
<1>5. Validates(d) => AllSupported(d)
  BY <1>3 DEF Validates, AllSupported
<1>6. ASSUME AllSupported(t)
      PROVE  /\ Strictly(d) /\ AllSupported(d)
             /\ StableOrder(t) <=> \A a, b \in H : ~Ambiguous(a, b)
             /\ \A k \in 1..Len(d) : RunningQuantity(d, k) = HeldAfter(H, Hash(d[k]))
  <2>1. Strictly(d) /\ AllSupported(d)
    BY <1>1, <1>6, CopiesGone DEF d
  <2>2. StableOrder(t) <=> \A a, b \in H : ~Ambiguous(a, b)
    BY <1>1, <1>6, AmbiguityAgrees
  <2>3. \A k \in 1..Len(d) : RunningQuantity(d, k) = HeldAfter(H, Hash(d[k]))
    BY <1>2, <2>1, HoldingsAgree
  <2> QED BY <2>1, <2>2, <2>3
<1>7. \A k \in 1..Len(d) : Hash(d[k]).type = d[k].type
  BY <1>3, HashKeeps
<1>8. \A a \in H : \E k \in 1..Len(d) : a = Hash(d[k])
  BY <1>2, <1>3 DEF Hashes
<1>9. ASSUME StableOrder(t), Validates(d) PROVE SupportedContents(H)
  <2>1. AllSupported(t) /\ \A a \in H : SupportedFields(a)
    BY <1>4, <1>5, <1>9
  <2>2. \A a, b \in H : ~Ambiguous(a, b)
    BY <1>6, <1>9, <2>1
  <2>3. ASSUME NEW a \in H, a.type = "SELL" PROVE HeldAfter(H, a) >= 0
    <3>1. PICK k \in 1..Len(d) : a = Hash(d[k])
      BY <1>8
    <3>2. d[k].type = "SELL" /\ RunningQuantity(d, k) = HeldAfter(H, a)
      BY <1>6, <1>7, <2>1, <2>3, <3>1
    <3>3. RunningQuantity(d, k) >= 0
      BY <1>3, <1>9, <3>2 DEF Validates
    <3> QED BY <3>2, <3>3
  <2> QED BY <2>1, <2>2, <2>3 DEF SupportedContents
<1>10. ASSUME SupportedContents(H) PROVE StableOrder(t) /\ Validates(d) /\ Strictly(d)
  <2>1. AllSupported(t) /\ AllSupported(d) /\ \A a, b \in H : ~Ambiguous(a, b)
    BY <1>4, <1>10 DEF SupportedContents
  <2>2. StableOrder(t) /\ Strictly(d)
    BY <1>6, <2>1
  <2>3. ASSUME NEW k \in 1..Len(d)
        PROVE  /\ k > 1 => ~Precedes(d[k], d[k - 1]) /\ ~Ambiguous(d[k - 1], d[k])
               /\ SupportedFields(d[k])
               /\ d[k].type = "SELL" => RunningQuantity(d, k) >= 0
    <3>1. ASSUME k > 1 PROVE ~Precedes(d[k], d[k - 1]) /\ ~Ambiguous(d[k - 1], d[k])
      <4> DEFINE j == k - 1
                 a == d[j]
                 b == d[k]
      <4>1. j \in 1..Len(d) /\ j < k
        BY <1>3, <3>1
      <4>2. Precedes(a, b) /\ a \in Activities /\ b \in Activities /\ Hash(a) \in H /\ Hash(b) \in H
        BY <1>3, <2>2, <4>1 DEF Strictly
      <4> HIDE DEF a, b, j
      <4>3. ~Precedes(b, a)
        BY <4>2, PrecedesOrders
      <4>4. ~Ambiguous(Hash(a), Hash(b))
        BY <2>1, <4>2
      <4>5. ~Ambiguous(a, b)
        BY <4>2, <4>4, HashKeeps DEF Ambiguous
      <4> QED BY <4>3, <4>5 DEF a, b, j
    <3>2. SupportedFields(d[k])
      BY <2>1 DEF AllSupported
    <3>3. ASSUME d[k].type = "SELL" PROVE RunningQuantity(d, k) >= 0
      <4>1. Hash(d[k]) \in H /\ Hash(d[k]).type = "SELL"
        BY <1>3, <1>7, <3>3
      <4>2. HeldAfter(H, Hash(d[k])) >= 0
        BY <1>10, <4>1 DEF SupportedContents
      <4>3. RunningQuantity(d, k) = HeldAfter(H, Hash(d[k]))
        BY <1>6, <2>1
      <4> QED BY <4>2, <4>3
    <3> QED BY <3>1, <3>2, <3>3
  <2>4. Validates(d)
    BY <1>3, <2>3 DEF Validates
  <2> QED BY <2>2, <2>4
<1>11. /\ d \in Seq(Activities) /\ Hashes(d) = H
       /\ StableOrder(t) /\ Validates(d) <=> SupportedContents(H)
       /\ SupportedContents(H) => Strictly(d)
  BY <1>2, <1>9, <1>10
<1> QED BY <1>11 DEF d, t, H
-----------------------------------------------------------------------------
(* Holdings.                                                               *)

\* No symbol of a valid history is ever sold beyond what is held of it.
LEMMA SymbolsHeld ==
    ASSUME NEW d \in Seq(Activities), Validates(d)
    PROVE  \A k \in DOMAIN d : RunningQuantity(d, k) >= 0
<1> DEFINE f == [j \in DOMAIN d |-> Signed(d[j])]
           S(k, symbol) == {j \in 1..k : d[j].symbol = symbol}
           Q(k, symbol) == SumFunctionOnSet(f, S(k, symbol))
           Bad == {k \in 0..Len(d) : \E symbol \in Int : ~(Q(k, symbol) >= 0)}
<1>1. /\ Len(d) \in Nat /\ DOMAIN d = 1..Len(d) /\ IsFiniteSet(DOMAIN d)
      /\ \A k \in 1..Len(d) : d[k] \in Activities
  BY PlacesOf
<1>2. \A j \in 1..Len(d) : f[j] = Signed(d[j]) /\ f[j] \in Int
  BY <1>1, HashKeeps
<1>3. \A k \in 1..Len(d) : RunningQuantity(d, k) = Q(k, d[k].symbol) /\ d[k].symbol \in Int
  BY <1>1 DEF RunningQuantity, Activities
<1>4. Bad = {}
  <2> SUFFICES ASSUME Bad # {} PROVE FALSE
    OBVIOUS
  <2>1. Bad \in SUBSET Nat
    BY <1>1
  <2>2. PICK k \in Bad : \A j \in Bad : k <= j
    <3> HIDE DEF Bad
    <3> QED BY <2>1, LeastNumber
  <2>3. PICK symbol \in Int : ~(Q(k, symbol) >= 0)
    OBVIOUS
  <2>4. k \in 0..Len(d) /\ k \in Nat
    BY <1>1
  <2>5. k # 0
    <3>1. S(0, symbol) = {}
      OBVIOUS
    <3>2. Q(0, symbol) = 0
      BY <3>1, SumEmpty
    <3> QED BY <2>3, <3>2
  <2> DEFINE m == k - 1
             A == S(k, symbol)
             B == S(m, symbol)
  <2>6. k \in 1..Len(d) /\ m \in 0..Len(d) /\ m < k
    BY <1>1, <2>4, <2>5
  <2>7. m \notin Bad /\ Q(m, symbol) >= 0
    <3>1. m \notin Bad
      <4> HIDE DEF Bad
      <4>1. m \in Bad => k <= m
        BY <2>2
      <4> QED BY <2>4, <4>1
    <3> HIDE DEF Q
    <3> QED BY <2>6, <3>1
  <2>8. IsFiniteSet(A) /\ \A j \in A : f[j] \in Int
    <3>1. A \subseteq DOMAIN d /\ A \subseteq 1..Len(d)
      BY <1>1, <2>4
    <3> HIDE DEF A, f
    <3> QED BY <1>1, <1>2, <3>1, FS_Subset
  <2>9. CASE d[k].symbol # symbol
    <3>1. A = B
      BY <1>1, <2>4, <2>9
    <3> QED BY <2>3, <2>7, <3>1
  <2>10. CASE d[k].symbol = symbol
    <3>1. k \in A /\ B = A \ {k}
      BY <1>1, <2>6, <2>10
    <3> HIDE DEF f, A, B
    <3>2. SumFunctionOnSet(f, A) = f[k] + SumFunctionOnSet(f, A \ {k})
      BY <2>8, <3>1, SumTake
    <3>3. SumFunctionOnSet(f, B) \in Int
      <4>1. IsFiniteSet(B) /\ \A j \in B : f[j] \in Int
        BY <2>8, <3>1, FS_Subset
      <4> QED BY <4>1, SumType
    <3>4. d[k].type \in {"BUY", "SELL"} /\ (d[k].type = "SELL" => RunningQuantity(d, k) >= 0)
      BY <1>1, <2>6 DEF Validates, SupportedFields
    <3>5. CASE d[k].type = "SELL"
      BY <1>3, <2>3, <2>6, <2>10, <3>4, <3>5
    <3>6. CASE d[k].type = "BUY"
      <4>1. f[k] \in Int /\ f[k] >= 0
        <5>1. d[k].quantity \in Int /\ d[k].quantity > 0
          BY <1>1, <2>6 DEF Activities, Validates, SupportedFields
        <5>2. Signed(d[k]) = d[k].quantity
          BY <3>6 DEF Signed
        <5> QED BY <1>2, <2>6, <5>1, <5>2
      <4>2. SumFunctionOnSet(f, B) >= 0
        BY <2>7 DEF B
      <4>3. SumFunctionOnSet(f, A) >= 0
        BY <3>1, <3>2, <3>3, <4>1, <4>2
      <4> QED BY <2>3, <4>3 DEF A
    <3> QED BY <3>4, <3>5, <3>6
  <2> QED BY <2>9, <2>10
<1>5. \A k \in 1..Len(d) : \A symbol \in Int : Q(k, symbol) >= 0
  <2> SUFFICES ASSUME NEW k \in 1..Len(d), NEW symbol \in Int PROVE Q(k, symbol) >= 0
    OBVIOUS
  <2>1. k \in 0..Len(d) /\ k \notin Bad
    <3> HIDE DEF Bad
    <3> QED BY <1>1, <1>4
  <2> HIDE DEF Q
  <2> QED BY <2>1
<1> HIDE DEF Q
<1> QED BY <1>1, <1>3, <1>5

\* Nor is any asset identity, where the two go together.
LEMMA IdentitiesOf ==
    ASSUME NEW d \in Seq(Activities), Validates(d), SymbolsAreIdentities(d)
    PROVE  \A k \in DOMAIN d : HeldOfIdentity(d, k) >= 0
<1> SUFFICES ASSUME NEW k \in DOMAIN d PROVE HeldOfIdentity(d, k) = RunningQuantity(d, k)
  BY SymbolsHeld
<1>1. DOMAIN d = 1..Len(d) /\ Len(d) \in Nat
  BY PlacesOf
<1>2. {j \in 1..k : d[j].asset = d[k].asset} = {j \in 1..k : d[j].symbol = d[k].symbol}
  BY <1>1 DEF SymbolsAreIdentities
<1> QED BY <1>2 DEF HeldOfIdentity, RunningQuantity

\* What is stored was all retrieved.
LEMMA NothingAdded ==
    ASSUME NEW s \in Seq(Activities)
    PROVE  LET d == Deduplicated(InOrder(s)) IN \A k \in DOMAIN d : \E i \in DOMAIN s : d[k] = s[i]
<1> DEFINE t == InOrder(s)
           d == Deduplicated(t)
<1>1. t \in Seq(Activities) /\ Len(t) = Len(s) /\ \A k \in 1..Len(s) : \E i \in 1..Len(s) : t[k] = s[i]
  BY InOrderIs
<1> HIDE DEF t
<1>2. DOMAIN t = 1..Len(s) /\ DOMAIN s = 1..Len(s)
  BY <1>1
<1>3. d \in Seq(Activities)
  BY <1>1, DeduplicatedIs
<1>4. PICK p \in [1..Len(d) -> DOMAIN t] : \A n \in 1..Len(d) : d[n] = t[p[n]]
  BY <1>1, DeduplicatedIs
<1> HIDE DEF d
<1>5. DOMAIN d = 1..Len(d)
  BY <1>3
<1>6. ASSUME NEW k \in DOMAIN d PROVE \E i \in DOMAIN s : d[k] = s[i]
  <2>1. d[k] = t[p[k]] /\ p[k] \in 1..Len(s)
    BY <1>2, <1>4, <1>5
  <2> QED BY <1>1, <1>2, <2>1
<1> HIDE DEF d
<1>7. \A k \in DOMAIN d : \E i \in DOMAIN s : d[k] = s[i]
  BY <1>6
<1> QED BY <1>7 DEF d, t

\* A mapped activity keeps its symbol and its asset identity.
LEMMA Mapped ==
    ASSUME NEW g \in Seq(Entries)
    PROVE  LET s == MapActivities(g) IN
           /\ s \in Seq(Activities) /\ s \in Seq({MapActivity(e) : e \in Entries}) /\ Len(s) = Len(g)
           /\ \A k \in DOMAIN g : s[k].symbol = g[k].symbol /\ s[k].asset = g[k].asset
<1> DEFINE s == MapActivities(g)
           M == {MapActivity(e) : e \in Entries}
<1>1. \A e \in Entries : MapActivity(e) \in Activities /\ MapActivity(e).symbol = e.symbol
                         /\ MapActivity(e).asset = e.asset
  <2> SUFFICES ASSUME NEW e \in Activities
               PROVE  MapActivity(e) \in Activities /\ MapActivity(e).symbol = e.symbol
                      /\ MapActivity(e).asset = e.asset
    BY SyncAssumption
  <2> DEFINE type == CASE e.type = "buy" -> "BUY" [] e.type = "sell" -> "SELL" [] OTHER -> e.type
  <2>1. MapActivity(e) = [e EXCEPT !.type = type]
    BY DEF MapActivity
  <2>2. type \in EntryTypes
    <3>1. e.type \in EntryTypes
      BY DEF Activities
    <3> QED BY <3>1 DEF EntryTypes
  <2> HIDE DEF type
  <2> QED BY <2>1, <2>2 DEF Activities
<1>2. Len(g) \in Nat /\ DOMAIN g = 1..Len(g) /\ \A k \in 1..Len(g) : g[k] \in Entries
  BY PlacesOf
<1>3. s \in [1..Len(g) -> M] /\ \A k \in 1..Len(g) : s[k] = MapActivity(g[k])
  BY <1>2 DEF MapActivities
<1> HIDE DEF s
<1>4. s \in [1..Len(g) -> Activities]
  BY <1>1, <1>3
<1> HIDE DEF M
<1>5. s \in Seq(Activities) /\ s \in Seq(M) /\ Len(s) = Len(g)
  BY <1>2, <1>3, <1>4, IsSeq
<1>6. \A k \in DOMAIN g : s[k].symbol = g[k].symbol /\ s[k].asset = g[k].asset
  BY <1>1, <1>2, <1>3
<1> QED BY <1>5, <1>6 DEF s, M
-----------------------------------------------------------------------------
(* A normalised history.                                                   *)

\* What normalising a retrieved history yields.
LEMMA NormalisedIs ==
    ASSUME NEW g \in Seq(Entries)
    PROVE  LET s == MapActivities(g)
               c == Normalised(s)
               H == Hashes(s) IN
           /\ c \in Caches
           /\ StableOrder(InOrder(s)) /\ Validates(c.activities) <=> SupportedContents(H)
           /\ SupportedContents(H) => Strictly(c.activities)
           /\ Hashes(c.activities) = H
           /\ c.retrieved = Len(g)
           /\ c.reliability = ReliabilityOf(H)
           /\ c.activities \in Seq(Activities)
           /\ SymbolsAreIdentities(g) => SymbolsAreIdentities(c.activities)
<1> DEFINE s == MapActivities(g)
           c == Normalised(s)
           d == Deduplicated(InOrder(s))
           H == Hashes(s)
           M == {MapActivity(e) : e \in Entries}
<1>1. /\ s \in Seq(Activities) /\ s \in Seq(M) /\ Len(s) = Len(g)
      /\ \A k \in DOMAIN g : s[k].symbol = g[k].symbol /\ s[k].asset = g[k].asset
  BY Mapped
<1>2. c = [activities |-> d, retrieved |-> Len(s), reliability |-> ScopeReliability(d)]
  BY DEF Normalised
<1> HIDE DEF s, c, M
<1>3. /\ d \in Seq(Activities) /\ Hashes(d) = H
      /\ StableOrder(InOrder(s)) /\ Validates(d) <=> SupportedContents(H)
      /\ SupportedContents(H) => Strictly(d)
  BY <1>1, SupportAgrees
<1>4. \A k \in DOMAIN d : \E i \in DOMAIN s : d[k] = s[i]
  BY <1>1, NothingAdded
<1> HIDE DEF d
<1>5. ScopeReliability(d) = ReliabilityOf(H) /\ ScopeReliability(d) \in {"reliable", "partial", "unavailable"}
  BY <1>3, ReliabilityAgrees
<1>6. /\ c.activities = d /\ c.retrieved = Len(g) /\ c.reliability = ScopeReliability(d)
  BY <1>1, <1>2
<1>7. DOMAIN s = DOMAIN g /\ DOMAIN d = 1..Len(d) /\ Len(d) \in Nat /\ Len(g) \in Nat
  BY <1>1, <1>3
<1>8. d \in Seq(M)
  <2>1. \A k \in 1..Len(d) : d[k] \in M
    BY <1>1, <1>4, <1>7
  <2>2. d \in [1..Len(d) -> M]
    BY <1>3, <1>7, <2>1
  <2> QED BY <1>7, <2>2, IsSeq
<1>9. c \in Caches
  BY <1>2, <1>1, <1>5, <1>7, <1>8 DEF Caches, M
<1>10. SymbolsAreIdentities(g) => SymbolsAreIdentities(d)
  <2> SUFFICES ASSUME SymbolsAreIdentities(g), NEW j \in DOMAIN d, NEW k \in DOMAIN d
               PROVE  d[j].symbol = d[k].symbol <=> d[j].asset = d[k].asset
    BY DEF SymbolsAreIdentities
  <2>1. PICK i \in DOMAIN g, l \in DOMAIN g : d[j] = s[i] /\ d[k] = s[l]
    BY <1>4, <1>7
  <2>2. g[i].symbol = g[l].symbol <=> g[i].asset = g[l].asset
    BY DEF SymbolsAreIdentities
  <2> QED BY <1>1, <2>1, <2>2
<1> HIDE DEF H
<1>11. /\ c \in Caches
       /\ StableOrder(InOrder(s)) /\ Validates(c.activities) <=> SupportedContents(H)
       /\ SupportedContents(H) => Strictly(c.activities)
       /\ Hashes(c.activities) = H
       /\ c.retrieved = Len(g)
       /\ c.reliability = ReliabilityOf(H)
       /\ c.activities \in Seq(Activities)
       /\ SymbolsAreIdentities(g) => SymbolsAreIdentities(c.activities)
  BY <1>3, <1>5, <1>6, <1>9, <1>10
<1> QED BY <1>11 DEF s, c, H
-----------------------------------------------------------------------------
(* The invariant.                                                          *)

LEMMA InitIInv == Init => IInv
  BY SyncAssumption DEF Init, IInv, Types, Counted, Traced, StoredWhole, Retrieved,
     NoCount, Nothing, Phases, Unnoticed

\* Steps that neither retrieve nor store anything, and leave the account alone.
Quiet == /\ UNCHANGED <<server, honest, got, expected, listed, edited, cache>>
         /\ stored' = stored /\ stored = Nothing
         /\ phase' \in {"idle", "send", "read", "prepare"}
         /\ phase' = "prepare" => expected = NoCount
         /\ phase' = "idle" => outcome' # "none"
         /\ phase' \in {"send", "read"} => \/ expected = NoCount
                                         \/ phase \in {"send", "read"}

LEMMA QuietStep == ASSUME IInv, Quiet PROVE IInv'
<1>1. Types'
  BY DEF IInv, Quiet, Types, Phases
<1>2. Counted'
  BY DEF IInv, Quiet, Counted, StoredWhole
<1>3. Traced'
  BY DEF IInv, Quiet, Traced, Unnoticed
<1> QED BY <1>1, <1>2, <1>3 DEF IInv

\* While the run goes on nothing is stored yet.
LEMMA NothingYet == ASSUME IInv, phase # "idle" PROVE stored = Nothing
  BY DEF IInv, Counted

LEMMA FailsQuiet == ASSUME IInv, phase # "idle", NEW reason, reason # "none", Fails(reason) PROVE IInv'
<1>1. Quiet
  BY NothingYet DEF Fails, Ends, Quiet, env
<1> QED BY <1>1, QuietStep

\* An edit is seen by its kind, and adding or deleting by the length as well.
LEMMA EditStep ==
    ASSUME IInv, NEW kind \in Edits, NEW s \in Seq(Entries), Edit(kind, s),
           kind = "insert" => Len(s) = Len(server) + 1,
           kind = "delete" => Len(s) = Len(server) - 1
    PROVE  IInv'
<1> USE DEF Edit, run
<1>1. Types'
  BY DEF IInv, Types, Edits
<1>2. Counted'
  BY DEF IInv, Counted, StoredWhole, Retrieved
<1>3. ASSUME honest, ~Unnoticed' PROVE /\ ~Unnoticed
                                       /\ edited = {} \/ edited = {kind}
                                       /\ edited' = {kind}
                                       /\ kind \in {"insert", "delete"}
  BY <1>3 DEF Unnoticed, IInv, Types, Edits
<1>4. Len(s) \in Nat /\ Len(server) \in Nat /\ Len(listed) \in Nat
  BY LenProperties DEF IInv, Types
<1>5. Traced'
  <2>1. CASE ~Unnoticed'
    BY <1>3, <1>4, <2>1 DEF IInv, Traced
  <2>2. CASE Unnoticed'
    BY <2>2 DEF IInv, Traced, Unnoticed
  <2> QED BY <2>1, <2>2
<1> QED BY <1>1, <1>2, <1>5 DEF IInv

\* A page is taken only while nobody has noticed anything, so it is a piece of
\* the account first listed; the last one completes the count.
LEMMA ReadPageStep == ASSUME IInv, ReadPage PROVE IInv'
<1>1. PICK count \in Claims, page \in Pages :
          /\ ~Contradicts(count, page)
          /\ expected' = count
          /\ got' = got \o page
          /\ listed' = IF expected = NoCount THEN server ELSE listed
          /\ phase' = IF Len(got') >= count THEN "build" ELSE "send"
  BY DEF ReadPage
<1>2. PICK k \in 0..Len(server) : page = SubSeq(server, Len(got) + 1, k)
  BY <1>1 DEF Pages
<1>3. /\ server \in Seq(Entries) /\ got \in Seq(Entries) /\ listed \in Seq(Entries)
      /\ Len(server) \in Nat /\ Len(got) \in Nat /\ Len(listed) \in Nat
      /\ count \in Int /\ expected \in Int
  <2>1. server \in Seq(Entries) /\ got \in Seq(Entries) /\ listed \in Seq(Entries) /\ expected \in Int
    BY DEF IInv, Types
  <2>2. Len(server) \in Nat /\ Len(got) \in Nat /\ Len(listed) \in Nat
    BY <2>1, LenProperties
  <2>3. Counts \subseteq Int
    BY SyncAssumption
  <2>4. count \in Int
    <3>1. CASE honest
      BY <2>2, <3>1 DEF Claims
    <3>2. CASE ~honest
      BY <2>3, <3>2 DEF Claims
    <3> QED BY <3>1, <3>2
  <2> QED BY <2>1, <2>2, <2>4
<1>4. /\ phase = "read" /\ stored = Nothing
      /\ UNCHANGED <<server, honest, edited, cache, stored>>
  BY NothingYet DEF ReadPage, env
<1>5. /\ count = IF expected = NoCount THEN count ELSE expected
      /\ count = 0 => page = <<>>
      /\ count # 0 => page # <<>> /\ Len(got) + Len(page) <= count
  <2>1. page \in Seq(Entries)
    <3>1. \A i \in (Len(got) + 1)..k : server[i] \in Entries
      BY <1>3
    <3> QED BY <1>2, <1>3, <3>1, SubSeqProperties
  <2>2. Len(page) \in Nat
    BY <2>1, LenProperties
  <2> QED BY <1>1, <1>3, <2>2 DEF Contradicts, FirstCount
<1>6. CASE page = <<>>
  <2>1. count = 0 /\ got = <<>>
    BY <1>3, <1>4, <1>5, <1>6 DEF IInv, Counted
  <2>2. got' = <<>>
    BY <1>1, <1>6, <2>1
  <2>3. expected' = 0 /\ phase' = "build"
    BY <1>1, <2>1, <2>2
  <2>4. expected = NoCount
    BY <1>3, <1>4, <1>5, <2>1 DEF IInv, Counted
  <2>5. listed' = server /\ edited = {}
    BY <1>1, <2>4 DEF IInv, Counted
  <2>6. Types'
    BY <1>3, <1>4, <2>2, <2>3, <2>5 DEF IInv, Types, Phases
  <2>7. Counted'
    BY <1>4, <2>2, <2>3 DEF Counted, NoCount, Nothing
  <2>8. honest => count = Len(server)
    BY <1>1 DEF Claims
  <2>9. Traced'
    BY <1>3, <1>4, <2>1, <2>2, <2>3, <2>5, <2>8 DEF Traced, Unnoticed
  <2> QED BY <2>6, <2>7, <2>9 DEF IInv
<1>7. CASE page # <<>>
  <2>1. k > Len(got)
    BY <1>2, <1>3, <1>7, EmptyPage
  <2>2. /\ page \in Seq(Entries) /\ Len(page) = k - Len(got)
        /\ got' \in Seq(Entries) /\ Len(got') = k
        /\ \A i \in 1..k : got'[i] = IF i <= Len(got) THEN got[i] ELSE server[i]
    BY <1>1, <1>2, <1>3, <2>1, PageEntries
  <2>3. count # 0 /\ k <= count /\ k > 0
    BY <1>3, <1>5, <1>7, <2>1, <2>2
  <2>4. phase' = "build" => k = count
    BY <1>1, <1>3, <2>2, <2>3
  <2>5. phase' = "send" => k < count
    BY <1>1, <1>3, <2>2, <2>3
  <2>6. phase' \in {"build", "send"} /\ listed' \in Seq(Entries)
    BY <1>1, <1>3
  <2>7. Types'
    BY <1>1, <1>3, <1>4, <2>2, <2>6 DEF IInv, Types, Phases
  <2>8. Counted'
    BY <1>1, <1>3, <1>4, <2>2, <2>3, <2>4, <2>5, <2>6 DEF Counted, NoCount, Nothing
  <2>9. Traced'
    <3>1. SUFFICES ASSUME honest PROVE Traced'
      BY <1>4 DEF Traced
    <3>2. count = Len(server)
      BY <3>1 DEF Claims
    <3>3. CASE expected = NoCount
      <4>1. listed' = server /\ edited = {} /\ got = <<>> /\ Len(got) = 0
        BY <1>1, <3>3 DEF IInv, Counted
      <4>2. \A i \in 1..k : got'[i] = server[i]
        BY <1>3, <2>2, <4>1
      <4> QED BY <1>1, <1>3, <1>4, <2>2, <2>3, <3>2, <4>1, <4>2 DEF Traced, Unnoticed
    <3>4. CASE expected # NoCount
      <4>1. expected = count /\ listed' = listed /\ Len(listed) = Len(server)
        BY <1>1, <1>5, <3>1, <3>2, <3>4 DEF IInv, Traced
      <4>2. edited # {"insert"} /\ edited # {"delete"} /\ (edited = {} => server = listed)
        BY <1>3, <3>1, <3>4, <4>1 DEF IInv, Traced
      <4>3. ~Unnoticed => edited = {}
        BY <4>2 DEF Unnoticed, IInv, Types, Edits
      <4>4. ASSUME ~Unnoticed, NEW i \in 1..k PROVE got'[i] = listed[i]
        <5>1. server = listed
          BY <4>2, <4>3, <4>4
        <5>2. \A j \in 1..Len(got) : got[j] = listed[j]
          BY <3>1, <3>4, <4>4 DEF IInv, Traced
        <5>3. i <= Len(got) => got[i] = listed[i]
          BY <1>3, <5>2
        <5> QED BY <2>2, <5>1, <5>3
      <4> QED BY <1>1, <1>3, <1>4, <2>2, <2>3, <3>2, <4>1, <4>2, <4>4 DEF Traced, Unnoticed
    <3> QED BY <3>3, <3>4
  <2> QED BY <2>7, <2>8, <2>9 DEF IInv
<1> QED BY <1>6, <1>7

LEMMA NextIInv == IInv /\ [Next]_vars => IInv'
<1> SUFFICES ASSUME IInv, [Next]_vars PROVE IInv'
  OBVIOUS
<1> USE DEF env, run, hist
<1>1. CASE Start
  <2>1. stored = Nothing
    BY <1>1, NothingYet DEF Start, IInv, Counted
  <2>2. Quiet
    BY <1>1, <2>1 DEF Start, Quiet, IInv, Counted
  <2> QED BY <2>2, QuietStep
<1>2. CASE Prepare \/ ReadAuth \/ ReadUser \/ Accepted
  <2>1. phase \in {"prepare", "read", "send"} /\ (phase = "prepare" => expected = NoCount)
    BY <1>2 DEF Prepare, ReadAuth, ReadUser, Accepted, IInv, Counted
  <2>2. phase' \in {"send", "read"} /\ UNCHANGED <<env, got, expected, listed, edited, cache, stored>>
    BY <1>2 DEF Prepare, ReadAuth, ReadUser, Accepted, Send
  <2>3. Quiet
    BY <2>1, <2>2, NothingYet DEF Quiet
  <2> QED BY <2>3, QuietStep
<1>3. CASE PrepareFails \/ Refused \/ Unreachable \/ Undecodable \/ RefusePage \/ RefuseHistory
  <2>1. phase # "idle" /\ \E reason : reason # "none" /\ Fails(reason)
    BY <1>3 DEF PrepareFails, StatusReason, Refused, Unreachable, Undecodable, RefusePage, RefuseHistory
  <2> QED BY <2>1, FailsQuiet
<1>4. CASE TimesOut \/ BodyTimesOut
  <2>1. Quiet
    BY <1>4, NothingYet DEF TimesOut, BodyTimesOut, Ends, Quiet
  <2> QED BY <2>1, QuietStep
<1>5. CASE ReadPage
  BY <1>5, ReadPageStep
<1>6. CASE Build
  <2>1. cache'.retrieved = Len(got)
    BY <1>6 DEF Build, Normalised, Records, MapActivities
  <2>2. stored = Nothing
    BY <1>6, NothingYet DEF Build
  <2>3. Types'
    BY <1>6 DEF Build, IInv, Types, Phases
  <2>4. Counted'
    BY <1>6, <2>1, <2>2 DEF Build, IInv, Counted
  <2>5. Traced'
    BY <1>6 DEF Build, IInv, Traced, Unnoticed
  <2> QED BY <2>3, <2>4, <2>5 DEF IInv
<1>7. CASE Persist \/ PersistFails
  <2>1. /\ phase = "persist" /\ stored' \in {stored, cache} /\ phase' = "idle"
        /\ outcome' # "none" /\ UNCHANGED <<env, got, expected, cache, listed, edited>>
    BY <1>7 DEF Persist, PersistFails, Ends
  <2>2. stored = Nothing /\ cache.retrieved = Len(got) /\ Len(got) = expected /\ expected # NoCount
    BY <2>1, NothingYet DEF IInv, Counted
  <2>3. Types'
    BY <2>1 DEF IInv, Types, Phases
  <2>4. Counted'
    BY <2>1, <2>2 DEF Counted, StoredWhole, Retrieved
  <2>5. Traced'
    BY <2>1 DEF IInv, Traced, Unnoticed
  <2> QED BY <2>3, <2>4, <2>5 DEF IInv
<1>8. CASE Insert
  <2>1. PICK e \in NewEntries, k \in 1..(Len(server) + 1) : Edit("insert", InsertAt(server, k, e))
    BY <1>8 DEF Insert
  <2>2. InsertAt(server, k, e) \in Seq(Entries) /\ Len(InsertAt(server, k, e)) = Len(server) + 1
    BY <2>1, SyncAssumption, InsertLength DEF IInv, Types
  <2> QED BY <2>1, <2>2, EditStep DEF Edits
<1>9. CASE Delete
  <2>1. PICK k \in DOMAIN server : Edit("delete", RemoveAt(server, k))
    BY <1>9 DEF Delete
  <2>2. RemoveAt(server, k) \in Seq(Entries) /\ Len(RemoveAt(server, k)) = Len(server) - 1
    BY <2>1, RemoveLength DEF IInv, Types
  <2> QED BY <2>1, <2>2, EditStep DEF Edits
<1>10. CASE Change
  <2>1. PICK k \in DOMAIN server, e \in NewEntries : Edit("change", [server EXCEPT ![k] = e])
    BY <1>10 DEF Change
  <2>2. [server EXCEPT ![k] = e] \in Seq(Entries)
    BY <2>1, SyncAssumption DEF IInv, Types
  <2> QED BY <2>1, <2>2, EditStep DEF Edits
<1>11. CASE Reorder
  <2>1. PICK k \in DOMAIN server \ {1} :
            Edit("reorder", [server EXCEPT ![k] = server[k - 1], ![k - 1] = server[k]])
    BY <1>11 DEF Reorder
  <2>2. server[k] \in Entries /\ server[k - 1] \in Entries
    BY <2>1 DEF IInv, Types
  <2>3. [server EXCEPT ![k] = server[k - 1], ![k - 1] = server[k]] \in Seq(Entries)
    BY <2>2 DEF IInv, Types
  <2> QED BY <2>1, <2>3, EditStep DEF Edits
<1>12. CASE Expire \/ UNCHANGED vars
  <2>1. UNCHANGED <<env, phase, got, expected, cache, stored, outcome, listed, edited>>
    BY <1>12 DEF Expire, vars
  <2>2. Types' /\ Traced'
    BY <2>1 DEF IInv, Types, Traced, Unnoticed
  <2>3. Counted'
    BY <2>1 DEF IInv, Counted, StoredWhole, Retrieved
  <2> QED BY <2>2, <2>3 DEF IInv
<1> QED BY <1>1, <1>2, <1>3, <1>4, <1>5, <1>6, <1>7, <1>8, <1>9, <1>10, <1>11, <1>12 DEF Next
-----------------------------------------------------------------------------
(* What is kept was judged by what was retrieved.                          *)

\* What TypeOK says beyond Types.
RestTyped ==
    /\ edits \in 0..MaxEdits /\ request \in Requests /\ expired \in BOOLEAN
    /\ cache \in Caches /\ stored \in Caches
    /\ outcome \in Reasons \cup {"none", "activity_data_stored"} /\ late \in BOOLEAN

\* What is kept, and what is refused, was judged by what was retrieved.
Judged ==
    /\ phase = "persist" => cache = Normalised(Records) /\ Supported
    /\ stored # Nothing => stored = Normalised(Records) /\ Supported
    /\ Done("activity_data_stored") => stored = Normalised(Records) /\ Supported
    /\ Done("unsupported_activity_history") => ~Supported

JInv == RestTyped /\ Judged

\* The two parts make the type invariant.
LEMMA TypesAreTypeOK == Types /\ RestTyped <=> TypeOK
  BY DEF Types, RestTyped, TypeOK

\* Nothing is judged at first.
LEMMA InitJInv == Init => JInv
<1> SUFFICES ASSUME Init PROVE JInv
  OBVIOUS
<1>1. Nothing \in Caches
  <2>1. <<>> \in Seq({MapActivity(e) : e \in Entries})
    OBVIOUS
  <2>2. NoCount \in Nat \cup {NoCount} /\ "unavailable" \in {"reliable", "partial", "unavailable"}
    OBVIOUS
  <2> QED BY <2>1, <2>2 DEF Nothing, Caches
<1>2. RestTyped
  <2>1. 0 \in 0..MaxEdits
    BY SyncAssumption
  <2>2. edits = 0 /\ request = "auth" /\ expired = FALSE /\ cache = Nothing /\ stored = Nothing
        /\ outcome = "none" /\ late = FALSE
    BY DEF Init
  <2> QED BY <1>1, <2>1, <2>2 DEF RestTyped, Requests
<1>3. Judged
  BY DEF Init, Judged, Done
<1> QED BY <1>2, <1>3 DEF JInv

\* The judgement depends on what was retrieved alone.
LEMMA SameRecords ==
    ASSUME got' = got
    PROVE  Normalised(Records)' = Normalised(Records) /\ (Supported' <=> Supported)
<1>1. Records' = Records
  BY DEF Records
<1> QED BY <1>1 DEF Supported, Normalised

\* Steps that keep nothing and refuse no history.
Unjudging == /\ UNCHANGED <<edits, expired, got, cache, stored>> /\ stored = Nothing
             /\ request' \in Requests /\ late' \in BOOLEAN
             /\ outcome' \in Reasons \cup {"none", "activity_data_stored"}
             /\ phase' # "persist"
             /\ phase' = "idle" => outcome' \notin {"activity_data_stored", "unsupported_activity_history"}

\* They leave all of it as it was.
LEMMA UnjudgingStep == ASSUME JInv, Unjudging PROVE JInv'
<1>1. RestTyped'
  BY DEF JInv, Unjudging, RestTyped
<1>2. Judged'
  BY DEF Unjudging, Judged, Done, Reasons
<1> QED BY <1>1, <1>2 DEF JInv

\* A history is judged once, when all of it is there (Build, RefuseHistory).
LEMMA NextJInv == IInv /\ JInv /\ [Next]_vars => JInv'
<1> SUFFICES ASSUME IInv, JInv, [Next]_vars PROVE JInv'
  OBVIOUS
<1> USE DEF env, run, hist
<1>0. request \in Requests /\ late \in BOOLEAN /\ outcome \in Reasons \cup {"none", "activity_data_stored"}
  BY DEF JInv, RestTyped
<1>1. CASE Start
  <2>1. stored = Nothing
    BY <1>1 DEF Start, IInv, Counted
  <2>2. Unjudging
    BY <1>0, <1>1, <2>1 DEF Start, Unjudging
  <2> QED BY <2>2, UnjudgingStep
<1>2. CASE Prepare \/ ReadAuth \/ ReadUser \/ Accepted
  <2>1. stored = Nothing
    BY <1>2, NothingYet DEF Prepare, ReadAuth, ReadUser, Accepted
  <2>2. Unjudging
    BY <1>0, <1>2, <2>1 DEF Prepare, ReadAuth, ReadUser, Accepted, Send, Unjudging, Requests
  <2> QED BY <2>2, UnjudgingStep
<1>3. CASE PrepareFails \/ Refused \/ Unreachable \/ Undecodable \/ RefusePage
  <2>1. /\ phase # "idle"
        /\ \E reason : /\ reason \in Reasons \ {"unsupported_activity_history"}
                       /\ Fails(reason)
    <3>1. \A status : StatusReason(status) \in Reasons \ {"unsupported_activity_history"}
      BY DEF StatusReason, Reasons
    <3> QED BY <1>3, <3>1 DEF PrepareFails, Refused, Unreachable, Undecodable, RefusePage, Reasons
  <2>2. stored = Nothing
    BY <2>1, NothingYet
  <2>3. "activity_data_stored" \notin Reasons
    BY DEF Reasons
  <2>4. Unjudging
    BY <1>0, <2>1, <2>2, <2>3 DEF Fails, Ends, Unjudging
  <2> QED BY <2>4, UnjudgingStep
<1>4. CASE TimesOut \/ BodyTimesOut
  <2>1. stored = Nothing
    BY <1>4, NothingYet DEF TimesOut, BodyTimesOut
  <2>2. Unjudging
    BY <1>0, <1>4, <2>1 DEF TimesOut, BodyTimesOut, Ends, Unjudging, Reasons
  <2> QED BY <2>2, UnjudgingStep
<1>5. CASE ReadPage
  <2>1. /\ UNCHANGED <<edits, request, expired, cache, stored, outcome, late>> /\ stored = Nothing
        /\ phase' \notin {"persist", "idle"}
    BY <1>5, NothingYet DEF ReadPage
  <2>2. RestTyped'
    BY <2>1 DEF JInv, RestTyped
  <2>3. Judged'
    BY <2>1 DEF Judged, Done
  <2> QED BY <2>2, <2>3 DEF JInv
<1>6. CASE Build
  <2>1. /\ UNCHANGED <<edits, request, expired, got, stored, outcome, late>> /\ stored = Nothing
        /\ phase' = "persist" /\ cache' = Normalised(Records) /\ Supported
    BY <1>6, NothingYet DEF Build
  <2>2. cache' \in Caches
    BY <2>1, NormalisedIs DEF Records, IInv, Types
  <2>3. RestTyped'
    BY <2>1, <2>2 DEF JInv, RestTyped
  <2>4. Judged'
    BY <2>1, SameRecords DEF Judged, Done
  <2> QED BY <2>3, <2>4 DEF JInv
<1>7. CASE RefuseHistory
  <2>1. /\ UNCHANGED <<edits, request, expired, got, cache, stored, late>> /\ stored = Nothing
        /\ phase' = "idle"
        /\ \/ outcome' = "incompatible_server_contract"
           \/ outcome' = "unsupported_activity_history" /\ ~Supported
    BY <1>7, NothingYet DEF RefuseHistory, Fails, Ends
  <2>2. RestTyped'
    BY <2>1 DEF JInv, RestTyped, Reasons
  <2>3. Judged'
    BY <2>1, SameRecords DEF Judged, Done
  <2> QED BY <2>2, <2>3 DEF JInv
<1>8. CASE Persist \/ PersistFails
  <2>1. /\ UNCHANGED <<edits, request, expired, got, cache, late>>
        /\ phase = "persist" /\ stored = Nothing /\ phase' = "idle"
        /\ \/ stored' = cache /\ outcome' = "activity_data_stored"
           \/ /\ stored' \in {stored, cache}
              /\ outcome' \in {"unsupported_stored_data_version", "incompatible_new_sync_data"}
    BY <1>8, NothingYet DEF Persist, PersistFails, Ends
  <2>2. RestTyped'
    BY <2>1 DEF JInv, RestTyped, Reasons
  <2>3. cache = Normalised(Records) /\ Supported
    BY <2>1 DEF JInv, Judged
  <2>4. Judged'
    BY <2>1, <2>3, SameRecords DEF Judged, Done
  <2> QED BY <2>2, <2>4 DEF JInv
<1>9. CASE Insert \/ Delete \/ Change \/ Reorder \/ Expire \/ UNCHANGED vars
  <2>1. /\ UNCHANGED <<phase, request, got, cache, stored, outcome, late>>
        /\ expired' \in BOOLEAN /\ edits' \in 0..MaxEdits
    <3>1. CASE \E kind, s : Edit(kind, s)
      BY <3>1, SyncAssumption DEF Edit, JInv, RestTyped
    <3>2. CASE Expire \/ UNCHANGED vars
      BY <3>2 DEF Expire, vars, JInv, RestTyped
    <3> QED BY <1>9, <3>1, <3>2 DEF Insert, Delete, Change, Reorder
  <2>2. RestTyped'
    BY <2>1 DEF JInv, RestTyped
  <2>3. Judged'
    BY <2>1, SameRecords DEF JInv, Judged, Done
  <2> QED BY <2>2, <2>3 DEF JInv
<1> QED BY <1>1, <1>2, <1>3, <1>4, <1>5, <1>6, <1>7, <1>8, <1>9 DEF Next
-----------------------------------------------------------------------------
(* The theorems.                                                           *)

\* The invariant holds in every state.
THEOREM SyncInvariant == Spec => []IInv
  BY InitIInv, NextIInv, PTL DEF Spec

\* So does the judgement.
THEOREM SyncJudged == Spec => [](IInv /\ JInv)
  BY InitIInv, NextIInv, InitJInv, NextJInv, PTL DEF Spec

\* Nothing is stored but a history retrieved to the count reported first,
\* whatever the server sends.
THEOREM SyncStoredWhole == Spec => []StoredWhole
<1>1. IInv => StoredWhole
  BY DEF IInv, Counted, StoredWhole
<1> QED BY <1>1, SyncInvariant, PTL

\* A history retrieved from a server that counts what it has is the one first
\* listed, unless edits cancelled out or left the number of activities alone.
THEOREM SyncRetrievedAsListed == Spec => []RetrievedAsListed
<1>1. IInv => RetrievedAsListed
  <2> SUFFICES ASSUME IInv, honest, Retrieved, ~Unnoticed PROVE got = listed
    BY DEF RetrievedAsListed, Unnoticed
  <2>1. Len(got) = Len(listed) /\ \A i \in 1..Len(got) : got[i] = listed[i]
    BY DEF IInv, Traced, Retrieved
  <2> QED BY <2>1, SeqEqual DEF IInv, Types
<1> QED BY <1>1, SyncInvariant, PTL

\* Every variable keeps its type.
THEOREM SyncTypeCorrect == Spec => []TypeOK
<1>1. IInv /\ JInv => TypeOK
  BY TypesAreTypeOK DEF IInv, JInv
<1> QED BY <1>1, SyncJudged, PTL

\* What is stored depends on which activities were retrieved, not on their order,
\* their copies or their pages, and is stored exactly when they are supported.
THEOREM SyncStoredByContents == Spec => []StoredByContents
<1>1. IInv /\ JInv => StoredByContents
  <2> SUFFICES ASSUME IInv, JInv PROVE StoredByContents
    OBVIOUS
  <2> DEFINE c == Normalised(Records)
             H == Hashes(Records)
  <2>1. got \in Seq(Entries)
    BY DEF IInv, Types
  <2>2. /\ c.activities \in Seq(Activities) /\ Hashes(c.activities) = H
        /\ Supported <=> SupportedContents(H)
        /\ SupportedContents(H) => Strictly(c.activities)
        /\ c.retrieved = Len(got) /\ c.reliability = ReliabilityOf(H)
    BY <2>1, NormalisedIs DEF Records, Supported
  <2> HIDE DEF c, H
  <2>3. /\ Done("activity_data_stored") => stored = c /\ Supported
        /\ Done("unsupported_activity_history") => ~Supported
    BY DEF JInv, Judged, c
  <2>4. ASSUME Supported, NEW k \in 2..Len(c.activities)
        PROVE  Precedes(c.activities[k - 1], c.activities[k])
    <3> DEFINE s == c.activities
    <3>1. Strictly(s) /\ Len(s) \in Nat
      BY <2>2, <2>4
    <3> HIDE DEF s
    <3>2. k - 1 \in 1..Len(s) /\ k \in 1..Len(s) /\ k - 1 < k
      BY <3>1 DEF s
    <3>3. Precedes(s[k - 1], s[k])
      BY <3>1, <3>2 DEF Strictly
    <3> QED BY <3>3 DEF s
  <2> QED BY <2>2, <2>3, <2>4 DEF StoredByContents, H
<1> QED BY <1>1, SyncJudged, PTL

\* Where symbols and identities go together, no identity of a stored history is
\* ever sold beyond what is held of it.
THEOREM SyncIdentitiesHeld == Spec => []NoIdentityOversold
<1>1. IInv /\ JInv => NoIdentityOversold
  <2> SUFFICES ASSUME IInv, JInv, SymbolsAreIdentities(got)
               PROVE  \A k \in DOMAIN stored.activities : HeldOfIdentity(stored.activities, k) >= 0
    BY DEF NoIdentityOversold
  <2>1. CASE stored = Nothing
    BY <2>1 DEF Nothing
  <2>2. CASE stored # Nothing
    <3> DEFINE s == Normalised(Records).activities
    <3>1. stored = Normalised(Records) /\ Validates(s)
      BY <2>2 DEF JInv, Judged, Supported
    <3>2. s \in Seq(Activities) /\ SymbolsAreIdentities(s)
      BY NormalisedIs DEF IInv, Types, Records
    <3> HIDE DEF s
    <3>3. \A k \in DOMAIN s : HeldOfIdentity(s, k) >= 0
      BY <3>1, <3>2, IdentitiesOf
    <3> QED BY <3>1, <3>3 DEF s
  <2> QED BY <2>1, <2>2
<1> QED BY <1>1, SyncJudged, PTL
=============================================================================
