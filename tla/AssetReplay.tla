---------------------------- MODULE AssetReplay ----------------------------
(***************************************************************************)
(* The replay of the synced history of one asset into the yearly report,   *)
(* under one cost basis method: lots taken first-in, last-in or dearest    *)
(* first, a moving average pool, or the scope-local hybrid, which keeps    *)
(* exact lots in each scope until a disposal could come from two of them   *)
(* and an average pool from then on until the scope is empty.              *)
(*                                                                         *)
(* Amounts are in the report's currency, as integers; a division is        *)
(* rounded half up to a multiple of Grain (16 decimal places in the code). *)
(* A history is what the sync accepts: in order, and never more disposed   *)
(* of than held.                                                           *)
(***************************************************************************)
EXTENDS Integers, Sequences, FiniteSets, Functions, SequencesExt

CONSTANTS Selectable,    \* the methods a report may be made with
          LastYear,      \* bound: years are 1..LastYear
          MaxActivities, \* bound: length of the history, by method
          Quantities,    \* bound: quantities of one activity
          Costs,         \* bound: gross value plus fee of an acquisition
          Proceeds,      \* bound: gross value minus fee of a priced liquidation
          Scopes,        \* reliable accounts and wallets
          Asset,         \* the asset as a whole
          Grain          \* what divisions are rounded to

Methods == {"fifo", "lifo", "hifo", "average", "hybrid"}

ASSUME ReplayAssumption == /\ Selectable \subseteq Methods
                           /\ LastYear \in Nat /\ MaxActivities \in [Methods -> Nat]
                           /\ Quantities \subseteq Nat \ {0}
                           /\ Costs \subseteq Nat /\ Proceeds \subseteq Int
                           /\ Asset \notin Scopes /\ IsFiniteSet(Scopes)
                           /\ Grain \in Nat \ {0}

VARIABLES history,  \* the synced activities of the asset, in order
          method,   \* the selected method
          reports,  \* reports[y]: the report of year y, if it was made
          year,     \* the year of the report being made, or 0
          pos,      \* how many activities were replayed
          books,    \* books[k]: what is held in scope k, or of the asset
          work,     \* the disposal that goes through lots
          acc       \* assetReplayState
vars == <<history, method, reports, year, pos, books, work, acc>>

Years == 1..LastYear
Keys == Scopes \cup {Asset}

\* The scope Asset of an activity: no reliable scope.
Activities == [year : Years, kind : {"buy", "sell", "reduce"}, qty : Quantities,
               amount : Costs \cup Proceeds \cup {0}, scope : Keys]

Lots == [qty : Nat, basis : Int]

\* Exact lots, or, once pooled, an average pool with the lots it came from.
Books == [lots : Seq(Lots), pooled : BOOLEAN, qty : Nat, basis : Int]
NewBook == [lots |-> <<>>, pooled |-> method = "average", qty |-> 0, basis |-> 0]

NoWork == [on |-> FALSE, queue |-> <<>>, left |-> 0, allocated |-> 0]

AuditEntries == [allocated : Int, zero : BOOLEAN]
NewReplay == [captured |-> FALSE, openQty |-> 0, openBasis |-> 0, net |-> 0, count |-> 0,
              inYear |-> FALSE, audit |-> <<>>]

NoReport == [status |-> "none", replay |-> NewReplay, closeQty |-> 0, closeBasis |-> 0,
             main |-> FALSE]

-----------------------------------------------------------------------------
\* scaledRoundedQuotient for a dividend that is not negative.
RoundHalfUp(n, d) == Grain * ((2 * n + d * Grain) \div (2 * d * Grain))

\* A slip: always rounded up.
AllocateUp(basis, qty, portion) ==
  IF portion = qty THEN basis ELSE Grain * ((basis * portion) \div (qty * Grain) + 1)

\* AllocateProportional of a basis that is not negative: multiplied, then divided.
Allocate(basis, qty, portion) ==
  IF portion = qty THEN basis ELSE RoundHalfUp(basis * portion, qty)

QtyOf(lots) == [i \in DOMAIN lots |-> lots[i].qty]
BasisOf(lots) == [i \in DOMAIN lots |-> lots[i].basis]
OpenLots(b) == {i \in DOMAIN b.lots : b.lots[i].qty > 0}

BookQty(b) == IF b.pooled THEN b.qty ELSE SumFunction(QtyOf(b.lots))
\* A slip: the pool is not looked at.
BookBasisOfLots(b) == SumFunctionOnSet(BasisOf(b.lots), OpenLots(b))

BookBasis(b) ==
  IF b.pooled THEN b.basis ELSE SumFunctionOnSet(BasisOf(b.lots), OpenLots(b))

\* OpenQuantity and OpenBasis of the asset.
OpenQty(bs) == SumFunction([k \in Keys |-> BookQty(bs[k])])
OpenBasis(bs) == SumFunction([k \in Keys |-> BookBasis(bs[k])])

\* A slip: the lot with the highest basis, whatever its quantity.
BeforeByBasis(lots, i, j) ==
  CASE method = "lifo" -> i > j
    [] method = "hifo" -> lots[i].basis > lots[j].basis \/ (lots[i].basis = lots[j].basis /\ i < j)
    [] OTHER -> i < j

\* compareUnitCostsCrossMultiply, without division.
UnitCostAbove(l, m) == l.basis * m.qty > m.basis * l.qty

\* lotSortsBefore.  Lots are appended in the order of the history, which is the order of
\* acquisition date and deterministic order.
Before(lots, i, j) ==
  CASE method = "lifo" -> i > j
    [] method = "hifo" -> \/ UnitCostAbove(lots[i], lots[j])
                          \/ ~UnitCostAbove(lots[j], lots[i]) /\ i < j
    [] OTHER -> i < j

DisposalOrder(b) ==
  CHOOSE q \in [1..Cardinality(OpenLots(b)) -> OpenLots(b)] :
    \A m, n \in DOMAIN q : m < n => Before(b.lots, q[m], q[n])

AddLot(b, qty, basis) == [b EXCEPT !.lots = Append(@, [qty |-> qty, basis |-> basis])]
AddToPool(b, qty, basis) == [b EXCEPT !.qty = @ + qty, !.basis = @ + basis]

\* AddAcquisition of the three kinds of state.  Lots under a hybrid pool carry no basis.
BuyInto(b, a) ==
  IF ~b.pooled THEN AddLot(b, a.qty, a.amount)
  ELSE LET pool == AddToPool(b, a.qty, a.amount)
       IN IF method = "average" THEN pool ELSE AddLot(pool, a.qty, 0)

\* activateFallback.
Pooled(b) ==
  IF b.pooled THEN b
  ELSE [lots |-> [i \in DOMAIN b.lots |-> [b.lots[i] EXCEPT !.basis = 0]], pooled |-> TRUE,
        qty |-> BookQty(b), basis |-> BookBasis(b)]

\* consumeFallbackProvenance: q taken from the oldest lots.
OldestConsumed(lots, q) ==
  [i \in DOMAIN lots |->
     LET ahead == SumFunctionOnSet(QtyOf(lots), 1..(i - 1))
         taken == Max({0, Min({lots[i].qty, q - ahead})})
     IN [lots[i] EXCEPT !.qty = @ - taken]]

\* A slip: an emptied scope stays in fallback.
EmptiedKept(b) ==
  IF method \in {"hybrid", "average"} THEN [NewBook EXCEPT !.pooled = b.pooled] ELSE b

\* A scope that reached zero is deleted, an empty average pool reset; zero lots stay.
Emptied(b) == IF method \in {"hybrid", "average"} THEN NewBook ELSE b

-----------------------------------------------------------------------------
\* selectAssetInputGroupsThroughYear.  The history is in order: what it selects comes first.
Through(y) == SubSeq(history, 1, Cardinality({i \in DOMAIN history : history[i].year <= y}))
Inputs == Through(year)

\* shouldBroadenAssetScope.
Broadened(h) == \E i \in DOMAIN h : h[i].scope = Asset

\* resolveScopedAssetInputs.
Key(h, a) == IF method = "hybrid" /\ ~Broadened(h) THEN a.scope ELSE Asset

Replaying == year # 0
AtActivity == Replaying /\ ~work.on /\ pos < Len(Inputs)
Input == Inputs[pos + 1]
Book == books[Key(Inputs, Input)]
Put(b) == [books EXCEPT ![Key(Inputs, Input)] = b]

Signed(a) == IF a.kind = "buy" THEN a.qty ELSE -a.qty
Held(h, keys) ==
  SumFunctionOnSet([i \in DOMAIN h |-> Signed(h[i])], {i \in DOMAIN h : h[i].scope \in keys})

Init == /\ history = <<>>
        /\ method \in Selectable
        /\ reports = [y \in Years |-> NoReport]
        /\ year = 0 /\ pos = 0
        /\ books = [k \in Keys |-> NewBook]
        /\ work = NoWork
        /\ acc = NewReplay

\* External: the next activity a sync stored; validation looks at the asset, not at scopes.
Record(a) ==
  /\ ~Replaying /\ \A y \in Years : reports[y] = NoReport
  /\ Len(history) < MaxActivities[method]
  /\ \A i \in DOMAIN history : history[i].year <= a.year
  /\ CASE a.kind = "buy" -> a.amount \in Costs
       [] a.kind = "sell" -> a.amount \in Proceeds
       [] OTHER -> a.amount = 0
  /\ Held(Append(history, a), Keys) >= 0
  /\ method # "hybrid" => a.scope = Asset   \* no other method looks at scopes
  /\ history' = Append(history, a)
  /\ UNCHANGED <<method, reports, year, pos, books, work, acc>>

\* calculateAssetGroup for a year whose report was not made yet.
Begin(y) ==
  /\ ~Replaying /\ reports[y] = NoReport
  /\ Through(y) # <<>>
  /\ year' = y /\ pos' = 0
  /\ books' = [k \in Keys |-> NewBook]
  /\ acc' = NewReplay
  /\ UNCHANGED <<history, method, reports, work>>

-----------------------------------------------------------------------------
\* A slip: the opening position is taken at the first disposal of the year.
CapturedAtDisposal ==
  IF acc.captured \/ Input.year # year \/ Input.kind = "buy" THEN acc
  ELSE [acc EXCEPT !.captured = TRUE, !.openQty = OpenQty(books), !.openBasis = OpenBasis(books)]

\* captureOpeningPositionIfNeeded.
Captured ==
  IF acc.captured \/ Input.year # year THEN acc
  ELSE [acc EXCEPT !.captured = TRUE, !.openQty = OpenQty(books), !.openBasis = OpenBasis(books)]

\* The report fails as a whole.
Abort == /\ reports' = [reports EXCEPT ![year] = [NoReport EXCEPT !.status = "failed"]]
         /\ year' = 0 /\ pos' = 0
         /\ books' = [k \in Keys |-> NewBook]
         /\ work' = NoWork /\ acc' = NewReplay
         /\ UNCHANGED <<history, method>>

\* A slip: only the whole asset counts, whatever the method.
LiquidatedAsset(bs, zero) == zero /\ OpenQty(bs) = 0

\* reachedZero: of the scope in the hybrid method, of the asset in the others.
Liquidated(bs, zero) == zero

\* What a priced liquidation of the year adds to the yearly net.
YearlyNetDelta(allocated) ==
  IF Input.kind = "sell" /\ Input.year = year THEN Input.amount - allocated ELSE 0

AuditEntry(allocated, zero) == [allocated |-> allocated, zero |-> zero]

\* applyReplayResult, and the audit entry.
Applied(before, bs, allocated, zero) ==
  [before EXCEPT !.net = @ + YearlyNetDelta(allocated),
                 !.count = IF Liquidated(bs, zero) THEN @ + 1 ELSE @,
                 !.inYear = @ \/ (Liquidated(bs, zero) /\ Input.year = year),
                 !.audit = Append(@, AuditEntry(allocated, zero))]

\* The audit entry and the row of an activity are refused with a negative basis or quantity.
ValidReplayState(bs) == OpenQty(bs) >= 0 /\ OpenBasis(bs) >= 0

\* The end of replayAssetInput.
Complete(before, bs, allocated, zero) ==
  IF ~ValidReplayState(bs) THEN Abort
  ELSE /\ books' = bs
       /\ acc' = Applied(before, bs, allocated, zero)
       /\ pos' = pos + 1
       /\ work' = NoWork
       /\ UNCHANGED <<history, method, reports, year>>

\* applyAcquisition.
Buy == /\ AtActivity /\ Input.kind = "buy"
       /\ Complete(Captured, Put(BuyInto(Book, Input)), 0, FALSE)

\* applyPricedLiquidation and applyZeroPricedHoldingReduction go through exact lots ...
Exact(b) == ~b.pooled /\ (method = "hybrid" => Cardinality(OpenLots(b)) = 1)

DisposeLots ==
  /\ AtActivity /\ Input.kind # "buy" /\ Exact(Book)
  /\ work' = [on |-> TRUE, queue |-> DisposalOrder(Book), left |-> Input.qty, allocated |-> 0]
  /\ acc' = Captured
  /\ UNCHANGED <<history, method, reports, year, pos, books>>

\* A slip: the whole of what is left is booked against the lot.
TakenUnbounded(lot) == work.left

Taken(lot) == Min({lot.qty, work.left})

\* disposeFromLot.
TakeLot ==
  /\ work.on /\ work.left > 0 /\ work.queue # <<>>
  /\ LET i == Head(work.queue)
         lot == Book.lots[i]
         portion == Allocate(lot.basis, lot.qty, Taken(lot))
     IN IF lot.basis < 0 THEN Abort
        ELSE /\ books' = Put([Book EXCEPT !.lots[i].qty = @ - Taken(lot),
                                          !.lots[i].basis = @ - portion])
             /\ work' = [work EXCEPT !.queue = Tail(@), !.left = @ - Taken(lot),
                                     !.allocated = @ + portion]
             /\ UNCHANGED <<history, method, reports, year, pos, acc>>

EndLots ==
  /\ work.on /\ (work.left = 0 \/ work.queue = <<>>)
  /\ IF work.left > 0 THEN Abort   \* exceeds open lot quantity
     ELSE LET zero == BookQty(Book) = 0
          IN Complete(acc, Put(IF zero THEN Emptied(Book) ELSE Book), work.allocated, zero)

\* ... or through a pool, which a hybrid scope may only now become.
DisposePool ==
  /\ AtActivity /\ Input.kind # "buy" /\ ~Exact(Book)
  /\ LET b == Pooled(Book)
         zero == b.qty = Input.qty
         portion == Allocate(b.basis, b.qty, Input.qty)
     IN IF b.qty < Input.qty \/ b.basis < 0 \/ \E i \in OpenLots(Book) : Book.lots[i].basis < 0
        THEN Abort
        ELSE Complete(Captured,
                      Put(IF zero THEN Emptied(b)
                          ELSE [b EXCEPT !.qty = @ - Input.qty, !.basis = @ - portion,
                                         !.lots = OldestConsumed(@, Input.qty)]),
                      portion, zero)

IncludeInMain(closing) == closing > 0 \/ acc.inYear

\* finalizeReplayState and the choice of the report's sections.
Finish ==
  /\ Replaying /\ ~work.on /\ pos = Len(Inputs)
  /\ LET qty == OpenQty(books)
         basis == OpenBasis(books)
     IN reports' = [reports EXCEPT ![year] =
          [status |-> "made", closeQty |-> qty, closeBasis |-> basis,
           main |-> IncludeInMain(qty),
           replay |-> IF acc.captured THEN acc
                      ELSE [acc EXCEPT !.openQty = qty, !.openBasis = basis]]]
  /\ year' = 0 /\ pos' = 0
  /\ books' = [k \in Keys |-> NewBook]
  /\ acc' = NewReplay
  /\ UNCHANGED <<history, method, work>>

Replay == Buy \/ DisposeLots \/ TakeLot \/ EndLots \/ DisposePool \/ Finish

Next == \/ \E a \in Activities : Record(a)
        \/ \E y \in Years : Begin(y)
        \/ Replay

Spec == Init /\ [][Next]_vars
-----------------------------------------------------------------------------
Replays == [captured : BOOLEAN, openQty : Int, openBasis : Int, net : Int, count : Nat,
            inYear : BOOLEAN, audit : Seq(AuditEntries)]
Works == [on : BOOLEAN, queue : Seq(Nat), left : Nat, allocated : Int]

TypeOK == /\ history \in Seq(Activities) /\ Len(history) <= MaxActivities[method]
          /\ method \in Selectable
          /\ reports \in [Years -> [status : {"none", "made", "failed"}, replay : Replays,
                                   closeQty : Int, closeBasis : Int, main : BOOLEAN]]
          /\ year \in {0} \cup Years /\ pos \in 0..Len(Inputs)
          /\ books \in [Keys -> Books] /\ work \in Works
          /\ acc \in Replays /\ Len(acc.audit) = pos

\* The first i activities.
Replayed(i) == SubSeq(Inputs, 1, i)
Total(h, test(_), value(_)) ==
  SumFunctionOnSet([i \in DOMAIN h |-> value(i)], {i \in DOMAIN h : test(i)})

IsBuy(a) == a.kind = "buy"

\* What the activities of S bought and disposed of, and what the first n of h leave in scope k.
Quantity(S) == SumFunctionOnSet([i \in S |-> Inputs[i].qty], S)
Bought(S) == Quantity({i \in S : IsBuy(Inputs[i])})
Disposed(S) == Quantity({i \in S : ~IsBuy(Inputs[i])})
HeldIn(h, n, k) ==
  SumFunctionOnSet([i \in DOMAIN h |-> Signed(h[i])], {i \in 1..n : Key(h, h[i]) = k})

Allocated(audit) == SumFunction([i \in DOMAIN audit |-> audit[i].allocated])

(* FR-019b: rounding moves basis between what was disposed of and what is held, it never makes
   or loses any; neither does falling back to a pool or emptying a scope. *)
BasisConserved == Replaying =>
  Total(Replayed(pos), LAMBDA i : IsBuy(Inputs[i]), LAMBDA i : Inputs[i].amount)
    = OpenBasis(books) + Allocated(acc.audit) + work.allocated

LotNo(i) == Cardinality({j \in 1..i : IsBuy(Inputs[j])})
HeldAfter(t) == Held(Replayed(t), Keys)
Clamp(x, most) == Max({0, Min({x, most})})

(* FR-022 and FR-023, over all disposals at once: the k-th unit disposed of first-in is the
   k-th unit bought; what remains of a lot last-in is what holdings never fell below. *)
LotsByHistory == Replaying /\ ~work.on /\ method \in {"fifo", "lifo"} =>
  \A i \in 1..pos : IsBuy(Inputs[i]) =>
    books[Asset].lots[LotNo(i)].qty =
      IF method = "fifo"
      THEN Clamp(Bought(1..i) - Disposed(1..pos), Inputs[i].qty)
      ELSE Clamp(Min({HeldAfter(t) : t \in i..pos}) - HeldAfter(i - 1), Inputs[i].qty)

(* FR-024: HIFO takes from an open lot of the highest remaining unit cost, and the oldest of
   those, although rounding changes the unit cost of a lot with each match. *)
DearestTaken == [][method = "hifo" /\ TakeLot /\ work'.on =>
  LET i == Head(work.queue)
  IN \A j \in OpenLots(Book) \ {i} :
       \/ UnitCostAbove(Book.lots[i], Book.lots[j])
       \/ ~UnitCostAbove(Book.lots[j], Book.lots[i]) /\ i < j]_vars

(* consumeFallbackProvenance cannot run out: the queue of a pooled scope holds what its pool
   holds. *)
ProvenanceCovers == method = "hybrid" =>
  \A k \in Keys : books[k].pooled => SumFunction(QtyOf(books[k].lots)) = books[k].qty

\* The activities of scope k since it was last empty, and how many acquisitions are open
\* after them when the oldest go first.
SinceEmpty(k) == LET empty == Max({n \in 0..pos : HeldIn(Inputs, n, k) = 0})
                 IN {i \in (empty + 1)..pos : Key(Inputs, Inputs[i]) = k}
Fragments(S) ==
  Cardinality({i \in S : IsBuy(Inputs[i]) /\ Bought({j \in S : j <= i}) > Disposed(S)})

(* FR-027a: a scope is in fallback exactly when a disposal since it was last empty could have
   come from two acquisitions; it stays so until it is empty and no other scope matters. *)
FallbackByHistory == Replaying /\ ~work.on /\ method = "hybrid" =>
  \A k \in Keys : books[k].pooled <=> \E p \in SinceEmpty(k) : /\ ~IsBuy(Inputs[p])
                                                              /\ Fragments({i \in SinceEmpty(k) : i < p}) > 1

\* The lots and pools of a replay follow from the activities replayed, whatever steps
\* led to them.
BooksByHistory == FallbackByHistory /\ LotsByHistory /\ ProvenanceCovers

Made(y) == reports[y].status = "made"

(* FR-018: what a report opens with, what was acquired, disposed of and gained in its year
   and what it closes with add up, whichever activity the year begins with, if any. *)
ReportAddsUp == \A y \in Years : Made(y) =>
  LET h == Through(y)
      r == reports[y].replay
      now == {i \in DOMAIN h : h[i].year = y}
      cost(i) == IF IsBuy(h[i]) THEN h[i].amount ELSE 0
      gain(i) == IF h[i].kind = "sell" THEN h[i].amount - r.audit[i].allocated ELSE 0
      sum(f(_)) == Total(h, LAMBDA i : i \in now, f)
  IN /\ r.openQty = Held(Through(y - 1), Keys) /\ reports[y].closeQty = Held(h, Keys)
     /\ r.openBasis + sum(cost) - sum(LAMBDA i : r.audit[i].allocated) = reports[y].closeBasis
     /\ r.net = sum(gain)

(* FR-012, FR-016 and FR-017a: which sections show the asset, and the count of full
   liquidations, follow from the holdings of the asset or, in the hybrid method, its scopes.
   A gain or loss of the year is never left out of the total: the sections that make up the
   total include the asset. *)
SectionsByHistory == \A y \in Years : Made(y) =>
  LET h == Through(y)
      zero == {i \in DOMAIN h : ~IsBuy(h[i]) /\ HeldIn(h, i, Key(h, h[i])) = 0}
  IN /\ reports[y].replay.count = Cardinality(zero)
     /\ reports[y].main <=> Held(h, Keys) > 0 \/ \E i \in zero : h[i].year = y
     /\ reports[y].replay.net # 0 => reports[y].main

(* A report opens with what the one of the year before closed with, unless a later activity
   without reliable scope makes the later report treat the asset as a whole. *)
YearsJoin == \A y \in Years \ {LastYear} :
  /\ Made(y) /\ Made(y + 1)
  /\ method = "hybrid" => (Broadened(Through(y)) <=> Broadened(Through(y + 1)))
  => /\ reports[y].closeQty = reports[y + 1].replay.openQty
     /\ reports[y].closeBasis = reports[y + 1].replay.openBasis

\* The reports of all years tell one story.
ReportsAgree == ReportAddsUp /\ YearsJoin

\* FR-026a: an account or wallet of its own only if every activity of the report has one.
ScopeOversold(h) ==
  /\ method = "hybrid" /\ \A i \in DOMAIN h : h[i].scope \in Scopes
  /\ \E k \in Scopes, t \in DOMAIN h : Held(SubSeq(h, 1, t), {k}) < 0

(* The edge cases of the gains report: repeating divisions never make the report of a valid
   history fail; only a disposal in a scope that does not hold enough does. *)
FailsOnlyOversold == \A y \in Years : reports[y].status = "failed" => ScopeOversold(Through(y))

(* FR-019b: the unit cost is rounded before it is multiplied. *)
UnitCostFirst == Replaying /\ pos = 2 /\ Disposed(1..2) < Bought(1..1) /\ ~IsBuy(Inputs[2]) =>
  acc.audit[2].allocated = RoundHalfUp(Inputs[1].amount, Inputs[1].qty) * Inputs[2].qty
=============================================================================
