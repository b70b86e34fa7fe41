-------------------------- MODULE ActivityAmounts --------------------------
(***************************************************************************)
(* The amounts of a stored activity, as a sync accepts them and as a       *)
(* report reads them. An activity keeps up to three monetary contexts, the *)
(* currency of the order, of the asset profile and of the account, and any *)
(* amount, or the currency itself, may be missing from each.               *)
(*                                                                         *)
(* An activity is a record                                                 *)
(*   id, asset, day, type, comment (whether there is one), quantity        *)
(*   tiers   <<order, asset profile, base>>, each a record of a currency   *)
(*           and of unit, gross and fee: <<value>>, or None when missing   *)
(* A profile has no gross value and the base no unit price.                *)
(***************************************************************************)
EXTENDS Integers, Sequences, FiniteSets, FiniteSetsExt, SequencesExt

None == <<>>
NoCurrency == ""
Amounts == [{} -> Int] \cup [{1} -> Int]

WellFormed(r) ==
    /\ r.quantity \in Int
    /\ \A i \in 1..3 : {r.tiers[i].unit, r.tiers[i].gross, r.tiers[i].fee} \subseteq Amounts
    /\ r.tiers[2].gross = None /\ r.tiers[3].unit = None

First(s) == SubSeq(s, 1, Min({1, Len(s)}))

Times(quantity, value) == [k \in DOMAIN value |-> quantity * value[k]]

\* A quotient in the last place kept, half away from zero.
DivideRoundHalfUp(a, b) == IF a >= 0 THEN (2 * a + b) \div (2 * b) ELSE -((b - 2 * a) \div (2 * b))
Per(value, quantity) == [k \in DOMAIN value |-> DivideRoundHalfUp(value[k], quantity)]

\* A value counts only where its tier names a currency.
Informed(tier, value) == IF tier.currency = NoCurrency THEN None ELSE value
-----------------------------------------------------------------------------
(* What a sync validates: the first informed value of any tier. The checks *)
(* of a page ask only for some price or value, in whatever tier; where     *)
(* there is no price it must be possible to divide by the quantity.        *)

HasUnitPrice(r) == \E i \in {1, 2} : r.tiers[i].unit # None
HasGrossValue(r) == \E i \in {1, 3} : r.tiers[i].gross # None
HasBasisInput(r) == HasUnitPrice(r) \/ (HasGrossValue(r) /\ r.quantity # 0)

ResolvedGross(r) ==
    LET order == r.tiers[1]
        profile == r.tiers[2]
        base == r.tiers[3]
    IN  First(Informed(order, order.gross) \o Times(r.quantity, Informed(order, order.unit))
              \o Times(r.quantity, Informed(profile, profile.unit)) \o Informed(base, base.gross))

ResolvedUnit(r) ==
    First(Informed(r.tiers[1], r.tiers[1].unit) \o Informed(r.tiers[2], r.tiers[2].unit)
          \o Per(ResolvedGross(r), r.quantity))

ResolvedFee(r) ==
    LET fee(i) == Informed(r.tiers[i], r.tiers[i].fee) IN First(fee(1) \o fee(2) \o fee(3))

SupportedAmounts(r) ==
    /\ r.quantity > 0
    /\ ResolvedGross(r) # None /\ ResolvedGross(r)[1] >= 0
    /\ (\E i \in 1..3 : r.tiers[i].fee # None) => ResolvedFee(r) # None
    /\ ResolvedFee(r) # None => ResolvedFee(r)[1] >= 0
    /\ \/ r.type = "BUY" /\ ResolvedUnit(r)[1] > 0
       \/ r.type = "SELL" /\ ResolvedUnit(r)[1] >= 0
          /\ (ResolvedUnit(r)[1] = 0 => r.comment)
-----------------------------------------------------------------------------
(* What a report reads: one tier for all the amounts.                      *)

Values(tier) == tier.unit \o tier.gross \o tier.fee

ZeroPriced(r) == /\ r.type = "SELL" /\ r.comment
                 /\ \A i \in 1..3 : \A k \in DOMAIN Values(r.tiers[i]) : Values(r.tiers[i])[k] = 0

TierGross(r, tier) == First(tier.gross \o Times(r.quantity, tier.unit))

Complete(r, tier) == /\ tier.currency # NoCurrency
                     /\ TierGross(r, tier) # None /\ tier.fee # None

CompleteTiers(r) == {i \in 1..3 : Complete(r, r.tiers[i])}

HasInput(r) == ZeroPriced(r) \/ (r.quantity > 0 /\ CompleteTiers(r) # {})

ZeroPricedInput(r) ==
    LET first(field) == First(r.tiers[1][field] \o r.tiers[2][field] \o r.tiers[3][field])
    IN  [id |-> r.id, asset |-> r.asset, day |-> r.day, zero |-> TRUE, currency |-> NoCurrency,
         unit |-> first("unit"), gross |-> first("gross"), fee |-> first("fee")]

\* Mutant: each amount comes from the first tier that has it.
PricedInputMixed(r) ==
    [id |-> r.id, asset |-> r.asset, day |-> r.day, zero |-> FALSE,
     currency |-> r.tiers[Min(CompleteTiers(r))].currency,
     unit |-> ResolvedUnit(r), gross |-> ResolvedGross(r),
     fee |-> First(r.tiers[1].fee \o r.tiers[2].fee \o r.tiers[3].fee)]

PricedInput(r) ==
    LET tier == r.tiers[Min(CompleteTiers(r))]
        gross == TierGross(r, tier)
    IN  [id |-> r.id, asset |-> r.asset, day |-> r.day, zero |-> FALSE, currency |-> tier.currency,
         unit |-> First(tier.unit \o Per(gross, r.quantity)), gross |-> gross, fee |-> tier.fee]

Input(r) == IF ZeroPriced(r) THEN ZeroPricedInput(r) ELSE PricedInput(r)

\* The activities a report reads, asset by asset in the order of first appearance.
ReadThrough(activities, lastDay) == {k \in DOMAIN activities : activities[k].day <= lastDay}
InputOrder(activities, lastDay) ==
    LET read == ReadThrough(activities, lastDay)
        group(k) == Min({j \in read : activities[j].asset = activities[k].asset})
    IN  CHOOSE p \in [1..Cardinality(read) -> read] :
            \A m, n \in DOMAIN p : m < n => \/ group(p[m]) < group(p[n])
                                            \/ group(p[m]) = group(p[n]) /\ p[m] < p[n]

InputsThrough(activities, lastDay) ==
    LET order == InputOrder(activities, lastDay)
    IN  [n \in DOMAIN order |-> Input(activities[order[n]])]
-----------------------------------------------------------------------------
(* Amounts in the base currency.                                           *)

\* An evidence is [source, base, day, date, rate, direction].
\* Mutant: the direction of the quote is not looked at.
ConvertedOneWay(value, evidence) == Times(evidence.rate, value)

Converted(value, evidence) ==
    IF evidence.direction = "source_per_base" THEN Per(value, evidence.rate)
    ELSE Times(evidence.rate, value)
=============================================================================
