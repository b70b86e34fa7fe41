--------------------------- MODULE MCReportRates ---------------------------
(* Instances of ReportRates for TLC. *)
EXTENDS ReportRates

Tier(currency, unit, gross, fee) == [currency |-> currency, unit |-> unit, gross |-> gross, fee |-> fee]
NoTier == Tier(NoCurrency, None, None, None)
R(id, asset, day, type, comment, quantity, tiers) ==
    [id |-> id, asset |-> asset, day |-> day, type |-> type, comment |-> comment,
     quantity |-> quantity, tiers |-> tiers]
Priced(id, asset, day, type, currency, gross) ==
    R(id, asset, day, type, FALSE, 2, <<Tier(currency, None, <<gross>>, <<1>>), NoTier, NoTier>>)

\* Histories of a few activities: currencies of both bases, of neither, a code no
\* authority lists and one that is no code, a zero-priced reduction, two assets
\* whose activities alternate, and activities of one source id.
Given == R(9, 1, 4, "SELL", TRUE, 1, <<Tier(NoCurrency, <<0>>, None, None), Tier("GBP", <<0>>, None, None), NoTier>>)
MCResynced == {
    <<Priced(1, 1, 2, "BUY", "GBP", 8), Priced(2, 2, 2, "BUY", "USD", 3), Priced(3, 1, 3, "SELL", "GBP", 5)>>,
    <<Priced(4, 1, 2, "BUY", "GBP", 7), Priced(5, 1, 2, "SELL", "GBP", 9)>>}
Longer == {
    <<>>,
    <<Priced(1, 1, 2, "BUY", "USD", 5), Given>>,
    <<Priced(1, 1, 1, "BUY", "GBP", 5), Priced(2, 1, 2, "BUY", "gbp", 5)>>,
    <<Priced(1, 1, 2, "BUY", "XYZ", 5)>>,
    <<Priced(1, 1, 1, "BUY", "JPY", 5)>>,
    <<Priced(1, 1, 1, "BUY", "EUR", 4), Priced(1, 1, 3, "BUY", "XYZ", 6)>>,
    <<Priced(1, 1, 1, "BUY", "EUR", 4), Priced(1, 1, 2, "BUY", "GBP", 6)>>}

\* Single activities with every mixture of a few tiers that a sync accepts.
OrderTiers == {NoTier, Tier("USD", <<2>>, None, <<1>>), Tier("USD", <<2>>, <<5>>, None), Tier("USD", None, <<0>>, <<0>>),
               Tier("USD", None, None, <<1>>), Tier(NoCurrency, <<3>>, None, <<1>>)}
ProfileTiers == {NoTier, Tier("GBP", <<3>>, None, <<2>>), Tier("GBP", <<-1>>, None, <<1>>),
                 Tier("GBP", <<0>>, None, None)}
BaseTiers == {NoTier, Tier("EUR", None, <<7>>, <<3>>), Tier("EUR", None, <<7>>, <<-1>>)}
Singles == {r \in {R(1, 1, 2, type, type = "SELL", 2, <<o, p, b>>) : type \in {"BUY", "SELL"},
                       o \in OrderTiers, p \in ProfileTiers, b \in BaseTiers} : SupportedAmounts(r)}
MCHistories == MCResynced \cup Longer \cup {<<r>> : r \in Singles}

MCDays == 0..4
MCCodes == {"EUR", "USD", "GBP", "JPY", "XYZ"}
MCDirections == [EUR |-> [USD |-> "source_per_base", GBP |-> "source_per_base", JPY |-> "source_per_base"],
                 USD |-> [EUR |-> "base_per_source", GBP |-> "base_per_source", JPY |-> "ambiguous"]]
Row(a, b, c, d, e) == [day \in MCDays |-> <<a, b, c, d, e>>[day + 1]]
MCTables == {[base \in Bases |-> [source \in DOMAIN MCDirections[base] |-> row]] :
                row \in {Row(2, 3, 0, 0, 2), Row(2, 0, -1, -2, 3)}}
MCCells == {4}
=============================================================================
