--------------------------- MODULE MCHistorySync ---------------------------
(* Instances of HistorySync for TLC. *)
EXTENDS HistorySync

A(day, symbol, type, id, body, quantity, scope, asset, shape) ==
    [day |-> day, symbol |-> symbol, type |-> type, id |-> id, body |-> body,
     quantity |-> quantity, scope |-> scope, asset |-> asset, shape |-> shape]

\* A purchase and its edited form, sales of the same and of the next day, a sale
\* under another identity, another symbol, and activities no sync accepts.
Buy       == A(1, 1, "BUY", 2, 1, 1, 1, 1, "whole")
BuyEdited == A(1, 1, "BUY", 2, 2, 2, NoScope, 1, "whole")
SellSame  == A(1, 1, "SELL", 1, 1, 1, 1, 1, "whole")
SellLower == A(1, 1, "sell", 1, 1, 1, 1, 1, "whole")
SellNext  == A(2, 1, "SELL", 3, 1, 1, 2, 1, "whole")
SellAlias == A(2, 1, "SELL", 4, 1, 1, 1, 2, "whole")
BuyOther  == A(2, 2, "BUY", 5, 1, 1, 1, 3, "whole")
Dividend  == A(2, 1, "DIVIDEND", 6, 1, 1, 1, 1, "whole")
Broken    == A(1, 2, "BUY", 8, 1, 1, 1, 3, "unreadable")

MCEntries == {Buy, BuyEdited, SellSame, SellLower, SellNext, SellAlias, BuyOther, Dividend, Broken}

MCNewEntries == {BuyEdited, SellNext}

MaxListed == 3
MCAccounts == {s \in UNION {[1..n -> MCEntries] : n \in 0..MaxListed} : ByDate(s)}
MCCounts == {-1, 0, 1, 3, 4}
=============================================================================
