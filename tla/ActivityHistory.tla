-------------------------- MODULE ActivityHistory --------------------------
(***************************************************************************)
(* What becomes of a retrieved activity history before it is stored: the   *)
(* contract check of every entry, the deterministic order, the removal of  *)
(* exact duplicates and the rules a supported history obeys.               *)
(*                                                                         *)
(* An activity is a record                                                 *)
(*   day, symbol, type, id   the first parts of its place in the order     *)
(*   body                    everything else its hash covers: the time of  *)
(*                           day, the amounts, the comment                 *)
(*   quantity                how much is bought or sold                    *)
(*   scope                   the account it belongs to, or NoScope         *)
(*   asset                   the asset identity, which the hash leaves out *)
(*   shape                   "whole", "unreadable" (refused by the entry   *)
(*                           check) or "unsupported" (readable, refused by *)
(*                           the field rules, as a negative fee is)        *)
(* Texts are numbers, compared as the code compares the texts.             *)
(***************************************************************************)
EXTENDS Integers, Sequences, FiniteSets, FiniteSetsExt, SequencesExt

NoScope == 0

\* Any text may be the type of an entry. The provers know of no text that it is
\* in STRING: the two that count are named.
EntryTypes == {"BUY", "SELL"} \cup STRING

Activities == [day : Int, symbol : Int, type : EntryTypes, id : Int, body : Int, quantity : Int,
               scope : Int, asset : Int, shape : {"whole", "unreadable", "unsupported"}]

TypeOrder(type) == CASE type = "BUY"  -> 0
                     [] type = "SELL" -> 1
                     [] OTHER         -> 2

\* An entry of the server becomes a record: its type is upper case from then on.
MapActivity(e) == [e EXCEPT !.type = CASE @ = "buy"  -> "BUY"
                                       [] @ = "sell" -> "SELL"
                                       [] OTHER      -> @]
MapActivities(s) == [k \in DOMAIN s |-> MapActivity(s[k])]

\* What the duplicate hash covers.
Hash(a) == [a EXCEPT !.asset = 0]

OrderKey(a) == <<a.day, a.symbol, TypeOrder(a.type), a.id, a.body, a.quantity, a.scope>>

Precedes(a, b) ==
    LET s == OrderKey(a)
        t == OrderKey(b)
    IN  \E i \in DOMAIN s : s[i] < t[i] /\ \A j \in 1..(i - 1) : s[j] = t[j]

Ambiguous(a, b) ==
    /\ a.day = b.day /\ a.symbol = b.symbol /\ a.type = b.type /\ a.id = b.id
    /\ Hash(a) # Hash(b)

\* The elements of S one after another, as R orders them.
Row(S, R) == CHOOSE p \in [1..Cardinality(S) -> S] :
                 \A m, n \in DOMAIN p : m < n => <<p[m], p[n]>> \in R

\* A stable sort: activities that are alike stay in the order they came in.
InOrder(s) ==
    LET before(i, j) == \/ Precedes(s[i], s[j])
                        \/ ~Precedes(s[j], s[i]) /\ i < j
        order == Row(DOMAIN s, {w \in (DOMAIN s) \X (DOMAIN s) : before(w[1], w[2])})
    IN  [k \in DOMAIN s |-> s[order[k]]]

StableOrder(s) == \A k \in 2..Len(s) : ~Ambiguous(s[k - 1], s[k])

\* Mutant: every copy is kept.
DeduplicatedNot(s) == s

\* The first of each run of exact duplicates.
Deduplicated(s) ==
    LET kept == {k \in DOMAIN s : k > 1 => Hash(s[k - 1]) # Hash(s[k])}
        place == Row(kept, {w \in kept \X kept : w[1] < w[2]})
    IN  [n \in 1..Cardinality(kept) |-> s[place[n]]]

Signed(a) == CASE a.type = "BUY"  -> a.quantity
               [] a.type = "SELL" -> -a.quantity
               [] OTHER           -> 0

\* What is held of the symbol of s[k] once the first k activities are replayed.
RunningQuantity(s, k) ==
    SumFunctionOnSet([j \in DOMAIN s |-> Signed(s[j])], {j \in 1..k : s[j].symbol = s[k].symbol})

SupportedFields(a) == a.shape = "whole" /\ a.quantity > 0 /\ a.type \in {"BUY", "SELL"}

\* Mutant: holdings are not looked at.
ValidatesFieldsOnly(s) ==
    \A k \in DOMAIN s :
        /\ k > 1 => ~Precedes(s[k], s[k - 1]) /\ ~Ambiguous(s[k - 1], s[k])
        /\ SupportedFields(s[k])

\* The rules of the validator, over a normalised history.
Validates(s) ==
    \A k \in DOMAIN s :
        /\ k > 1 => ~Precedes(s[k], s[k - 1]) /\ ~Ambiguous(s[k - 1], s[k])
        /\ SupportedFields(s[k])
        /\ s[k].type = "SELL" => RunningQuantity(s, k) >= 0

\* One asset's timeline, scope by scope: partial as soon as two differ.
TimelineReliability(s, timeline) ==
    LET first == s[Min(timeline)].scope
    IN  IF \E k \in timeline : s[k].scope # first THEN "partial"
        ELSE IF first = NoScope THEN "unavailable" ELSE "reliable"

ScopeReliability(s) ==
    LET timeline(symbol) == {k \in DOMAIN s : s[k].symbol = symbol}
        found == {TimelineReliability(s, timeline(s[k].symbol)) : k \in DOMAIN s}
    IN  IF "partial" \in found THEN "partial"
        ELSE IF "reliable" \in found THEN "reliable" ELSE "unavailable"

Normalised(s) ==
    LET activities == Deduplicated(InOrder(s))
    IN  [activities |-> activities, retrieved |-> Len(s),
         reliability |-> ScopeReliability(activities)]
-----------------------------------------------------------------------------
(* The same without an order: what may be said of the contents alone.      *)

Contents(s) == {s[k] : k \in DOMAIN s}
Hashes(s) == {Hash(s[k]) : k \in DOMAIN s}

\* What is held of a symbol after a, and everything that goes before it.
HeldAfter(hashes, a) ==
    SumFunctionOnSet([b \in hashes |-> Signed(b)],
                     {b \in hashes : b.symbol = a.symbol /\ ~Precedes(a, b)})

SupportedContents(hashes) ==
    /\ \A a \in hashes : SupportedFields(a)
    /\ \A a, b \in hashes : ~Ambiguous(a, b)
    /\ \A a \in hashes : a.type = "SELL" => HeldAfter(hashes, a) >= 0

\* No two activities of one symbol disagree on their scope.
ScopesOf(hashes, symbol) == {a.scope : a \in {b \in hashes : b.symbol = symbol}}
ReliabilityOf(hashes) ==
    LET scopes == {ScopesOf(hashes, a.symbol) : a \in hashes}
    IN  CASE \E S \in scopes : Cardinality(S) > 1           -> "partial"
          [] \A S \in scopes : S = {NoScope}                -> "unavailable"
          [] OTHER                                          -> "reliable"
=============================================================================
