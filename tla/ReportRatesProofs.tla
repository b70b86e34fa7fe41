------------------------- MODULE ReportRatesProofs -------------------------
(***************************************************************************)
(* Proofs about ReportRates, for every history, authority, table of rates  *)
(* and number of reports: the reports of a session agree on their rates,   *)
(* which are the latest that were published; a report is whole, and names  *)
(* its cause when it fails.                                                *)
(***************************************************************************)
EXTENDS ReportRates, FoldTheorems, SequenceTheorems, TLAPS

Kept == {rates[key] : key \in DOMAIN rates}

Shape == /\ DOMAIN report = {"base", "lastDay", "inputs", "converted", "audit", "sources"}
         /\ DOMAIN outcome = {"result", "reason", "blamed", "diagnostic"}

\* A rate stays what it was: it is asked for only while the session has none,
\* and every report, made or being made, lists rates the session has kept.
Remembered ==
    /\ \A key \in DOMAIN rates : KeyOf(rates[key]) = key
    /\ phase = "ask" => Key(NextInput) \notin DOMAIN rates
    /\ report.sources \in Seq(Kept)
    /\ \A f \in finished : f.report.sources \in Seq(Kept)

IInv == Shape /\ Remembered
-----------------------------------------------------------------------------
\* An attempt that ends forgets its report and keeps the rates.
LEMMA EndsForgets ==
    ASSUME Shape, Remembered, NEW o, Ends(o), finished' = finished,
           DOMAIN o = {"result", "reason", "blamed", "diagnostic"}
    PROVE  Shape' /\ Remembered'
<1>1. phase' = "idle" /\ rates' = rates /\ report' = NoReport /\ outcome' = o
  BY DEF Ends
<1>2. Shape'
  BY <1>1 DEF Shape, NoReport
<1>3. NoReport.sources \in Seq(Kept)
  BY DEF NoReport
<1>4. Kept' = Kept
  BY <1>1 DEF Kept
<1> QED BY <1>1, <1>2, <1>3, <1>4 DEF Remembered

\* So does one that fails.
LEMMA FailsForgets ==
    ASSUME Shape, Remembered, NEW reason, NEW blamed, Fails(reason, blamed)
    PROVE  Shape' /\ Remembered'
<1>1. PICK diagnostic \in Diagnostics :
         Ends([result |-> "failed", reason |-> reason, blamed |-> blamed,
               diagnostic |-> diagnostic])
  BY DEF Fails
<1>2. finished' = finished
  BY DEF Fails, hist
<1> QED BY <1>1, <1>2, EndsForgets

\* A step that leaves the rates and the finished reports alone, and lists no more.
LEMMA StillRemembered ==
    ASSUME Remembered, rates' = rates, finished' = finished,
           report'.sources = report.sources, phase' # "ask"
    PROVE  Remembered'
<1>1. Kept' = Kept
  BY DEF Kept
<1> QED BY <1>1 DEF Remembered

\* Listing a rate twice lists it once.
LEMMA ListedKept ==
    ASSUME NEW S, NEW s \in Seq(S), NEW e \in S
    PROVE  Listed(s, e) \in Seq(S)
  BY DEF Listed

\* Every step keeps what is remembered.
LEMMA RememberedStep == IInv /\ [Next]_vars => Shape' /\ Remembered'
<1> SUFFICES ASSUME IInv, [Next]_vars PROVE Shape' /\ Remembered'
  OBVIOUS
<1>0. Shape /\ Remembered
  BY DEF IInv
<1>1. CASE Revise
  <2>1. /\ rates' = rates /\ finished' = finished /\ report' = report
        /\ outcome' = outcome /\ phase' = phase
    BY <1>1 DEF Revise, hist
  <2>2. Kept' = Kept /\ Key(NextInput)' = Key(NextInput)
    BY <2>1 DEF Kept, Key, NextInput
  <2> QED BY <1>0, <2>1, <2>2 DEF Shape, Remembered
<1>2. CASE Unlock
  <2>1. /\ rates' = rates /\ finished' = finished /\ report' = report
        /\ outcome' = outcome /\ phase' = "idle"
    BY <1>2 DEF Unlock, hist
  <2> QED BY <1>0, <2>1, StillRemembered DEF Shape
<1>3. CASE Refuse
  <2>1. PICK reason :
           Ends([NoOutcome EXCEPT !.result = "refused", !.reason = reason])
    BY <1>3 DEF Refuse
  <2>2. finished' = finished
    BY <1>3 DEF Refuse, hist
  <2> QED BY <1>0, <2>1, <2>2, EndsForgets DEF NoOutcome
<1>4. CASE Generate
  <2>1. /\ rates' = rates /\ finished' = finished /\ phase' = "convert" /\ outcome' = NoOutcome
        /\ report'.sources = <<>>
        /\ DOMAIN report' = {"base", "lastDay", "inputs", "converted", "audit", "sources"}
    BY <1>4 DEF Generate, hist, NoReport
  <2>2. Kept' = Kept /\ <<>> \in Seq(Kept)
    BY <2>1 DEF Kept
  <2> QED BY <1>0, <2>1, <2>2 DEF Shape, Remembered, NoOutcome
<1>5. CASE RefuseInput
  <2>1. PICK blamed, diagnostic :
           Ends([result |-> "failed", reason |-> "unsupported_report_calculation",
                 blamed |-> blamed, diagnostic |-> diagnostic])
    BY <1>5 DEF RefuseInput
  <2>2. finished' = finished
    BY <1>5 DEF RefuseInput, hist
  <2> QED BY <1>0, <2>1, <2>2, EndsForgets
<1>6. CASE KeepAsIs
  <2>1. /\ rates' = rates /\ finished' = finished /\ phase' = phase /\ outcome' = outcome
        /\ report'.sources = report.sources /\ DOMAIN report' = DOMAIN report
    BY <1>0, <1>6 DEF KeepAsIs, Shape, hist
  <2>2. phase = "convert"
    BY <1>6 DEF KeepAsIs, Converting
  <2> QED BY <1>0, <2>1, <2>2, StillRemembered DEF Shape
<1>7. CASE CannotConvert
  <2>1. PICK reason : Fails(reason, RecordOf(NextInput))
    BY <1>7 DEF CannotConvert, ConversionFails
  <2> QED BY <1>0, <2>1, FailsForgets
<1>8. CASE Ask
  <2>1. /\ rates' = rates /\ finished' = finished /\ report' = report
        /\ outcome' = outcome /\ Key(NextInput) \notin DOMAIN rates
    BY <1>8 DEF Ask, hist
  <2>2. Kept' = Kept /\ Key(NextInput)' = Key(NextInput)
    BY <2>1 DEF Kept, Key, NextInput
  <2> QED BY <1>0, <2>1, <2>2 DEF Shape, Remembered
<1>9. CASE Answered
  <2>1. PICK rows : rates' = Put(rates, Key(NextInput), Evidence(rows, NextInput))
    BY <1>9 DEF Answered
  <2>2. /\ phase = "ask" /\ phase' = "convert" /\ report' = report
        /\ outcome' = outcome /\ finished' = finished
    BY <1>9 DEF Answered
  <2> DEFINE key == Key(NextInput)
             evidence == Evidence(rows, NextInput)
  <2>3. KeyOf(evidence) = key
    BY DEF KeyOf, Key, Evidence
  <2>4. key \notin DOMAIN rates
    BY <1>0, <2>2 DEF Remembered
  <2>0. rates' = Put(rates, key, evidence)
    BY <2>1
  <2> HIDE DEF key, evidence
  <2>5. /\ DOMAIN rates' = DOMAIN rates \cup {key} /\ rates'[key] = evidence
        /\ \A k \in DOMAIN rates : rates'[k] = rates[k]
    BY <2>0, <2>4 DEF Put
  <2>6. Kept \subseteq Kept'
    BY <2>5 DEF Kept
  <2>7. \A s \in Seq(Kept) : s \in Seq(Kept')
    BY <2>6
  <2> QED BY <1>0, <2>2, <2>3, <2>5, <2>7 DEF Shape, Remembered
<1>10. CASE AnswerRejected
  <2>1. PICK reason : Fails(reason, RecordOf(NextInput))
    BY <1>10 DEF AnswerRejected, ConversionFails
  <2> QED BY <1>0, <2>1, FailsForgets
<1>11. CASE Unavailable
  <2>1. PICK reason : Fails(reason, RecordOf(NextInput))
    BY <1>11 DEF Unavailable, ConversionFails
  <2> QED BY <1>0, <2>1, FailsForgets
<1>12. CASE Convert
  <2> DEFINE evidence == rates[Key(NextInput)]
  <2>1. CASE ConversionFails(NextInput, "unsupported_report_calculation")
    BY <1>0, <2>1, FailsForgets DEF ConversionFails
  <2>2. CASE /\ report' = [report EXCEPT
                    !.converted = Append(@, ConvertedInput(NextInput, evidence)),
                    !.audit = Append(@, AuditEntry(NextInput, evidence)),
                    !.sources = Listed(@, evidence)]
             /\ UNCHANGED <<env, rates, phase, attempt, outcome, hist>>
    <3>1. /\ report'.sources = Listed(report.sources, evidence)
          /\ DOMAIN report' = DOMAIN report
      BY <1>0, <2>2 DEF Shape
    <3>2. evidence \in Kept /\ phase = "convert"
      BY <1>12 DEF Convert, Converting, Kept
    <3>3. Listed(report.sources, evidence) \in Seq(Kept)
      BY <1>0, <3>2, ListedKept DEF Remembered
    <3>4. rates' = rates /\ finished' = finished /\ phase' = phase /\ outcome' = outcome
      BY <2>2 DEF hist
    <3>5. Kept' = Kept
      BY <3>4 DEF Kept
    <3> HIDE DEF evidence
    <3> QED BY <1>0, <3>1, <3>2, <3>3, <3>4, <3>5 DEF Shape, Remembered
  <2> QED BY <1>12, <2>1, <2>2 DEF Convert
<1>13. CASE Calculated \/ Rendered
  <2>1. CASE Fails("unsupported_report_calculation", None)
    BY <1>0, <2>1, FailsForgets
  <2>2. CASE phase' \in {"render", "save"} /\ UNCHANGED <<env, rates, attempt, report, outcome, hist>>
    BY <1>0, <2>2, StillRemembered DEF hist, Shape
  <2> QED BY <1>13, <2>1, <2>2 DEF Calculated, Rendered
<1>14. CASE SaveFails
  <2>1. PICK reason : Fails(reason, None)
    BY <1>14 DEF SaveFails
  <2> QED BY <1>0, <2>1, FailsForgets
<1>15. CASE Saved
  <2>1. /\ rates' = rates /\ report' = report /\ outcome' = outcome /\ phase' = "open"
        /\ finished' = finished \cup {[report |-> report, history |-> unlocked]}
    BY <1>15 DEF Saved
  <2>2. Kept' = Kept
    BY <2>1 DEF Kept
  <2> QED BY <1>0, <2>1, <2>2 DEF Shape, Remembered
<1>16. CASE Opened
  <2>1. PICK reason : Ends([NoOutcome EXCEPT !.result = "saved", !.reason = reason])
    BY <1>16 DEF Opened
  <2>2. finished' = finished
    BY <1>16 DEF Opened, hist
  <2> QED BY <1>0, <2>1, <2>2, EndsForgets DEF NoOutcome
<1>17. CASE WriteDiagnostic
  <2>1. /\ rates' = rates /\ finished' = finished /\ report' = report /\ phase' = phase
        /\ phase = "idle" /\ DOMAIN outcome' = DOMAIN outcome
    BY <1>17 DEF WriteDiagnostic, hist
  <2> QED BY <1>0, <2>1, StillRemembered DEF Shape
<1>18. CASE UNCHANGED vars
  <2>1. /\ rates' = rates /\ finished' = finished /\ report' = report
        /\ outcome' = outcome /\ phase' = phase
    BY <1>18 DEF vars, hist
  <2>2. Kept' = Kept /\ Key(NextInput)' = Key(NextInput)
    BY <2>1 DEF Kept, Key, NextInput
  <2> QED BY <1>0, <2>1, <2>2 DEF Shape, Remembered
<1> QED
  BY <1>1, <1>2, <1>3, <1>4, <1>5, <1>6, <1>7, <1>8, <1>9, <1>10, <1>11, <1>12, <1>13,
     <1>14, <1>15, <1>16, <1>17, <1>18 DEF Next
-----------------------------------------------------------------------------
\* It starts with nothing remembered.
LEMMA RatesStart == Init => IInv
<1> SUFFICES ASSUME Init PROVE IInv
  OBVIOUS
<1>1. Shape
  BY DEF Init, Shape, NoReport, NoOutcome
<1>2. Remembered
  BY DEF Init, Remembered, NoReport
<1> QED BY <1>1, <1>2 DEF IInv

\* A session remembers the rates it was given, and what was saved, whatever the
\* authorities publish and the user does.
THEOREM RatesInvariant == Spec => []IInv
<1>1. Init => IInv
  BY RatesStart
<1>2. IInv /\ [Next]_vars => IInv'
  BY RememberedStep DEF IInv
<1> QED BY <1>1, <1>2, PTL DEF Spec

\* Two reports of a session convert a currency of one day at one rate
\* (CurrencyRateSessionCache).
THEOREM RatesSessionAgrees == Spec => []SessionAgrees
<1>1. IInv => SessionAgrees
  <2> SUFFICES ASSUME IInv, NEW f \in finished, NEW g \in finished,
                      NEW e \in ToSet(f.report.sources), NEW d \in ToSet(g.report.sources),
                      KeyOf(e) = KeyOf(d)
               PROVE  e = d
    BY DEF SessionAgrees
  <2>1. f.report.sources \in Seq(Kept) /\ g.report.sources \in Seq(Kept)
    BY DEF IInv, Remembered
  <2>2. e \in Kept /\ d \in Kept
    BY <2>1 DEF ToSet
  <2>3. PICK j \in DOMAIN rates, k \in DOMAIN rates : e = rates[j] /\ d = rates[k]
    BY <2>2 DEF Kept
  <2>4. KeyOf(e) = j /\ KeyOf(d) = k
    BY <2>3 DEF IInv, Remembered
  <2> QED BY <2>3, <2>4
<1> QED BY <1>1, RatesInvariant, PTL
-----------------------------------------------------------------------------
(* The amounts and the inputs of a report, for every history. *)

\* A finite set of numbers has a least and a greatest one.
LEMMA Extremes ==
    ASSUME NEW S \in SUBSET Int, IsFiniteSet(S), S # {}
    PROVE  /\ Min(S) \in S /\ \A y \in S : Min(S) <= y
           /\ Max(S) \in S /\ \A y \in S : Max(S) >= y
<1> DEFINE Up == {w \in S \X S : w[1] < w[2]}
           Down == {w \in S \X S : w[1] > w[2]}
<1>1. \A y \in S : y \in Int
  OBVIOUS
<1>2. PICK x \in S : \A y \in S \ {x} : <<y, x>> \in Up
  <2>1. Orders(Up, S)
    BY <1>1 DEF Orders
  <2> HIDE DEF Up
  <2> QED BY <2>1, LastOne
<1>3. PICK z \in S : \A y \in S \ {z} : <<y, z>> \in Down
  <2>1. Orders(Down, S)
    BY <1>1 DEF Orders
  <2> HIDE DEF Down
  <2> QED BY <2>1, LastOne
<1>4. \A y \in S : x >= y
  <2>1. \A y \in S \ {x} : y < x
    BY <1>2
  <2> QED BY <1>1, <2>1
<1>5. \A y \in S : z <= y
  <2>1. \A y \in S \ {z} : y > z
    BY <1>3
  <2> QED BY <1>1, <2>1
<1>6. Max(S) \in S /\ \A y \in S : Max(S) >= y
  BY <1>4 DEF Max
<1>7. Min(S) \in S /\ \A y \in S : Min(S) <= y
  BY <1>5 DEF Min
<1> QED BY <1>6, <1>7

\* The place of an activity among those of its asset, and of the asset.
AssetPlace(s, last, k) == Min({j \in ReadThrough(s, last) : s[j].asset = s[k].asset})
Earlier(s, last) == {w \in ReadThrough(s, last) \X ReadThrough(s, last) :
    \/ AssetPlace(s, last, w[1]) < AssetPlace(s, last, w[2])
    \/ AssetPlace(s, last, w[1]) = AssetPlace(s, last, w[2]) /\ w[1] < w[2]}

LEMMA EarlierOrders ==
    ASSUME NEW s \in Histories, NEW last
    PROVE  /\ IsFiniteSet(ReadThrough(s, last))
           /\ \A k \in ReadThrough(s, last) : AssetPlace(s, last, k) \in ReadThrough(s, last)
           /\ Orders(Earlier(s, last), ReadThrough(s, last))
<1> DEFINE read == ReadThrough(s, last)
<1>1. DOMAIN s = 1..Len(s) /\ Len(s) \in Nat
  BY RatesAssumption
<1>2. read \subseteq 1..Len(s) /\ IsFiniteSet(read) /\ read \subseteq Int
  <2>1. read \subseteq 1..Len(s)
    BY <1>1 DEF ReadThrough
  <2>2. IsFiniteSet(1..Len(s)) /\ 1..Len(s) \subseteq Int
    BY <1>1, FS_Interval
  <2> HIDE DEF read
  <2> QED BY <2>1, <2>2, FS_Subset
<1>3. ASSUME NEW k \in read PROVE AssetPlace(s, last, k) \in read
  <2> DEFINE G == {j \in read : s[j].asset = s[k].asset}
  <2>1. G \in SUBSET Int /\ IsFiniteSet(G) /\ G # {}
    BY <1>2, <1>3, FS_Subset
  <2>2. Min(G) \in G
    BY <2>1, Extremes
  <2> QED BY <2>2 DEF AssetPlace
<1>4. \A k \in read : AssetPlace(s, last, k) \in Int
  BY <1>2, <1>3
<1> HIDE DEF read
<1>5. Orders({w \in read \X read :
    \/ AssetPlace(s, last, w[1]) < AssetPlace(s, last, w[2])
    \/ AssetPlace(s, last, w[1]) = AssetPlace(s, last, w[2]) /\ w[1] < w[2]}, read)
  BY <1>2, <1>4 DEF Orders
<1> QED BY <1>2, <1>3, <1>5 DEF read, Earlier

\* InputOrder is an order of the records read, each of them once, and those of
\* an asset as they are in the history.
LEMMA OrderedOnce ==
    ASSUME NEW s \in Histories, NEW last
    PROVE  /\ Cardinality(ReadThrough(s, last)) \in Nat
           /\ InputOrder(s, last) \in [1..Cardinality(ReadThrough(s, last)) -> ReadThrough(s, last)]
           /\ \A m, n \in DOMAIN InputOrder(s, last) : m < n =>
                 /\ InputOrder(s, last)[m] # InputOrder(s, last)[n]
                 /\ s[InputOrder(s, last)[m]].asset = s[InputOrder(s, last)[n]].asset =>
                       InputOrder(s, last)[m] < InputOrder(s, last)[n]
           /\ \A k \in ReadThrough(s, last) : \E m \in DOMAIN InputOrder(s, last) : InputOrder(s, last)[m] = k
<1> DEFINE read == ReadThrough(s, last)
           R == Earlier(s, last)
           Good(p) == \A m, n \in DOMAIN p : m < n =>
                         \/ AssetPlace(s, last, p[m]) < AssetPlace(s, last, p[n])
                         \/ AssetPlace(s, last, p[m]) = AssetPlace(s, last, p[n]) /\ p[m] < p[n]
           order == InputOrder(s, last)
<1>1. IsFiniteSet(read) /\ Orders(R, read)
  BY EarlierOrders
<1>2. Cardinality(read) \in Nat
  BY <1>1, FS_CardinalityType
<1>3. order = CHOOSE p \in [1..Cardinality(read) -> read] : Good(p)
  BY DEF InputOrder, AssetPlace
<1> HIDE DEF order
<1>4. ASSUME NEW p \in [1..Cardinality(read) -> read] PROVE Good(p) <=> Sorted(R, p)
  BY DEF Sorted, Earlier
<1>5. PICK q \in [1..Cardinality(read) -> read] : Sorted(R, q)
  BY <1>1, SortedExists
<1>6. order \in [1..Cardinality(read) -> read] /\ Good(order)
  <2> HIDE DEF Good, read
  <2> QED BY <1>3, <1>4, <1>5
<1>7. Sorted(R, order)
  BY <1>4, <1>6
<1>8. /\ \A m, n \in DOMAIN order : m # n => order[m] # order[n]
      /\ \A k \in read : \E m \in DOMAIN order : order[m] = k
  <2> HIDE DEF read, R, Good
  <2> QED BY <1>1, <1>6, <1>7, SortedHoldsAll
<1>9. ASSUME NEW m \in DOMAIN order, NEW n \in DOMAIN order, m < n,
             s[order[m]].asset = s[order[n]].asset
      PROVE  order[m] < order[n]
  <2>1. AssetPlace(s, last, order[m]) = AssetPlace(s, last, order[n])
    BY <1>9 DEF AssetPlace
  <2>2. AssetPlace(s, last, order[m]) \in Int
    <3>1. read \subseteq Int
      BY RatesAssumption DEF ReadThrough
    <3>2. order[m] \in read
      BY <1>6, <1>9
    <3> QED BY <3>1, <3>2, EarlierOrders
  <2> QED BY <1>6, <1>9, <2>1, <2>2
<1>10. \A m, n \in DOMAIN order : m < n => order[m] # order[n]
  <2>1. DOMAIN order = 1..Cardinality(read)
    BY <1>6
  <2> HIDE DEF read, Good
  <2> QED BY <1>2, <1>8, <2>1
<1> QED BY <1>2, <1>6, <1>8, <1>9, <1>10 DEF order

\* An amount is a sequence of at most one number.
LEMMA AmountIsSeq ==
    ASSUME NEW a
    PROVE  a \in Amounts <=> a \in Seq(Int) /\ Len(a) <= 1
<1>1. 1..0 = {} /\ 1..1 = {1}
  OBVIOUS
<1>2. ASSUME a \in Amounts PROVE a \in Seq(Int) /\ Len(a) <= 1
  <2>1. CASE a \in [{} -> Int]
    <3>1. a \in [1..0 -> Int]
      BY <1>1, <2>1
    <3>2. a \in Seq(Int)
      BY <3>1, SeqDef
    <3>3. DOMAIN a = 1..0
      BY <3>1
    <3>4. Len(a) \in Nat /\ DOMAIN a = 1..Len(a)
      BY <3>2
    <3> QED BY <3>2, <3>3, <3>4
  <2>2. CASE a \in [{1} -> Int]
    <3>1. a \in [1..1 -> Int]
      BY <1>1, <2>2
    <3>2. a \in Seq(Int)
      BY <3>1, SeqDef
    <3>3. DOMAIN a = 1..1
      BY <3>1
    <3>4. Len(a) \in Nat /\ DOMAIN a = 1..Len(a)
      BY <3>2
    <3> QED BY <3>2, <3>3, <3>4
  <2> QED BY <1>2, <2>1, <2>2 DEF Amounts
<1>3. ASSUME a \in Seq(Int), Len(a) <= 1 PROVE a \in Amounts
  <2>1. a \in [1..Len(a) -> Int] /\ Len(a) \in Nat
    BY <1>3
  <2>2. Len(a) = 0 \/ Len(a) = 1
    BY <1>3, <2>1
  <2> QED BY <1>1, <2>1, <2>2 DEF Amounts
<1> QED BY <1>2, <1>3

LEMMA FirstType ==
    ASSUME NEW a \in Amounts, NEW b \in Amounts
    PROVE  First(a \o b) \in Amounts
<1> DEFINE c == a \o b
<1>1. c \in Seq(Int) /\ Len(c) \in Nat
  BY AmountIsSeq
<1>2. Min({1, Len(c)}) \in {1, Len(c)} /\ Min({1, Len(c)}) <= 1 /\ Min({1, Len(c)}) <= Len(c)
  <2> DEFINE two == {1, Len(c)}
  <2>1. IsFiniteSet({1})
    BY FS_Singleton
  <2>2. IsFiniteSet({1} \cup {Len(c)})
    BY <2>1, FS_AddElement
  <2>3. two = {1} \cup {Len(c)}
    OBVIOUS
  <2>4. two \in SUBSET Int /\ 1 \in two /\ Len(c) \in two
    BY <1>1
  <2> HIDE DEF two
  <2>5. Min(two) \in two /\ \A y \in two : Min(two) <= y
    BY <2>2, <2>3, <2>4, Extremes
  <2> QED BY <2>4, <2>5 DEF two
<1> DEFINE m == Min({1, Len(c)})
<1>3. m \in 0..1 /\ m <= Len(c)
  BY <1>1, <1>2
<1> HIDE DEF c, m
<1>4. SubSeq(c, 1, m) \in Seq(Int) /\ Len(SubSeq(c, 1, m)) = m
  BY <1>1, <1>3
<1>5. SubSeq(c, 1, m) \in Amounts
  <2> DEFINE s == SubSeq(c, 1, m)
  <2>1. s \in Seq(Int) /\ Len(s) <= 1
    BY <1>3, <1>4
  <2> HIDE DEF s
  <2>2. s \in Amounts
    BY <2>1, AmountIsSeq
  <2> QED BY <2>2 DEF s
<1> QED BY <1>5 DEF First, c, m

\* The quotient is the nearest, half away from zero.
LEMMA Rounding ==
    ASSUME NEW a \in Int, NEW b \in Int, b > 0
    PROVE  /\ DivideRoundHalfUp(a, b) \in Int
           /\ 2 * (b * DivideRoundHalfUp(a, b) - a) \in -b..b
           /\ a >= 0 => DivideRoundHalfUp(a, b) >= 0
<1> DEFINE up == (2 * a + b) \div (2 * b)
           down == (b - 2 * a) \div (2 * b)
           b2 == 2 * b
           p == 2 * a + b
           q == b - 2 * a
<1>0. b2 \in Int /\ b2 > 0 /\ p \in Int /\ q \in Int
  OBVIOUS
<1> HIDE DEF b2, p, q
<1>1. /\ p \div b2 \in Int /\ b2 * (p \div b2) <= p /\ p < b2 * (p \div b2) + b2
      /\ q \div b2 \in Int /\ b2 * (q \div b2) <= q /\ q < b2 * (q \div b2) + b2
  BY <1>0
<1> DEFINE u == p \div b2
           d == q \div b2
<1>2. u \in Int /\ d \in Int /\ b2 * u <= p /\ p < b2 * u + b2 /\ b2 * d <= q /\ q < b2 * d + b2
  BY <1>1
<1>3. DivideRoundHalfUp(a, b) = IF a >= 0 THEN u ELSE -d
  BY DEF DivideRoundHalfUp, p, q, b2
<1> HIDE DEF u, d
<1> DEFINE bu == b * u
           bd == b * d
<1>4. bu \in Int /\ bd \in Int /\ b2 * u = 2 * bu /\ b2 * d = 2 * bd /\ b * (-d) = -bd
  BY <1>2 DEF b2
<1>5. /\ 2 * bu <= 2 * a + b /\ 2 * a + b < 2 * bu + 2 * b
      /\ 2 * bd <= b - 2 * a /\ b - 2 * a < 2 * bd + 2 * b
  BY <1>2, <1>4 DEF p, q, b2
<1>6. a >= 0 => u >= 0
  <2> SUFFICES ASSUME a >= 0, u < 0 PROVE FALSE
    BY <1>2
  <2>1. u <= -1
    BY <1>2
  <2>2. b * u <= b * (-1)
    BY <1>2, <2>1
  <2> QED BY <1>4, <1>5, <2>2
<1> HIDE DEF bu, bd
<1>7. 2 * (bu - a) \in -b..b /\ 2 * (-bd - a) \in -b..b
  BY <1>4, <1>5
<1> QED BY <1>2, <1>3, <1>4, <1>6, <1>7 DEF bu, bd

\* What an amount is worth in the base currency.
LEMMA ConvertedWorth ==
    ASSUME NEW a \in Amounts, NEW e, e.rate \in Int, e.rate > 0,
           e.direction \in {"source_per_base", "base_per_source"}
    PROVE  /\ Worth(a, Converted(a, e), e)
           /\ (\A k \in DOMAIN a : a[k] >= 0) =>
                 \A k \in DOMAIN Converted(a, e) : Converted(a, e)[k] >= 0
<1> DEFINE rate == e.rate
           c == Converted(a, e)
<1>1. \A k \in DOMAIN a : a[k] \in Int
  BY DEF Amounts
<1>2. ASSUME e.direction = "source_per_base"
      PROVE  /\ DOMAIN c = DOMAIN a
             /\ \A k \in DOMAIN a : c[k] = DivideRoundHalfUp(a[k], rate)
  BY <1>2 DEF Converted, Per
<1>3. ASSUME e.direction # "source_per_base"
      PROVE  DOMAIN c = DOMAIN a /\ \A k \in DOMAIN a : c[k] = rate * a[k]
  BY <1>3 DEF Converted, Times
<1> HIDE DEF c
<1>4. rate \in Int /\ rate > 0
  OBVIOUS
<1>5. CASE e.direction = "source_per_base"
  <2>1. ASSUME NEW k \in DOMAIN a
        PROVE  2 * (rate * c[k] - a[k]) \in -rate..rate /\ (a[k] >= 0 => c[k] >= 0)
    <3> HIDE DEF rate
    <3> QED BY <1>1, <1>2, <1>4, <1>5, Rounding
  <2> QED BY <1>2, <1>5, <2>1 DEF Worth, c
<1>6. CASE e.direction # "source_per_base"
  <2>1. ASSUME NEW k \in DOMAIN a, a[k] >= 0 PROVE c[k] >= 0
    <3> HIDE DEF rate
    <3>1. a[k] \in Int /\ c[k] = rate * a[k]
      BY <1>1, <1>3, <1>6
    <3> QED BY <1>4, <2>1, <3>1
  <2>2. CASE e.direction = "base_per_source"
    BY <1>3, <2>1, <2>2 DEF Worth, c
  <2> QED BY <1>6, <2>2
<1> QED BY <1>5, <1>6

\* What an input keeps of its record.
LEMMA InputShape ==
    ASSUME NEW r, WellFormed(r), HasInput(r)
    PROVE  /\ Input(r).id = r.id /\ Input(r).asset = r.asset /\ Input(r).day = r.day
           /\ DOMAIN Input(r) = {"id", "asset", "day", "zero", "currency", "unit", "gross", "fee"}
           /\ ~Input(r).zero =>
                 {Input(r).unit, Input(r).gross, Input(r).fee} \subseteq Amounts
<1>1. CASE ZeroPriced(r)
  <2>1. Input(r) = ZeroPricedInput(r)
    BY <1>1 DEF Input
  <2> QED BY <2>1 DEF ZeroPricedInput
<1>2. CASE ~ZeroPriced(r)
  <2>1. Input(r) = PricedInput(r)
    BY <1>2 DEF Input
  <2>2. r.quantity > 0 /\ CompleteTiers(r) # {} /\ r.quantity \in Int
    BY <1>2 DEF HasInput, WellFormed
  <2> DEFINE i == Min(CompleteTiers(r))
             tier == r.tiers[i]
             gross == TierGross(r, tier)
             q == r.quantity
  <2>3. i \in 1..3
    <3>1. CompleteTiers(r) \subseteq 1..3
      BY DEF CompleteTiers
    <3> DEFINE one == 1
               three == 3
    <3>0. one \in Int /\ three \in Int
      OBVIOUS
    <3> HIDE DEF one, three
    <3>9. IsFiniteSet(one..three)
      BY <3>0, FS_Interval
    <3>2. IsFiniteSet(1..3)
      BY <3>9 DEF one, three
    <3>3. CompleteTiers(r) \in SUBSET Int /\ IsFiniteSet(CompleteTiers(r))
      BY <3>1, <3>2, FS_Subset
    <3> QED BY <2>2, <3>1, <3>3, Extremes
  <2>4. {tier.unit, tier.gross, tier.fee} \subseteq Amounts
    <3> HIDE DEF i
    <3> QED BY <2>3 DEF WellFormed
  <2>5. Times(q, tier.unit) \in Amounts
    <3> HIDE DEF tier
    <3>1. \A k \in DOMAIN tier.unit : tier.unit[k] \in Int /\ q * tier.unit[k] \in Int
      BY <2>2, <2>4 DEF Amounts
    <3>2. DOMAIN tier.unit = {} \/ DOMAIN tier.unit = {1}
      BY <2>4 DEF Amounts
    <3> QED BY <3>1, <3>2 DEF Times, Amounts
  <2>6. gross \in Amounts
    <3> HIDE DEF tier
    <3> QED BY <2>4, <2>5, FirstType DEF TierGross
  <2>7. Per(gross, q) \in Amounts
    <3> HIDE DEF gross
    <3>1. \A k \in DOMAIN gross : DivideRoundHalfUp(gross[k], q) \in Int
      BY <2>2, <2>6, Rounding DEF Amounts
    <3>2. DOMAIN gross = {} \/ DOMAIN gross = {1}
      BY <2>6 DEF Amounts
    <3> QED BY <3>1, <3>2 DEF Per, Amounts
  <2>8. First(tier.unit \o Per(gross, q)) \in Amounts
    <3> HIDE DEF tier, gross
    <3> QED BY <2>4, <2>7, FirstType
  <2>9. PricedInput(r) = [id |-> r.id, asset |-> r.asset, day |-> r.day, zero |-> FALSE,
             currency |-> tier.currency, unit |-> First(tier.unit \o Per(gross, q)),
             gross |-> gross, fee |-> tier.fee]
    BY DEF PricedInput
  <2> HIDE DEF tier, gross
  <2> QED BY <2>1, <2>4, <2>6, <2>8, <2>9
<1> QED BY <1>1, <1>2

\* The inputs of a report are those of the records up to its year, each once.
LEMMA InputsAreRead ==
    ASSUME NEW s \in Histories, NEW last,
           \A k \in ReadThrough(s, last) : HasInput(s[k])
    PROVE  /\ Cardinality(ReadThrough(s, last)) \in Nat
           /\ Len(InputsThrough(s, last)) = Cardinality(ReadThrough(s, last))
           /\ DOMAIN InputsThrough(s, last) = 1..Cardinality(ReadThrough(s, last))
           /\ \A n \in DOMAIN InputsThrough(s, last) : \E k \in DOMAIN s :
                 /\ k \in ReadThrough(s, last)
                 /\ InputsThrough(s, last)[n] = Input(s[k]) /\ WellFormed(s[k]) /\ HasInput(s[k])
                 /\ s[k].day \in Days
<1> DEFINE N == Cardinality(ReadThrough(s, last))
           order == InputOrder(s, last)
<1>1. N \in Nat /\ order \in [1..N -> ReadThrough(s, last)]
  BY OrderedOnce
<1>2. InputsThrough(s, last) = [n \in 1..N |-> Input(s[order[n]])]
  BY <1>1 DEF InputsThrough
<1> HIDE DEF N, order
<1>3. Len(InputsThrough(s, last)) = N /\ DOMAIN InputsThrough(s, last) = 1..N
  BY <1>1, <1>2
<1>4. ASSUME NEW n \in 1..N
      PROVE  \E k \in DOMAIN s : /\ k \in ReadThrough(s, last)
                                 /\ InputsThrough(s, last)[n] = Input(s[k])
                                 /\ WellFormed(s[k]) /\ HasInput(s[k]) /\ s[k].day \in Days
  <2>1. order[n] \in ReadThrough(s, last)
    BY <1>1, <1>4
  <2>2. order[n] \in DOMAIN s
    BY <2>1 DEF ReadThrough
  <2>3. WellFormed(s[order[n]]) /\ s[order[n]].day \in Days
    BY <2>2, RatesAssumption
  <2> QED BY <1>2, <1>4, <2>1, <2>2, <2>3
<1> QED BY <1>1, <1>3, <1>4 DEF N
-----------------------------------------------------------------------------
\* How a report is made: what is converted so far is the inputs, each as it was or
\* at the rate the session keeps for it; the audit has one entry for each of the
\* latter, and the report lists their rates, each once.
KeyIn(base, input) == [source |-> input.currency, base |-> base, day |-> input.day]
ForeignIn(base, input) == ~input.zero /\ input.currency # base
RateFor(base, input, rs) == rs[KeyIn(base, input)]
EntryFor(base, input, rs) == AuditEntry(input, RateFor(base, input, rs))
AtRate(base, input, e) ==
    [input EXCEPT !.currency = base, !.unit = Converted(@, e), !.gross = Converted(@, e),
                  !.fee = Converted(@, e)]
InBase(base, input, rs) ==
    IF ForeignIn(base, input) THEN AtRate(base, input, RateFor(base, input, rs))
    ELSE [input EXCEPT !.currency = base]

Traded(r) == {k \in 1..Len(r.converted) : ForeignIn(r.base, r.inputs[k])}
RatesOf(r, rs) == {RateFor(r.base, r.inputs[k], rs) : k \in Traded(r)}
Made(r, rs) ==
    /\ DOMAIN r = {"base", "lastDay", "inputs", "converted", "audit", "sources"}
    /\ Len(r.converted) \in Nat
    /\ r.converted = [k \in 1..Len(r.converted) |-> InBase(r.base, r.inputs[k], rs)]
    /\ \A k \in Traded(r) : /\ KeyIn(r.base, r.inputs[k]) \in DOMAIN rs /\ NonNegative(r.inputs[k])
                            /\ ValidEntry(EntryFor(r.base, r.inputs[k], rs))
    /\ r.audit \in Seq({EntryFor(r.base, r.inputs[k], rs) : k \in Traded(r)})
    /\ Len(r.audit) = Cardinality(Traded(r))
    /\ {r.audit[j].evidence : j \in DOMAIN r.audit} = RatesOf(r, rs)
    /\ r.sources \in Seq(RatesOf(r, rs))
    /\ ToSet(r.sources) = RatesOf(r, rs)
    /\ \A m, n \in DOMAIN r.sources : r.sources[m] = r.sources[n] => m = n

\* One more element, whatever they are.
LEMMA OneMore ==
    ASSUME NEW c, NEW n \in Nat, NEW x, Len(c) = n, c = [k \in 1..n |-> c[k]]
    PROVE  /\ Len(Append(c, x)) = n + 1
           /\ Append(c, x) = [k \in 1..n + 1 |-> IF k <= n THEN c[k] ELSE x]
<1> DEFINE S == {c[k] : k \in 1..n} \cup {x}
<1>1. c \in [1..n -> S] /\ x \in S
  BY Zenon
<1>2. c \in Seq(S)
  BY <1>1, SeqDef
<1> HIDE DEF S
<1>3. /\ Append(c, x) \in Seq(S) /\ Len(Append(c, x)) = n + 1
      /\ \A k \in 1..n : Append(c, x)[k] = c[k]
      /\ Append(c, x)[n + 1] = x
  BY <1>1, <1>2, AppendProperties
<1>4. DOMAIN Append(c, x) = 1..n + 1 /\ Append(c, x) \in [1..n + 1 -> S]
  BY <1>3, LenProperties
<1> DEFINE d == Append(c, x)
<1> HIDE DEF d
<1>5. d = [k \in 1..n + 1 |-> d[k]]
  BY <1>4 DEF d
<1>6. ASSUME NEW k \in 1..n + 1 PROVE d[k] = IF k <= n THEN c[k] ELSE x
  BY <1>3 DEF d
<1>7. d = [k \in 1..n + 1 |-> IF k <= n THEN c[k] ELSE x]
  BY <1>5, <1>6
<1> QED BY <1>3, <1>7 DEF d

LEMMA SameRateSame ==
    ASSUME NEW base, NEW input, NEW rs, NEW more,
           ForeignIn(base, input) => RateFor(base, input, more) = RateFor(base, input, rs)
    PROVE  InBase(base, input, more) = InBase(base, input, rs)
  BY DEF InBase

\* What is made of a report stays as it is while more rates are kept.
LEMMA MadeStays ==
    ASSUME NEW r, NEW rs, NEW more, Made(r, rs),
           DOMAIN rs \subseteq DOMAIN more, \A key \in DOMAIN rs : more[key] = rs[key]
    PROVE  Made(r, more)
<1>1. \A k \in Traded(r) : /\ RateFor(r.base, r.inputs[k], more) = RateFor(r.base, r.inputs[k], rs)
                           /\ EntryFor(r.base, r.inputs[k], more) = EntryFor(r.base, r.inputs[k], rs)
                           /\ KeyIn(r.base, r.inputs[k]) \in DOMAIN more
  BY DEF Made, RateFor, EntryFor
<1>2. ASSUME NEW k \in 1..Len(r.converted)
      PROVE  InBase(r.base, r.inputs[k], more) = InBase(r.base, r.inputs[k], rs)
  <2> DEFINE input == r.inputs[k]
  <2>1. ForeignIn(r.base, input) => RateFor(r.base, input, more) = RateFor(r.base, input, rs)
    BY <1>1 DEF Traded
  <2> HIDE DEF input
  <2>2. InBase(r.base, input, more) = InBase(r.base, input, rs)
    BY <2>1, SameRateSame
  <2> QED BY <2>2 DEF input
<1>3. /\ RatesOf(r, more) = RatesOf(r, rs)
      /\ {EntryFor(r.base, r.inputs[k], more) : k \in Traded(r)} = {EntryFor(r.base, r.inputs[k], rs) : k \in Traded(r)}
  BY <1>1 DEF RatesOf
<1>4. [k \in 1..Len(r.converted) |-> InBase(r.base, r.inputs[k], more)] = [k \in 1..Len(r.converted) |-> InBase(r.base, r.inputs[k], rs)]
  BY <1>2
<1> QED BY <1>1, <1>3, <1>4 DEF Made

\* An input in the base currency is kept as it is.
LEMMA MadeAsIs ==
    ASSUME NEW r, NEW rs, Made(r, rs), NEW input,
           input = r.inputs[Len(r.converted) + 1], ~ForeignIn(r.base, input),
           NEW t, DOMAIN t = DOMAIN r, t.inputs = r.inputs, t.base = r.base,
           t.audit = r.audit, t.sources = r.sources,
           t.converted = Append(r.converted, InBase(r.base, input, rs))
    PROVE  Made(t, rs) /\ Len(t.converted) = Len(r.converted) + 1
<1> DEFINE n == Len(r.converted)
           x == InBase(r.base, input, rs)
<1>1. n \in Nat /\ r.converted = [k \in 1..n |-> r.converted[k]]
      /\ \A k \in 1..n : r.converted[k] = InBase(r.base, r.inputs[k], rs)
  BY DEF Made
<1>2. /\ t.converted = Append(r.converted, x)
      /\ t.inputs = r.inputs /\ t.base = r.base /\ t.audit = r.audit /\ t.sources = r.sources
      /\ DOMAIN t = DOMAIN r
  OBVIOUS
<1>3. Len(t.converted) = n + 1 /\ t.converted = [k \in 1..n + 1 |-> IF k <= n THEN r.converted[k] ELSE x]
  BY <1>1, <1>2, OneMore
<1>4. InBase(t.base, t.inputs[n + 1], rs) = x
  BY <1>2
<1>5. \A k \in 1..n : t.converted[k] = InBase(t.base, t.inputs[k], rs)
  BY <1>1, <1>2, <1>3
<1>6. Traded(t) = Traded(r)
  BY <1>1, <1>2, <1>3 DEF Traded
<1>7. t.converted = [k \in 1..n + 1 |-> InBase(t.base, t.inputs[k], rs)]
  BY <1>1, <1>3, <1>4, <1>5
<1>8. /\ RatesOf(t, rs) = RatesOf(r, rs)
      /\ {EntryFor(t.base, t.inputs[k], rs) : k \in Traded(t)} = {EntryFor(r.base, r.inputs[k], rs) : k \in Traded(r)}
  BY <1>2, <1>6 DEF RatesOf
<1> HIDE DEF n
<1>9. \A k \in Traded(t) : /\ KeyIn(t.base, t.inputs[k]) \in DOMAIN rs /\ NonNegative(t.inputs[k])
                           /\ ValidEntry(EntryFor(t.base, t.inputs[k], rs))
  BY <1>2, <1>6 DEF Made
<1>10. /\ t.audit \in Seq({EntryFor(t.base, t.inputs[k], rs) : k \in Traded(t)})
       /\ Len(t.audit) = Cardinality(Traded(t))
       /\ {t.audit[j].evidence : j \in DOMAIN t.audit} = RatesOf(t, rs)
       /\ t.sources \in Seq(RatesOf(t, rs)) /\ ToSet(t.sources) = RatesOf(t, rs)
       /\ \A k, j \in DOMAIN t.sources : t.sources[k] = t.sources[j] => k = j
  BY <1>2, <1>6, <1>8 DEF Made
<1>11. t.converted = [k \in 1..Len(t.converted) |-> InBase(t.base, t.inputs[k], rs)] /\ Len(t.converted) \in Nat
  BY <1>1, <1>3, <1>7
<1>12. DOMAIN t = {"base", "lastDay", "inputs", "converted", "audit", "sources"}
  BY <1>2 DEF Made
<1> QED BY <1>3, <1>9, <1>10, <1>11, <1>12 DEF Made, n

\* A foreign one is converted, audited, and its rate listed.
LEMMA MadeConverted ==
    ASSUME NEW r, NEW rs, Made(r, rs), NEW input,
           input = r.inputs[Len(r.converted) + 1], ForeignIn(r.base, input),
           KeyIn(r.base, input) \in DOMAIN rs, NonNegative(input),
           NEW e, e = rs[KeyIn(r.base, input)], ValidEntry(AuditEntry(input, e)),
           NEW t, DOMAIN t = DOMAIN r, t.inputs = r.inputs, t.base = r.base,
           t.converted = Append(r.converted, AtRate(r.base, input, e)), t.audit = Append(r.audit, AuditEntry(input, e)),
           t.sources = Listed(r.sources, e)
    PROVE  Made(t, rs) /\ Len(t.converted) = Len(r.converted) + 1
<1> DEFINE n == Len(r.converted)
           x == AtRate(r.base, input, e)
           entry == AuditEntry(input, e)
           was == RatesOf(r, rs)
           entries == {EntryFor(r.base, r.inputs[k], rs) : k \in Traded(r)}
<1>1. n \in Nat /\ r.converted = [k \in 1..n |-> r.converted[k]]
      /\ \A k \in 1..n : r.converted[k] = InBase(r.base, r.inputs[k], rs)
  BY DEF Made
<1>2. /\ t.converted = Append(r.converted, x)
      /\ t.inputs = r.inputs /\ t.base = r.base
      /\ t.audit = Append(r.audit, entry) /\ t.sources = Listed(r.sources, e)
      /\ DOMAIN t = DOMAIN r
  OBVIOUS
<1> HIDE DEF x
<1>3. Len(t.converted) = n + 1 /\ t.converted = [k \in 1..n + 1 |-> IF k <= n THEN r.converted[k] ELSE x]
  BY <1>1, <1>2, OneMore
<1>4. /\ InBase(t.base, t.inputs[n + 1], rs) = x /\ RateFor(t.base, t.inputs[n + 1], rs) = e
      /\ EntryFor(t.base, t.inputs[n + 1], rs) = entry
  BY <1>2 DEF InBase, RateFor, EntryFor, x
<1>5. \A k \in 1..n : t.converted[k] = InBase(t.base, t.inputs[k], rs)
  BY <1>1, <1>2, <1>3
<1>6. Traded(t) = Traded(r) \cup {n + 1} /\ n + 1 \notin Traded(r)
  BY <1>1, <1>2, <1>3 DEF Traded
<1>7. t.converted = [k \in 1..n + 1 |-> InBase(t.base, t.inputs[k], rs)]
  BY <1>1, <1>3, <1>4, <1>5
<1>8. /\ RatesOf(t, rs) = was \cup {e}
      /\ {EntryFor(t.base, t.inputs[k], rs) : k \in Traded(t)} = entries \cup {entry}
  <2> HIDE DEF n, entry
  <2> QED BY <1>2, <1>4, <1>6 DEF RatesOf
<1>9. \A k \in Traded(t) : /\ KeyIn(t.base, t.inputs[k]) \in DOMAIN rs /\ NonNegative(t.inputs[k])
                           /\ ValidEntry(EntryFor(t.base, t.inputs[k], rs))
  <2> HIDE DEF n, entry
  <2>1. entry = EntryFor(t.base, t.inputs[n + 1], rs) /\ ValidEntry(entry)
    BY <1>4 DEF entry
  <2> QED BY <1>2, <1>6, <2>1 DEF Made, n
<1>10. /\ r.audit \in Seq(entries) /\ Len(r.audit) = Cardinality(Traded(r))
       /\ {r.audit[j].evidence : j \in DOMAIN r.audit} = was
       /\ r.sources \in Seq(was) /\ ToSet(r.sources) = was
       /\ \A k, j \in DOMAIN r.sources : r.sources[k] = r.sources[j] => k = j
  BY DEF Made
<1>11. entry.evidence = e
  BY DEF AuditEntry
<1>12. IsFiniteSet(Traded(r)) /\ Cardinality(Traded(t)) = Cardinality(Traded(r)) + 1
  <2>1. Traded(r) \subseteq 1..n
    BY DEF Traded
  <2>3. IsFiniteSet(1..n)
    BY <1>1, FS_Interval
  <2>2. IsFiniteSet(Traded(r))
    BY <2>1, <2>3, FS_Subset
  <2> HIDE DEF n
  <2> QED BY <1>6, <2>2, FS_AddElement
<1> HIDE DEF n, entry, was, entries
<1>13. /\ t.audit \in Seq(entries \cup {entry}) /\ Len(t.audit) = Len(r.audit) + 1
       /\ {t.audit[j].evidence : j \in DOMAIN t.audit} = was \cup {e}
  <2>1. r.audit \in Seq(entries \cup {entry}) /\ entry \in entries \cup {entry}
    BY <1>10, SeqMonotonic
  <2> DEFINE m == Len(r.audit)
  <2>2. /\ t.audit \in Seq(entries \cup {entry}) /\ Len(t.audit) = m + 1 /\ m \in Nat
        /\ \A j \in 1..m : t.audit[j] = r.audit[j]
        /\ t.audit[m + 1] = entry
    BY <1>2, <2>1, AppendProperties, LenProperties
  <2>3. DOMAIN r.audit = 1..m /\ DOMAIN t.audit = 1..m + 1
    BY <2>1, <2>2, LenProperties
  <2> HIDE DEF m
  <2>4. 1..m + 1 = 1..m \cup {m + 1}
    BY <2>2
  <2>5. {t.audit[j].evidence : j \in DOMAIN t.audit} = {r.audit[j].evidence : j \in DOMAIN r.audit} \cup {e}
    BY <2>2, <2>3, <2>4, <1>11
  <2> QED BY <1>10, <2>2, <2>5 DEF m
<1>14. /\ t.sources \in Seq(was \cup {e}) /\ ToSet(t.sources) = was \cup {e}
       /\ \A k, j \in DOMAIN t.sources : t.sources[k] = t.sources[j] => k = j
  <2> DEFINE m == Len(r.sources)
  <2>1. m \in Nat /\ DOMAIN r.sources = 1..m
    BY <1>10, LenProperties
  <2>2. Contains(r.sources, e) <=> e \in was
    BY <1>10, <2>1 DEF Contains, ToSet
  <2>3. CASE e \in was
    <3>1. t.sources = r.sources /\ was \cup {e} = was
      BY <1>2, <2>2, <2>3 DEF Listed
    <3> QED BY <1>10, <3>1
  <2>4. CASE e \notin was
    <3>1. t.sources = Append(r.sources, e)
      BY <1>2, <2>2, <2>4 DEF Listed
    <3>2. r.sources \in Seq(was \cup {e}) /\ e \in was \cup {e}
      BY <1>10, SeqMonotonic
    <3>3. /\ t.sources \in Seq(was \cup {e}) /\ Len(t.sources) = m + 1
          /\ \A j \in 1..m : t.sources[j] = r.sources[j]
          /\ t.sources[m + 1] = e
      BY <3>1, <3>2, AppendProperties
    <3>4. DOMAIN t.sources = 1..m + 1
      BY <3>3, LenProperties
    <3>5. \A j \in 1..m : r.sources[j] \in was
      BY <1>10, <2>1 DEF ToSet
    <3> HIDE DEF m
    <3>6. 1..m + 1 = 1..m \cup {m + 1}
      BY <2>1
    <3>7. ToSet(t.sources) = was \cup {e}
      <4>1. was = {t.sources[j] : j \in 1..m}
        <5>1. was = {r.sources[j] : j \in 1..m}
          BY <1>10, <2>1 DEF ToSet
        <5> QED BY <3>3, <5>1
      <4> QED BY <3>3, <3>4, <3>6, <4>1 DEF ToSet
    <3>8. ASSUME NEW k \in DOMAIN t.sources, NEW j \in DOMAIN t.sources, t.sources[k] = t.sources[j]
          PROVE  k = j
      <4>1. \A i \in 1..m : t.sources[i] # t.sources[m + 1]
        BY <2>4, <3>3, <3>5
      <4>2. \A i, l \in 1..m : t.sources[i] = t.sources[l] => i = l
        BY <1>10, <2>1, <3>3
      <4> QED BY <3>4, <3>6, <3>8, <4>1, <4>2
    <3> QED BY <3>3, <3>7, <3>8
  <2> QED BY <2>3, <2>4
<1>15. Len(t.audit) = Cardinality(Traded(t))
  BY <1>10, <1>12, <1>13
<1>16. t.converted = [k \in 1..Len(t.converted) |-> InBase(t.base, t.inputs[k], rs)] /\ Len(t.converted) \in Nat
  BY <1>1, <1>3, <1>7
<1>17. DOMAIN t = {"base", "lastDay", "inputs", "converted", "audit", "sources"}
  BY <1>2 DEF Made
<1> QED BY <1>3, <1>8, <1>9, <1>13, <1>14, <1>15, <1>16, <1>17 DEF Made, n

\* The records of a report have places among its inputs, the order of the history
\* kept within an asset.
LEMMA Places ==
    ASSUME NEW s \in Histories, NEW last,
           \A k \in ReadThrough(s, last) : HasInput(s[k])
    PROVE  \E place \in [ReadThrough(s, last) -> DOMAIN InputsThrough(s, last)] :
              /\ \A k \in ReadThrough(s, last) : InputsThrough(s, last)[place[k]] = Input(s[k])
              /\ \A j, k \in ReadThrough(s, last) : j < k =>
                    place[j] # place[k] /\ (s[j].asset = s[k].asset => place[j] < place[k])
<1> DEFINE read == ReadThrough(s, last)
           N == Cardinality(read)
           order == InputOrder(s, last)
           place == [k \in read |-> CHOOSE m \in 1..N : order[m] = k]
<1>1. N \in Nat /\ order \in [1..N -> read]
  BY OrderedOnce
<1>2. \A k \in read : \E m \in 1..N : order[m] = k
  BY <1>1, OrderedOnce
<1>3. \A m, n \in 1..N : m < n /\ s[order[m]].asset = s[order[n]].asset => order[m] < order[n]
  BY <1>1, OrderedOnce
<1>4. InputsThrough(s, last) = [n \in 1..N |-> Input(s[order[n]])]
  BY <1>1 DEF InputsThrough
<1>5. \A k \in read : k \in Int
  BY RatesAssumption DEF ReadThrough
<1> HIDE DEF N, order, read
<1>6. \A k \in read : place[k] \in 1..N /\ order[place[k]] = k
  BY <1>2
<1>7. place \in [read -> 1..N]
  BY <1>6
<1> HIDE DEF place
<1>8. \A k \in read : InputsThrough(s, last)[place[k]] = Input(s[k])
  BY <1>4, <1>6
<1>9. ASSUME NEW j \in read, NEW k \in read, j < k
      PROVE  place[j] # place[k] /\ (s[j].asset = s[k].asset => place[j] < place[k])
  <2>1. place[j] # place[k]
    BY <1>5, <1>6, <1>9
  <2>2. ASSUME s[j].asset = s[k].asset, ~(place[j] < place[k]) PROVE FALSE
    <3>1. place[k] < place[j]
      BY <1>1, <1>6, <2>1, <2>2
    <3>2. order[place[k]] < order[place[j]]
      BY <1>3, <1>6, <2>2, <3>1
    <3> QED BY <1>5, <1>6, <1>9, <3>2
  <2> QED BY <2>1, <2>2
<1>10. place \in [read -> DOMAIN InputsThrough(s, last)]
  BY <1>4, <1>7
<1> QED BY <1>8, <1>9, <1>10 DEF read

AsIs(base, input) == [input EXCEPT !.currency = base]

\* An input at a rate is that input but for its currency and its amounts.
LEMMA AtRateShape ==
    ASSUME NEW base, NEW input, NEW e,
           DOMAIN input = {"id", "asset", "day", "zero", "currency", "unit", "gross", "fee"}
    PROVE  /\ AtRate(base, input, e).unit = Converted(input.unit, e)
           /\ AtRate(base, input, e).gross = Converted(input.gross, e)
           /\ AtRate(base, input, e).fee = Converted(input.fee, e)
           /\ AtRate(base, input, e).currency = base
           /\ Besides(AtRate(base, input, e)) = Besides(AsIs(base, input))
<1> DEFINE u == Converted(input.unit, e)
           g == Converted(input.gross, e)
           f == Converted(input.fee, e)
           x == [input EXCEPT !.currency = base, !.unit = u, !.gross = g, !.fee = f]
<1>1. AtRate(base, input, e) = x
  BY DEF AtRate
<1> HIDE DEF u, g, f
<1>2. /\ DOMAIN x = DOMAIN input /\ x.unit = u /\ x.gross = g /\ x.fee = f /\ x.currency = base
      /\ x.id = input.id /\ x.asset = input.asset /\ x.day = input.day /\ x.zero = input.zero
      /\ x = [field \in DOMAIN input |-> x[field]]
  OBVIOUS
<1> HIDE DEF x
<1> DEFINE a == [x EXCEPT !.unit = None, !.gross = None, !.fee = None]
           i == [input EXCEPT !.currency = base]
           b == [i EXCEPT !.unit = None, !.gross = None, !.fee = None]
<1>3. /\ DOMAIN a = DOMAIN x /\ a = [field \in DOMAIN x |-> a[field]]
      /\ a.unit = None /\ a.gross = None /\ a.fee = None /\ a.currency = x.currency
      /\ a.id = x.id /\ a.asset = x.asset /\ a.day = x.day /\ a.zero = x.zero
  BY <1>2
<1>4. /\ DOMAIN b = DOMAIN input /\ b = [field \in DOMAIN input |-> b[field]]
      /\ b.unit = None /\ b.gross = None /\ b.fee = None /\ b.currency = base
      /\ b.id = input.id /\ b.asset = input.asset /\ b.day = input.day /\ b.zero = input.zero
  OBVIOUS
<1> HIDE DEF a, b
<1>5. a = b
  <2>1. \A field \in DOMAIN input : a[field] = b[field]
    BY <1>2, <1>3, <1>4
  <2> QED BY <1>2, <1>3, <1>4, <2>1
<1>6. Besides(x) = a /\ Besides(AsIs(base, input)) = b
  BY DEF a, b, Besides, AsIs
<1> QED BY <1>1, <1>2, <1>5, <1>6 DEF x, u, g, f

\* A report whose inputs are all converted is whole.
LEMMA MadeWhole ==
    ASSUME NEW f, NEW rs, f.history \in Histories, Made(f.report, rs), f.report.base \in Bases,
           f.report.inputs = InputsThrough(f.history, f.report.lastDay),
           \A k \in ReadThrough(f.history, f.report.lastDay) : HasInput(f.history[k]),
           Len(f.report.converted) = Len(f.report.inputs),
           \A key \in DOMAIN rs : KeyOf(rs[key]) = key /\ rs[key] \in Evidences
    PROVE  WholeReport(f)
<1> DEFINE r == f.report
           s == f.history
           read == ReadThrough(s, r.lastDay)
           foreign == {k \in DOMAIN r.inputs : ~r.inputs[k].zero /\ r.inputs[k].currency # r.base}
           used(k) == {e \in ToSet(r.sources) : KeyOf(e) = [source |-> r.inputs[k].currency,
                                                 base |-> r.base, day |-> r.inputs[k].day]}
<1>1. /\ Len(r.inputs) \in Nat /\ Len(r.inputs) = Cardinality(read) /\ DOMAIN r.inputs = 1..Len(r.inputs)
      /\ \A k \in DOMAIN r.inputs : \E j \in DOMAIN s :
            r.inputs[k] = Input(s[j]) /\ WellFormed(s[j]) /\ HasInput(s[j]) /\ s[j].day \in Days
  BY InputsAreRead
<1>2. ReadBy(f) = read
  BY DEF ReadBy
<1>3. \E place \in [read -> DOMAIN r.inputs] :
         /\ \A k \in read : r.inputs[place[k]] = Input(s[k])
         /\ \A j, k \in read : j < k =>
               place[j] # place[k] /\ (s[j].asset = s[k].asset => place[j] < place[k])
  BY Places
<1>4. foreign = Traded(r)
  BY <1>1 DEF Traded, ForeignIn
<1>5. \A k \in DOMAIN r.inputs \ foreign : r.converted[k] = [r.inputs[k] EXCEPT !.currency = r.base]
  <2> SUFFICES ASSUME NEW k \in DOMAIN r.inputs, k \notin foreign
               PROVE  r.converted[k] = [r.inputs[k] EXCEPT !.currency = r.base]
    OBVIOUS
  <2> DEFINE input == r.inputs[k]
  <2>1. r.converted[k] = InBase(r.base, input, rs)
    BY <1>1 DEF Made
  <2>2. ~ForeignIn(r.base, input)
    BY DEF ForeignIn
  <2> HIDE DEF input
  <2>3. r.converted[k] = [input EXCEPT !.currency = r.base]
    BY <2>1, <2>2 DEF InBase
  <2> QED BY <2>3 DEF input
<1>6. ASSUME NEW k \in foreign
      PROVE  \E e \in used(k) :
                /\ used(k) = {e} /\ NonNegative(r.converted[k])
                /\ Besides(r.converted[k]) = Besides([r.inputs[k] EXCEPT !.currency = r.base])
                /\ \A field \in {"unit", "gross", "fee"} :
                      Worth(r.inputs[k][field], r.converted[k][field], e)
  <2> DEFINE input == r.inputs[k]
             e == RateFor(r.base, input, rs)
             c == r.converted[k]
  <2>1. k \in Traded(r) /\ k \in DOMAIN r.inputs /\ ForeignIn(r.base, input)
    BY <1>4 DEF Traded
  <2>2. KeyIn(r.base, input) \in DOMAIN rs /\ NonNegative(input) /\ ValidEntry(AuditEntry(input, e))
    BY <2>1 DEF Made, EntryFor
  <2>3. /\ DOMAIN input = {"id", "asset", "day", "zero", "currency", "unit", "gross", "fee"}
        /\ input.unit \in Amounts /\ input.gross \in Amounts /\ input.fee \in Amounts
    BY <1>1, <2>1, InputShape DEF ForeignIn
  <2>4. c = AtRate(r.base, input, e)
    BY <1>1, <2>1 DEF Made, InBase
  <2>5. e.rate \in Int /\ e.rate > 0 /\ e.direction \in {"source_per_base", "base_per_source"}
    <3>1. e \in Evidences
      BY <2>2 DEF RateFor
    <3>2. ValidEvidence(e)
      BY <2>2 DEF ValidEntry, AuditEntry
    <3> HIDE DEF e
    <3> QED BY <3>1, <3>2 DEF Evidences, ValidEvidence, IsRate
  <2>6. KeyOf(e) = KeyIn(r.base, input) /\ e \in ToSet(r.sources)
    BY <2>1, <2>2 DEF Made, RatesOf, RateFor
  <2>7. \A d \in ToSet(r.sources) : \E key \in DOMAIN rs : d = rs[key] /\ KeyOf(d) = key
    BY DEF Made, RatesOf, RateFor
  <2>8. used(k) = {e}
    BY <2>6, <2>7 DEF KeyIn, RateFor
  <2> HIDE DEF input, e, c
  <2>13. /\ AtRate(r.base, input, e).unit = Converted(input.unit, e)
         /\ AtRate(r.base, input, e).gross = Converted(input.gross, e)
         /\ AtRate(r.base, input, e).fee = Converted(input.fee, e)
         /\ Besides(AtRate(r.base, input, e)) = Besides(AsIs(r.base, input))
    BY <2>3, AtRateShape
  <2>9. /\ Worth(input.unit, c.unit, e) /\ Worth(input.gross, c.gross, e) /\ Worth(input.fee, c.fee, e)
        /\ NonNegative(c)
    <3>1. c.unit = Converted(input.unit, e) /\ c.gross = Converted(input.gross, e) /\ c.fee = Converted(input.fee, e)
      BY <2>4, <2>13, Zenon
    <3>2. /\ \A j \in DOMAIN input.unit : input.unit[j] >= 0
          /\ \A j \in DOMAIN input.gross : input.gross[j] >= 0
          /\ \A j \in DOMAIN input.fee : input.fee[j] >= 0
      BY <2>2 DEF NonNegative
    <3>3. Worth(input.unit, c.unit, e) /\ \A j \in DOMAIN c.unit : c.unit[j] >= 0
      BY <2>3, <2>5, <3>1, <3>2, ConvertedWorth
    <3>4. Worth(input.gross, c.gross, e) /\ \A j \in DOMAIN c.gross : c.gross[j] >= 0
      BY <2>3, <2>5, <3>1, <3>2, ConvertedWorth
    <3>5. Worth(input.fee, c.fee, e) /\ \A j \in DOMAIN c.fee : c.fee[j] >= 0
      BY <2>3, <2>5, <3>1, <3>2, ConvertedWorth
    <3> QED BY <3>3, <3>4, <3>5 DEF NonNegative
  <2>10. \A field \in {"unit", "gross", "fee"} : Worth(input[field], c[field], e)
    BY <2>9
  <2>11. Besides(c) = Besides([input EXCEPT !.currency = r.base])
    BY <2>4, <2>13, Zenon DEF AsIs
  <2>12. e \in used(k)
    BY <2>8
  <2> QED BY <2>8, <2>9, <2>10, <2>11, <2>12 DEF input, c
<1>7. Len(r.audit) = Cardinality(foreign) /\ ToSet(r.sources) = {r.audit[k].evidence : k \in DOMAIN r.audit}
  BY <1>4 DEF Made
<1>8. Len(r.sources) = Cardinality({KeyOf(e) : e \in ToSet(r.sources)})
  <2> DEFINE n == Len(r.sources)
             T == {KeyOf(e) : e \in ToSet(r.sources)}
             g == [j \in 1..n |-> KeyOf(r.sources[j])]
  <2>1. n \in Nat /\ DOMAIN r.sources = 1..n
    BY LenProperties DEF Made
  <2>2. \A j \in 1..n : r.sources[j] \in ToSet(r.sources)
    BY <2>1 DEF ToSet
  <2>3. \A d \in ToSet(r.sources) : \E key \in DOMAIN rs : d = rs[key] /\ KeyOf(d) = key
    BY DEF Made, RatesOf, RateFor
  <2>4. \A j, k \in 1..n : g[j] = g[k] => j = k
    <3>1. \A j, k \in DOMAIN r.sources : r.sources[j] = r.sources[k] => j = k
      BY DEF Made
    <3> QED BY <2>1, <2>2, <2>3, <3>1
  <2>5. \A t \in T : \E j \in 1..n : g[j] = t
    BY <2>1 DEF ToSet
  <2>6. g \in [1..n -> T]
    BY <2>2
  <2> HIDE DEF n, T, g
  <2>7. g \in Bijection(1..n, T)
    BY <2>4, <2>5, <2>6 DEF Bijection, Injection, Surjection, IsInjective
  <2>8. ExistsBijection(1..n, T)
    BY <2>7 DEF ExistsBijection
  <2>9. Cardinality(T) = n
    BY <2>1, <2>8, FS_CountingElements
  <2> QED BY <2>9 DEF n, T
<1> HIDE DEF read
<1>9. /\ Len(r.inputs) = Cardinality(ReadBy(f)) /\ Len(r.converted) = Len(r.inputs)
      /\ \E place \in [ReadBy(f) -> DOMAIN r.inputs] :
            /\ \A k \in ReadBy(f) : r.inputs[place[k]] = Input(f.history[k])
            /\ \A j, k \in ReadBy(f) : j < k =>
                  place[j] # place[k] /\ (f.history[j].asset = f.history[k].asset => place[j] < place[k])
  BY <1>1, <1>2, <1>3
<1> QED BY <1>5, <1>6, <1>7, <1>8, <1>9 DEF WholeReport

\* With no two activities of one source id, a report whose inputs are all
\* converted passes its own checks.
LEMMA MadeChecked ==
    ASSUME NEW r, NEW rs, NEW s \in Histories, Made(r, rs),
           r.inputs = InputsThrough(s, r.lastDay),
           \A k \in ReadThrough(s, r.lastDay) : HasInput(s[k]),
           Len(r.converted) = Len(r.inputs),
           \A key \in DOMAIN rs : KeyOf(rs[key]) = key,
           \A j, k \in DOMAIN s : s[j].id = s[k].id => j = k
    PROVE  OneCurrency(r.converted) /\ Checked(r)
<1> DEFINE N == Len(r.inputs)
<1>1. /\ N \in Nat /\ DOMAIN r.inputs = 1..N
      /\ \A k \in 1..N : \E j \in DOMAIN s :
            r.inputs[k] = Input(s[j]) /\ WellFormed(s[j]) /\ HasInput(s[j])
  BY InputsAreRead
<1>2. ASSUME NEW k \in 1..N PROVE r.converted[k].currency = r.base
  <2> DEFINE input == r.inputs[k]
             c == r.converted[k]
  <2>1. c = InBase(r.base, input, rs)
    BY <1>1 DEF Made
  <2>2. DOMAIN input = {"id", "asset", "day", "zero", "currency", "unit", "gross", "fee"}
    BY <1>1, InputShape
  <2> HIDE DEF input, c
  <2>3. CASE ForeignIn(r.base, input)
    <3>1. c = AtRate(r.base, input, RateFor(r.base, input, rs))
      BY <2>1, <2>3 DEF InBase
    <3> DEFINE e == RateFor(r.base, input, rs)
    <3> HIDE DEF e
    <3>2. AtRate(r.base, input, e).currency = r.base
      BY <2>2, AtRateShape
    <3> QED BY <3>1, <3>2 DEF c, e
  <2>4. CASE ~ForeignIn(r.base, input)
    <3>1. c = [input EXCEPT !.currency = r.base]
      BY <2>1, <2>4 DEF InBase
    <3> QED BY <2>2, <3>1 DEF c
  <2> QED BY <2>3, <2>4
<1>3. OneCurrency(r.converted)
  <2>1. DOMAIN r.converted = 1..N
    BY DEF Made
  <2> QED BY <1>2, <2>1 DEF OneCurrency
<1>4. ASSUME NEW e \in RatesOf(r, rs)
      PROVE  ValidEvidence(e) /\ e.base = r.base /\ Contains(r.sources, e)
  <2>1. PICK k \in Traded(r) : e = RateFor(r.base, r.inputs[k], rs)
    BY DEF RatesOf
  <2>2. KeyOf(e) = KeyIn(r.base, r.inputs[k])
    BY <2>1 DEF Made, RateFor
  <2>3. ValidEvidence(e)
    BY <2>1 DEF Made, EntryFor, ValidEntry, AuditEntry
  <2>4. e \in ToSet(r.sources) /\ DOMAIN r.sources = 1..Len(r.sources)
    BY LenProperties DEF Made
  <2> QED BY <2>2, <2>3, <2>4 DEF KeyOf, KeyIn, ToSet, Contains
<1>5. \A e \in ToSet(r.sources) : ValidEvidence(e) /\ e.base = r.base
  BY <1>4 DEF Made
<1>6. ASSUME NEW entry \in ToSet(r.audit)
      PROVE  ValidEntry(entry) /\ Contains(r.sources, entry.evidence) /\ entry.id \notin SameCurrencyRows(r)
  <2>1. PICK k \in Traded(r) : entry = EntryFor(r.base, r.inputs[k], rs)
    <3>1. r.audit \in Seq({EntryFor(r.base, r.inputs[k], rs) : k \in Traded(r)})
      BY DEF Made
    <3> DEFINE T == {EntryFor(r.base, r.inputs[k], rs) : k \in Traded(r)}
    <3>2. entry \in T
      <4> HIDE DEF T
      <4> QED BY <3>1 DEF ToSet, T
    <3> QED BY <3>2
  <2>2. ValidEntry(entry)
    BY <2>1 DEF Made
  <2>3. entry.evidence \in RatesOf(r, rs) /\ entry.id = r.inputs[k].id
    BY <2>1 DEF EntryFor, AuditEntry, RatesOf
  <2>4. ASSUME entry.id \in SameCurrencyRows(r) PROVE FALSE
    <3>1. PICK j \in DOMAIN r.inputs : r.inputs[j].id = entry.id /\ r.inputs[j].currency = r.base
      BY <2>4 DEF SameCurrencyRows
    <3>2. PICK a \in DOMAIN s : r.inputs[j] = Input(s[a]) /\ WellFormed(s[a]) /\ HasInput(s[a])
      BY <1>1, <3>1
    <3>3. k \in 1..N /\ ForeignIn(r.base, r.inputs[k])
      BY <2>1 DEF Traded
    <3>4. PICK b \in DOMAIN s : r.inputs[k] = Input(s[b]) /\ WellFormed(s[b]) /\ HasInput(s[b])
      BY <1>1, <3>3
    <3>5. s[a].id = s[b].id
      BY <2>3, <3>1, <3>2, <3>4, InputShape
    <3>6. r.inputs[j] = r.inputs[k]
      BY <3>2, <3>4, <3>5
    <3> QED BY <3>1, <3>3, <3>6 DEF ForeignIn
  <2> QED BY <1>4, <2>2, <2>3, <2>4
<1> QED BY <1>3, <1>5, <1>6 DEF Checked

\* A report with nothing converted yet.
LEMMA MadeFresh ==
    ASSUME NEW r, NEW rs, r.converted = <<>>, r.audit = <<>>, r.sources = <<>>,
           DOMAIN r = {"base", "lastDay", "inputs", "converted", "audit", "sources"}
    PROVE  Made(r, rs) /\ Len(r.converted) = 0
<1>1. Len(r.converted) = 0 /\ 1..0 = {} /\ Len(r.audit) = 0 /\ DOMAIN r.audit = {} /\ DOMAIN r.sources = {}
  OBVIOUS
<1>2. Traded(r) = {} /\ RatesOf(r, rs) = {}
  BY <1>1 DEF Traded, RatesOf
<1>3. r.converted = [k \in 1..Len(r.converted) |-> InBase(r.base, r.inputs[k], rs)]
  BY <1>1
<1>4. Cardinality(Traded(r)) = 0
  BY <1>2, FS_EmptySet
<1>5. /\ r.audit \in Seq({EntryFor(r.base, r.inputs[k], rs) : k \in Traded(r)})
      /\ r.sources \in Seq(RatesOf(r, rs))
  OBVIOUS
<1>6. {r.audit[j].evidence : j \in DOMAIN r.audit} = RatesOf(r, rs) /\ ToSet(r.sources) = RatesOf(r, rs)
  BY <1>1, <1>2 DEF ToSet
<1> QED BY <1>1, <1>2, <1>3, <1>4, <1>5, <1>6 DEF Made

\* With an answer for every day, or for those of the lookback only, the latest
\* observation is the latest rate there is on or before the day.
LEMMA LatestRate ==
    ASSUME NEW table, NEW day \in Int, NEW asked \in SUBSET Days,
           \A d \in Days : d <= day /\ d >= day - Lookback => d \in asked,
           NEW usable, usable \subseteq asked, usable # {},
           \A d \in usable : d <= day /\ IsRate(table[d]),
           \A d \in asked : d <= day /\ IsRate(table[d]) => d \in usable,
           asked = Days \/ \A d \in asked : d >= day - Lookback
    PROVE  /\ Max(usable) \in usable
           /\ Max(usable) = Max({d \in Days : d <= day /\ IsRate(table[d])})
<1> DEFINE W == {d \in Days : d <= day /\ IsRate(table[d])}
<1>1. \A d \in Days : d \in Nat
  BY RatesAssumption
<1>2. IsFiniteSet(W) /\ W \in SUBSET Int
  <2>1. W \subseteq 0..day
    BY <1>1
  <2>2. IsFiniteSet(0..day)
    BY FS_Interval
  <2>3. W \in SUBSET Int
    BY <1>1
  <2> HIDE DEF W
  <2>4. IsFiniteSet(W)
    BY <2>1, <2>2, FS_Subset
  <2> QED BY <2>3, <2>4
<1>3. usable \subseteq W
  OBVIOUS
<1>4. IsFiniteSet(usable) /\ usable \in SUBSET Int /\ W # {}
  BY <1>2, <1>3, FS_Subset
<1> DEFINE m == Max(usable)
           M == Max(W)
<1>5. m \in usable /\ \A d \in usable : m >= d
  BY <1>4, Extremes
<1>6. M \in W /\ \A d \in W : M >= d
  BY <1>2, <1>4, Extremes
<1> HIDE DEF m, M
<1>7. M >= m /\ m \in Int /\ M \in Int
  BY <1>1, <1>3, <1>5, <1>6
<1>8. M \in asked
  <2>1. CASE asked = Days
    BY <1>6, <2>1
  <2>2. CASE \A d \in asked : d >= day - Lookback
    <3>1. m >= day - Lookback
      BY <1>5, <2>2
    <3>2. M >= day - Lookback /\ M <= day /\ M \in Days
      BY <1>6, <1>7, <3>1, RatesAssumption
    <3> QED BY <3>2
  <2> QED BY <2>1, <2>2
<1>9. M \in usable
  BY <1>6, <1>8
<1>10. m = M
  BY <1>5, <1>7, <1>9
<1> QED BY <1>5, <1>10 DEF m, M
-----------------------------------------------------------------------------
\* Its inputs are those of the history, up to its year, and are converted in turn.
Reading ==
    /\ report.base \in Bases /\ Len(report.converted) <= Len(report.inputs)
    /\ phase = "idle" => report = NoReport
    /\ phase # "idle" =>
          /\ report.inputs = InputsThrough(unlocked, report.lastDay)
          /\ \A k \in ReadThrough(unlocked, report.lastDay) : HasInput(unlocked[k])
    /\ phase \in {"render", "save", "open"} => Len(report.converted) = Len(report.inputs)
    /\ phase = "ask" =>
          /\ Len(report.converted) < Len(report.inputs) /\ Foreign(NextInput)
          /\ NextInput.currency \in DOMAIN Directions[report.base]

\* The rates of RatesAsPublished, and the first part of it.
AsPublished(rs, tables) ==
    \A key \in DOMAIN rs :
        /\ KeyOf(rs[key]) = key
        /\ rs[key].date = Max({d \in Days : d <= key.day /\ IsRate(tables[key][d])})
        /\ rs[key].rate = tables[key][rs[key].date]

Session == /\ TypeOK /\ Reading /\ Made(report, rates) /\ AsPublished(rates, asOf)
           /\ \A f \in finished : WholeReport(f)

LEMMA AsPublishedIs == RatesAsPublished <=> AsPublished(rates, asOf)
  BY DEF RatesAsPublished, AsPublished

\* The next input is that of a record of the history.
LEMMA NextIsRead ==
    ASSUME TypeOK, Reading, Made(report, rates), phase # "idle",
           Len(report.converted) < Len(report.inputs)
    PROVE  /\ Len(report.converted) + 1 \in DOMAIN report.inputs
           /\ \E k \in DOMAIN unlocked : /\ NextInput = Input(unlocked[k]) /\ WellFormed(unlocked[k])
                                         /\ HasInput(unlocked[k]) /\ unlocked[k].day \in Days
<1>1. unlocked \in Histories
  BY DEF TypeOK
<1>2. /\ report.inputs = InputsThrough(unlocked, report.lastDay)
      /\ \A k \in ReadThrough(unlocked, report.lastDay) : HasInput(unlocked[k])
  BY DEF Reading
<1>3. /\ Len(report.inputs) \in Nat /\ DOMAIN report.inputs = 1..Len(report.inputs)
      /\ \A n \in DOMAIN report.inputs : \E k \in DOMAIN unlocked :
            /\ report.inputs[n] = Input(unlocked[k]) /\ WellFormed(unlocked[k])
            /\ HasInput(unlocked[k]) /\ unlocked[k].day \in Days
  BY <1>1, <1>2, InputsAreRead
<1>4. Len(report.converted) \in Nat
  BY DEF Made
<1> DEFINE n == Len(report.converted) + 1
<1>5. n \in DOMAIN report.inputs
  BY <1>3, <1>4
<1> HIDE DEF n
<1>6. \E k \in DOMAIN unlocked : /\ report.inputs[n] = Input(unlocked[k]) /\ WellFormed(unlocked[k])
                                 /\ HasInput(unlocked[k]) /\ unlocked[k].day \in Days
  BY <1>3, <1>5
<1> QED BY <1>5, <1>6 DEF n, NextInput

Ended(o) == /\ o.result \in {"none", "refused", "failed", "saved"} /\ o.reason \in Reasons
            /\ o.diagnostic \in Diagnostics \cup {"none"}

\* An attempt that ends leaves the session as it should be.
LEMMA EndsSession ==
    ASSUME Session, NEW o, Ends(o), Ended(o), asOf' = asOf, finished' = finished,
           attempt' \in 0..MaxReports
    PROVE  Session'
<1>1. /\ phase' = "idle" /\ outcome' = o /\ report' = NoReport /\ rates' = rates
      /\ published' = published /\ revisions' = revisions /\ unlocked' = unlocked
  BY DEF Ends, env
<1>2. NoReport.base \in Bases /\ Len(NoReport.converted) = 0 /\ Len(NoReport.inputs) = 0 /\ NoReport.sources = <<>>
  BY DEF NoReport, Bases
<1>3. Made(NoReport, rates)
  BY MadeFresh DEF NoReport
<1>4. ToSet(NoReport.sources) = {}
  BY <1>2 DEF ToSet
<1>5. TypeOK'
  BY <1>1, <1>2, <1>4 DEF Session, TypeOK, Ended
<1>6. Reading'
  BY <1>1, <1>2 DEF Reading
<1> QED BY <1>1, <1>3, <1>5, <1>6 DEF Session

\* So does one that fails.
LEMMA FailsSession ==
    ASSUME Session, NEW reason \in Reasons, NEW blamed, Fails(reason, blamed)
    PROVE  Session'
<1>1. PICK diagnostic \in Diagnostics :
         Ends([result |-> "failed", reason |-> reason, blamed |-> blamed,
               diagnostic |-> diagnostic])
  BY DEF Fails
<1>2. attempt' = attempt /\ asOf' = asOf /\ finished' = finished
  BY DEF Fails, hist
<1> DEFINE o == [result |-> "failed", reason |-> reason, blamed |-> blamed,
                 diagnostic |-> diagnostic]
<1>3. Ended(o)
  BY DEF Ended
<1> HIDE DEF o
<1>4. Ends(o)
  BY <1>1 DEF o
<1>5. attempt' \in 0..MaxReports
  BY <1>2 DEF Session, TypeOK
<1> QED BY <1>2, <1>3, <1>4, <1>5, EndsSession

\* And a step that moves the phase on with all inputs converted.
LEMMA MovesOnSession ==
    ASSUME Session, phase \in {"convert", "render"}, phase = "convert" => ~Converting,
           phase' \in {"render", "save"}, UNCHANGED <<env, rates, attempt, report, outcome, hist>>
    PROVE  Session'
<1>1. /\ published' = published /\ revisions' = revisions /\ unlocked' = unlocked /\ rates' = rates
      /\ attempt' = attempt /\ report' = report /\ outcome' = outcome
      /\ asOf' = asOf /\ finished' = finished
  BY DEF env, hist
<1>2. Len(report.converted) = Len(report.inputs)
  <2>1. CASE phase = "render"
    BY <2>1 DEF Session, Reading
  <2>2. CASE phase = "convert"
    <3>1. ~(Len(report.converted) < Len(report.inputs)) /\ Len(report.converted) <= Len(report.inputs)
      BY <2>2 DEF Session, Reading, Converting
    <3>2. Len(report.inputs) \in Nat /\ Len(report.converted) \in Nat
      <4>1. unlocked \in Histories /\ report.inputs = InputsThrough(unlocked, report.lastDay)
            /\ \A k \in ReadThrough(unlocked, report.lastDay) : HasInput(unlocked[k])
        BY <2>2 DEF Session, TypeOK, Reading
      <4>2. Len(report.converted) \in Nat
        BY DEF Session, Made
      <4> QED BY <4>1, <4>2, InputsAreRead
    <3> QED BY <3>1, <3>2
  <2> QED BY <2>1, <2>2
<1>3. TypeOK'
  BY <1>1 DEF Session, TypeOK
<1>4. Reading'
  BY <1>1, <1>2 DEF Session, Reading
<1> QED BY <1>1, <1>3, <1>4 DEF Session

\* The first report of a step that only adds to what is converted.
LEMMA MakesSession ==
    ASSUME Session, phase = "convert", Converting, Made(report', rates),
           Len(report'.converted) = Len(report.converted) + 1,
           report'.base = report.base, report'.inputs = report.inputs, report'.lastDay = report.lastDay,
           UNCHANGED <<env, rates, phase, attempt, outcome, hist>>
    PROVE  Session'
<1>1. /\ published' = published /\ revisions' = revisions /\ unlocked' = unlocked /\ rates' = rates
      /\ attempt' = attempt /\ phase' = phase /\ outcome' = outcome
      /\ asOf' = asOf /\ finished' = finished
  BY DEF env, hist
<1>2. Len(report'.converted) <= Len(report'.inputs)
  <2>1. Len(report.converted) < Len(report.inputs)
    BY DEF Converting
  <2>2. Len(report.converted) \in Nat /\ Len(report.inputs) \in Nat
    <3>1. unlocked \in Histories /\ report.inputs = InputsThrough(unlocked, report.lastDay)
          /\ \A k \in ReadThrough(unlocked, report.lastDay) : HasInput(unlocked[k])
      BY DEF Session, TypeOK, Reading
    <3>2. Len(report.converted) \in Nat
      BY DEF Session, Made
    <3> QED BY <3>1, <3>2, InputsAreRead
  <2> QED BY <2>1, <2>2
<1>3. \A e \in ToSet(report'.sources) : e \in Evidences
  BY DEF Session, TypeOK, Made, RatesOf, RateFor
<1>4. TypeOK'
  BY <1>1, <1>2, <1>3 DEF Session, TypeOK
<1>5. Reading'
  BY <1>1, <1>2 DEF Session, Reading
<1> QED BY <1>1, <1>4, <1>5 DEF Session

\* A new rate is the latest there was, and the others stay.
LEMMA AnsweredSession == ASSUME Session, Remembered, Answered PROVE Session'
<1>1. /\ phase = "ask" /\ phase' = "convert" /\ published' = published /\ revisions' = revisions
      /\ unlocked' = unlocked /\ attempt' = attempt /\ report' = report /\ outcome' = outcome
      /\ finished' = finished
  BY DEF Answered, env
<1> DEFINE key == Key(NextInput)
           base == report.base
           source == NextInput.currency
           day == NextInput.day
           table == published[base][source]
<1>2. PICK rows \in Rows(NextInput) :
         /\ AnswerReason(rows, NextInput) = "none"
         /\ rates' = Put(rates, key, Evidence(rows, NextInput))
  BY DEF Answered
<1>3. asOf' = Put(asOf, key, table)
  BY DEF Answered
<1>4. base \in Bases /\ source \in DOMAIN Directions[base] /\ day \in Days /\ day \in Nat
  <2>1. base \in Bases /\ source \in DOMAIN Directions[base] /\ Len(report.converted) < Len(report.inputs)
    BY <1>1 DEF Session, Reading
  <2>2. PICK k \in DOMAIN unlocked : /\ NextInput = Input(unlocked[k]) /\ WellFormed(unlocked[k])
                                     /\ HasInput(unlocked[k]) /\ unlocked[k].day \in Days
    BY <1>1, <2>1, NextIsRead DEF Session
  <2>3. NextInput.day = unlocked[k].day
    BY <2>2, InputShape
  <2> QED BY <2>1, <2>2, <2>3, RatesAssumption
<1>5. table \in [Days -> Int]
  BY <1>4, RatesAssumption DEF Session, TypeOK, Table
<1>6. PICK asked \in SUBSET Days :
         /\ rows = [d \in asked |-> table[d]]
         /\ asked = Days \/ asked = {d \in Days : d \in (day - Lookback)..day}
  <2>1. \E asked \in {Days, {d \in Days : d \in (day - Lookback)..day}} : rows = [d \in asked |-> table[d]]
    BY <1>2 DEF Rows
  <2> QED BY <2>1
<1> DEFINE usable == Usable(rows, day)
           W == {d \in Days : d <= day /\ IsRate(table[d])}
           date == Max(usable)
           e == [source |-> source, base |-> base, day |-> day, date |-> date,
                 rate |-> rows[date], direction |-> Directions[base][source]]
<1>7. Evidence(rows, NextInput) = e
  BY DEF Evidence
<1>8. /\ Directions[base][source] # "ambiguous" /\ usable # {}
      /\ \A d \in usable : IsRate(rows[d])
  BY <1>2 DEF AnswerReason
<1>9. usable = {d \in asked : d <= day /\ IsRate(table[d])}
  <2>1. DOMAIN rows = asked /\ \A d \in asked : rows[d] = table[d]
    BY <1>6
  <2>2. usable \subseteq {d \in asked : d <= day}
    BY <2>1 DEF Usable, Observed
  <2>3. \A d \in asked : d <= day /\ IsRate(table[d]) => d \in usable
    <3>1. \A d \in asked : table[d] \in Int
      BY <1>5
    <3> QED BY <2>1, <3>1 DEF Usable, Observed, IsRate, Absent, Blank
  <2> QED BY <1>8, <2>1, <2>2, <2>3
<1> HIDE DEF key, base, source, day, table
<1>10. date \in usable /\ date = Max(W)
  <2>1. day \in Int /\ \A d \in Days : d \in Nat
    BY <1>4, RatesAssumption
  <2>2. \A d \in Days : d <= day /\ d >= day - Lookback => d \in asked
    BY <1>6, <2>1, RatesAssumption
  <2>3. asked = Days \/ \A d \in asked : d >= day - Lookback
    BY <1>6, <2>1, RatesAssumption
  <2>4. /\ usable \subseteq asked /\ \A d \in usable : d <= day /\ IsRate(table[d])
        /\ \A d \in asked : d <= day /\ IsRate(table[d]) => d \in usable
    BY <1>9
  <2> HIDE DEF usable
  <2>5. Max(usable) \in usable /\ Max(usable) = Max({d \in Days : d <= day /\ IsRate(table[d])})
    BY <1>8, <2>1, <2>2, <2>3, <2>4, LatestRate
  <2> QED BY <2>5
<1> HIDE DEF usable, date, W
<1>11. date \in Days /\ rows[date] = table[date] /\ table[date] \in Int
  BY <1>5, <1>6, <1>9, <1>10
<1>12. e \in Evidences
  BY <1>4, <1>8, <1>11, RatesAssumption DEF Evidences
<1>13. /\ KeyOf(e) = key /\ e.date = date /\ e.rate = table[date] /\ key.day = day
  BY <1>11 DEF KeyOf, Key, key, base, source, day
<1> HIDE DEF e
<1>14. key \notin DOMAIN rates
  BY <1>1 DEF Remembered, key
<1>15. /\ DOMAIN rates' = DOMAIN rates \cup {key} /\ rates'[key] = e
       /\ \A k \in DOMAIN rates : rates'[k] = rates[k]
  BY <1>2, <1>7, <1>14 DEF Put
<1>16. /\ DOMAIN asOf' = DOMAIN asOf \cup {key} /\ asOf'[key] = table
       /\ \A k \in DOMAIN rates : asOf'[k] = asOf[k]
  BY <1>3, <1>14 DEF Put, Session, TypeOK
<1>17. AsPublished(rates', asOf')
  <2> SUFFICES ASSUME NEW k \in DOMAIN rates'
               PROVE  /\ KeyOf(rates'[k]) = k
                      /\ rates'[k].date = Max({d \in Days : d <= k.day /\ IsRate(asOf'[k][d])})
                      /\ rates'[k].rate = asOf'[k][rates'[k].date]
    BY DEF AsPublished
  <2>1. CASE k = key
    <3>1. e.date = Max({d \in Days : d <= key.day /\ IsRate(table[d])})
      BY <1>10, <1>13 DEF W
    <3> QED BY <1>13, <1>15, <1>16, <2>1, <3>1
  <2>2. CASE k # key
    <3>1. k \in DOMAIN rates /\ rates'[k] = rates[k] /\ asOf'[k] = asOf[k]
      BY <1>15, <1>16, <2>2
    <3> QED BY <3>1 DEF Session, AsPublished
  <2> QED BY <2>1, <2>2
<1>18. TypeOK'
  BY <1>1, <1>12, <1>15, <1>16 DEF Session, TypeOK
<1>19. Reading'
  BY <1>1 DEF Session, Reading
<1>20. Made(report, rates')
  BY <1>15, MadeStays DEF Session
<1> QED BY <1>1, <1>17, <1>18, <1>19, <1>20 DEF Session

\* Every step keeps the session as it should be.
LEMMA SessionStep == IInv /\ Session /\ [Next]_vars => Session'
<1> SUFFICES ASSUME IInv, Session, [Next]_vars PROVE Session'
  OBVIOUS
<1>0. /\ Remembered /\ attempt \in 0..MaxReports /\ MaxReports \in Nat
      /\ unlocked \in Histories
  BY RatesAssumption DEF IInv, Session, TypeOK
<1>1. CASE Revise
  <2>1. PICK d \in Days, cell \in Cells :
           published' = [published EXCEPT ![report.base][NextInput.currency][d] = cell]
    BY <1>1 DEF Revise
  <2>2. /\ revisions' = revisions + 1 /\ revisions < MaxRevisions /\ unlocked' = unlocked
        /\ rates' = rates /\ phase' = phase /\ attempt' = attempt /\ report' = report
        /\ outcome' = outcome /\ asOf' = asOf /\ finished' = finished
    BY <1>1 DEF Revise, hist
  <2> DEFINE base == report.base
             source == NextInput.currency
             table == published[base]
             row == [table[source] EXCEPT ![d] = cell]
             tablex == [table EXCEPT ![source] = row]
  <2>3. published' = [published EXCEPT ![base] = tablex]
    BY <2>1
  <2>4. base \in Bases /\ DOMAIN published = Bases
    BY DEF Session, TypeOK, Reading
  <2>5. table \in [DOMAIN Directions[base] -> [Days -> Int]] /\ cell \in Int
    BY <2>4, RatesAssumption DEF Session, TypeOK, Table
  <2> HIDE DEF base, source, table
  <2>6. tablex \in [DOMAIN Directions[base] -> [Days -> Int]]
    <3>1. CASE source \in DOMAIN Directions[base]
      <4>1. row \in [Days -> Int]
        BY <2>5, <3>1
      <4> HIDE DEF row
      <4> QED BY <2>5, <4>1
    <3>2. CASE source \notin DOMAIN Directions[base]
      <4> HIDE DEF row
      <4>1. tablex = table
        BY <2>5, <3>2
      <4> QED BY <2>5, <4>1
    <3> QED BY <3>1, <3>2
  <2> HIDE DEF tablex
  <2>7. DOMAIN published' = Bases /\ \A b \in Bases : Table(b, published'[b])
    <3>1. /\ DOMAIN published' = Bases /\ published'[base] = tablex
          /\ \A b \in Bases \ {base} : published'[b] = published[b]
      BY <2>3, <2>4
    <3> QED BY <2>6, <3>1 DEF Session, TypeOK, Table
  <2>8. revisions' \in 0..MaxRevisions
    BY <2>2, RatesAssumption DEF Session, TypeOK
  <2>9. TypeOK'
    BY <2>2, <2>7, <2>8 DEF Session, TypeOK
  <2>10. Reading'
    BY <2>2 DEF Session, Reading, NextInput, Foreign
  <2> QED BY <2>2, <2>9, <2>10 DEF Session
<1>2. CASE Unlock
  <2>1. PICK s \in Resynced : unlocked' = s
    BY <1>2 DEF Unlock
  <2>2. /\ published' = published /\ revisions' = revisions /\ phase = "idle"
        /\ rates' = rates /\ phase' = phase /\ attempt' = attempt /\ report' = report
        /\ outcome' = outcome /\ asOf' = asOf /\ finished' = finished
    BY <1>2 DEF Unlock, hist
  <2>3. unlocked' \in Histories
    BY <2>1, RatesAssumption
  <2>4. TypeOK'
    BY <2>2, <2>3 DEF Session, TypeOK
  <2>5. Reading'
    BY <2>2 DEF Session, Reading
  <2> QED BY <2>2, <2>4, <2>5 DEF Session
<1>3. CASE Refuse
  <2>1. PICK reason \in {"no_reportable_years", "unsupported_report_calculation"} :
           Ends([NoOutcome EXCEPT !.result = "refused", !.reason = reason])
    BY <1>3 DEF Refuse
  <2>2. attempt' = attempt + 1 /\ attempt < MaxReports /\ asOf' = asOf /\ finished' = finished
    BY <1>3 DEF Refuse, hist
  <2> DEFINE o == [NoOutcome EXCEPT !.result = "refused", !.reason = reason]
  <2>3. o.result = "refused" /\ o.reason = reason /\ o.diagnostic = "none"
    BY DEF NoOutcome
  <2> HIDE DEF o
  <2>4. Ended(o)
    BY <2>3 DEF Ended, Reasons
  <2>5. Ends(o)
    BY <2>1 DEF o
  <2>6. attempt' \in 0..MaxReports
    BY <1>0, <2>2
  <2> QED BY <2>2, <2>4, <2>5, <2>6, EndsSession
<1>4. CASE Generate
  <2>1. PICK year \in ReportableYears, base \in Bases :
           /\ Unreadable(LastDay(year)) = {}
           /\ report' = [NoReport EXCEPT !.base = base, !.lastDay = LastDay(year),
                              !.inputs = InputsThrough(unlocked, LastDay(year))]
    BY <1>4 DEF Generate
  <2>2. /\ published' = published /\ revisions' = revisions /\ unlocked' = unlocked /\ rates' = rates
        /\ phase' = "convert" /\ attempt' = attempt + 1 /\ attempt < MaxReports
        /\ outcome' = NoOutcome /\ asOf' = asOf /\ finished' = finished
    BY <1>4 DEF Generate, hist, env
  <2> DEFINE last == LastDay(year)
             inputs == InputsThrough(unlocked, last)
  <2>3. report' = [NoReport EXCEPT !.base = base, !.lastDay = last, !.inputs = inputs]
    BY <2>1
  <2>4. \A k \in ReadThrough(unlocked, last) : HasInput(unlocked[k])
    BY <2>1 DEF Unreadable
  <2> HIDE DEF last
  <2>5. Len(inputs) \in Nat
    BY <1>0, <2>4, InputsAreRead
  <2> HIDE DEF inputs
  <2>6. /\ report'.base = base /\ report'.lastDay = last /\ report'.inputs = inputs
        /\ report'.converted = <<>> /\ report'.audit = <<>> /\ report'.sources = <<>>
        /\ DOMAIN report' = {"base", "lastDay", "inputs", "converted", "audit", "sources"}
    BY <2>3 DEF NoReport
  <2>7. Made(report', rates) /\ Len(report'.converted) = 0
    BY <2>6, MadeFresh
  <2>8. attempt' \in 0..MaxReports
    BY <1>0, <2>2
  <2>9. ToSet(report'.sources) = {}
    BY <2>6 DEF ToSet
  <2>10. TypeOK'
    <3>1. Ended(NoOutcome)
      BY DEF NoOutcome, Ended, Reasons
    <3> QED BY <2>2, <2>5, <2>6, <2>7, <2>8, <2>9, <3>1 DEF Session, TypeOK, Ended
  <2>11. Reading'
    BY <2>2, <2>4, <2>5, <2>6, <2>7 DEF Reading, inputs
  <2> QED BY <2>2, <2>7, <2>10, <2>11 DEF Session
<1>5. CASE RefuseInput
  <2>1. PICK year \in ReportableYears, diagnostic \in Diagnostics :
           Ends([result |-> "failed", reason |-> "unsupported_report_calculation",
                 blamed |-> <<unlocked[Min(Unreadable(LastDay(year)))]>>,
                 diagnostic |-> diagnostic])
    BY <1>5 DEF RefuseInput
  <2>2. attempt' = attempt + 1 /\ attempt < MaxReports /\ asOf' = asOf /\ finished' = finished
    BY <1>5 DEF RefuseInput, hist
  <2> DEFINE o == [result |-> "failed", reason |-> "unsupported_report_calculation",
                   blamed |-> <<unlocked[Min(Unreadable(LastDay(year)))]>>,
                   diagnostic |-> diagnostic]
  <2>3. Ended(o)
    BY DEF Ended, Reasons
  <2> HIDE DEF o
  <2>4. Ends(o)
    BY <2>1 DEF o
  <2>5. attempt' \in 0..MaxReports
    BY <1>0, <2>2
  <2> QED BY <2>2, <2>3, <2>4, <2>5, EndsSession
<1>6. CASE KeepAsIs
  <2> DEFINE x == [NextInput EXCEPT !.currency = report.base]
  <2>1. Converting /\ phase = "convert" /\ ~Foreign(NextInput)
        /\ report' = [report EXCEPT !.converted = Append(@, x)]
    BY <1>6 DEF KeepAsIs, Converting
  <2>2. UNCHANGED <<env, rates, phase, attempt, outcome, hist>>
    BY <1>6 DEF KeepAsIs
  <2>3. ~ForeignIn(report.base, NextInput)
    BY <2>1 DEF Foreign, ForeignIn
  <2>4. x = InBase(report.base, NextInput, rates)
    BY <2>3 DEF InBase
  <2>5. DOMAIN report = {"base", "lastDay", "inputs", "converted", "audit", "sources"}
    BY DEF Session, Made
  <2> HIDE DEF x
  <2>6. /\ DOMAIN report' = DOMAIN report /\ report'.inputs = report.inputs /\ report'.base = report.base
        /\ report'.lastDay = report.lastDay /\ report'.audit = report.audit
        /\ report'.sources = report.sources /\ report'.converted = Append(report.converted, x)
    BY <2>1, <2>5
  <2>7. Made(report', rates) /\ Len(report'.converted) = Len(report.converted) + 1
    BY <2>3, <2>4, <2>6, MadeAsIs DEF Session, NextInput
  <2> QED BY <2>1, <2>2, <2>6, <2>7, MakesSession
<1>7. CASE CannotConvert
  <2>1. PICK reason \in {"invalid_activity_currency", "unsupported_currency"} : Fails(reason, RecordOf(NextInput))
    BY <1>7 DEF CannotConvert, ConversionFails
  <2>2. reason \in Reasons
    BY DEF Reasons
  <2> QED BY <2>1, <2>2, FailsSession
<1>8. CASE Ask
  <2>1. /\ Converting /\ phase = "convert" /\ phase' = "ask" /\ Foreign(NextInput)
        /\ NextInput.currency \in DOMAIN Directions[report.base]
    BY <1>8 DEF Ask, Converting
  <2>2. /\ published' = published /\ revisions' = revisions /\ unlocked' = unlocked /\ rates' = rates
        /\ attempt' = attempt /\ report' = report /\ outcome' = outcome
        /\ asOf' = asOf /\ finished' = finished
    BY <1>8 DEF Ask, env, hist
  <2>3. TypeOK'
    BY <2>1, <2>2 DEF Session, TypeOK
  <2>4. Foreign(NextInput)' = Foreign(NextInput) /\ NextInput' = NextInput
    BY <2>2 DEF Foreign, NextInput
  <2>5. Reading'
    BY <2>1, <2>2, <2>4 DEF Session, Reading, Converting
  <2> QED BY <2>2, <2>3, <2>5 DEF Session
<1>9. CASE Answered
  BY <1>0, <1>9, AnsweredSession
<1>10. CASE AnswerRejected
  <2>1. PICK reason \in NoRows \cup {AnswerReason(rows, NextInput) : rows \in Rows(NextInput)} :
           Fails(reason, RecordOf(NextInput))
    BY <1>10 DEF AnswerRejected, ConversionFails
  <2>2. \A rows : AnswerReason(rows, NextInput) \in {"ambiguous_quote", "malformed_rate", "missing_rate", "none"}
    BY DEF AnswerReason
  <2>3. reason \in Reasons
    BY <2>2 DEF NoRows, Reasons
  <2> QED BY <2>1, <2>3, FailsSession
<1>11. CASE Unavailable
  <2>1. PICK reason \in {"provider_unavailable"} : Fails(reason, RecordOf(NextInput))
    BY <1>11 DEF Unavailable, ConversionFails
  <2>2. reason \in Reasons
    BY DEF Reasons
  <2> QED BY <2>1, <2>2, FailsSession
<1>12. CASE Convert
  <2> DEFINE e == rates[Key(NextInput)]
             entry == AuditEntry(NextInput, e)
             x == ConvertedInput(NextInput, e)
  <2>1. Converting /\ phase = "convert" /\ Foreign(NextInput) /\ Key(NextInput) \in DOMAIN rates
    BY <1>12 DEF Convert, Converting
  <2>2. CASE ConversionFails(NextInput, "unsupported_report_calculation")
    <3>1. PICK reason \in {"unsupported_report_calculation"} : Fails(reason, RecordOf(NextInput))
      BY <2>2 DEF ConversionFails
    <3>2. reason \in Reasons
      BY DEF Reasons
    <3> QED BY <3>1, <3>2, FailsSession
  <2>3. CASE /\ NonNegative(NextInput) /\ ValidEntry(entry)
             /\ report' = [report EXCEPT !.converted = Append(@, x), !.audit = Append(@, entry),
                                         !.sources = Listed(@, e)]
             /\ UNCHANGED <<env, rates, phase, attempt, outcome, hist>>
    <3>1. ForeignIn(report.base, NextInput) /\ Key(NextInput) = KeyIn(report.base, NextInput)
      BY <2>1 DEF Foreign, ForeignIn, Key, KeyIn
    <3>2. x = AtRate(report.base, NextInput, e)
      BY DEF ConvertedInput, AtRate
    <3>3. e = rates[KeyIn(report.base, NextInput)] /\ KeyIn(report.base, NextInput) \in DOMAIN rates
      BY <2>1, <3>1
    <3>4. DOMAIN report = {"base", "lastDay", "inputs", "converted", "audit", "sources"}
      BY DEF Session, Made
    <3> HIDE DEF x, e
    <3>5. entry = AuditEntry(NextInput, e)
      OBVIOUS
    <3> HIDE DEF entry
    <3>6. /\ DOMAIN report' = DOMAIN report /\ report'.inputs = report.inputs /\ report'.base = report.base
          /\ report'.lastDay = report.lastDay /\ report'.audit = Append(report.audit, entry)
          /\ report'.sources = Listed(report.sources, e) /\ report'.converted = Append(report.converted, x)
      BY <2>3, <3>4
    <3>7. Made(report', rates) /\ Len(report'.converted) = Len(report.converted) + 1
      <4>1. NextInput = report.inputs[Len(report.converted) + 1] /\ Made(report, rates)
        BY DEF Session, NextInput
      <4>2. NonNegative(NextInput) /\ ValidEntry(AuditEntry(NextInput, e))
        BY <2>3, <3>5
      <4>3. /\ report'.converted = Append(report.converted, AtRate(report.base, NextInput, e))
            /\ report'.audit = Append(report.audit, AuditEntry(NextInput, e))
        BY <3>2, <3>5, <3>6
      <4> QED BY <3>1, <3>3, <3>6, <4>1, <4>2, <4>3, MadeConverted
    <3> QED BY <2>1, <2>3, <3>6, <3>7, MakesSession
  <2> QED BY <1>12, <2>2, <2>3 DEF Convert
<1>13. CASE Calculated \/ Rendered
  <2>1. CASE Fails("unsupported_report_calculation", None)
    <3>1. "unsupported_report_calculation" \in Reasons
      BY DEF Reasons
    <3> QED BY <2>1, <3>1, FailsSession
  <2>2. CASE /\ phase' \in {"render", "save"}
             /\ UNCHANGED <<env, rates, attempt, report, outcome, hist>>
    <3>1. phase \in {"convert", "render"} /\ (phase = "convert" => ~Converting)
      BY <1>13 DEF Calculated, Rendered
    <3> QED BY <2>2, <3>1, MovesOnSession
  <2> QED BY <1>13, <2>1, <2>2 DEF Calculated, Rendered
<1>14. CASE SaveFails
  <2>1. PICK reason \in {"documents_folder_unavailable", "report_file_write_failed"} : Fails(reason, None)
    BY <1>14 DEF SaveFails
  <2>2. reason \in Reasons
    BY DEF Reasons
  <2> QED BY <2>1, <2>2, FailsSession
<1>15. CASE Saved
  <2>1. /\ phase = "save" /\ phase' = "open"
        /\ published' = published /\ revisions' = revisions /\ unlocked' = unlocked /\ rates' = rates
        /\ attempt' = attempt /\ report' = report /\ outcome' = outcome /\ asOf' = asOf
    BY <1>15 DEF Saved, env
  <2> DEFINE f == [report |-> report, history |-> unlocked]
  <2>2. finished' = finished \cup {f}
    BY <1>15 DEF Saved
  <2>3. f.report = report /\ f.history = unlocked
    OBVIOUS
  <2> HIDE DEF f
  <2>4. WholeReport(f)
    <3>1. /\ report.base \in Bases /\ Len(report.converted) = Len(report.inputs)
          /\ report.inputs = InputsThrough(unlocked, report.lastDay)
          /\ \A k \in ReadThrough(unlocked, report.lastDay) : HasInput(unlocked[k])
      BY <2>1 DEF Session, Reading
    <3>2. \A key \in DOMAIN rates : KeyOf(rates[key]) = key /\ rates[key] \in Evidences
      BY DEF Session, TypeOK, AsPublished
    <3>3. Made(report, rates)
      BY DEF Session
    <3> QED BY <1>0, <2>3, <3>1, <3>2, <3>3, MadeWhole
  <2>5. TypeOK'
    BY <2>1 DEF Session, TypeOK
  <2>6. Reading'
    BY <2>1 DEF Session, Reading
  <2> QED BY <2>1, <2>2, <2>4, <2>5, <2>6 DEF Session
<1>16. CASE Opened
  <2>1. PICK reason \in {"none", "automatic_open_failed_after_save"} :
           Ends([NoOutcome EXCEPT !.result = "saved", !.reason = reason])
    BY <1>16 DEF Opened
  <2>2. attempt' = attempt /\ asOf' = asOf /\ finished' = finished
    BY <1>16 DEF Opened, hist
  <2> DEFINE o == [NoOutcome EXCEPT !.result = "saved", !.reason = reason]
  <2>3. o.result = "saved" /\ o.reason = reason /\ o.diagnostic = "none"
    BY DEF NoOutcome
  <2> HIDE DEF o
  <2>4. Ended(o)
    BY <2>3 DEF Ended, Reasons
  <2>5. Ends(o)
    BY <2>1 DEF o
  <2>6. attempt' \in 0..MaxReports
    BY <1>0, <2>2
  <2> QED BY <2>2, <2>4, <2>5, <2>6, EndsSession
<1>17. CASE WriteDiagnostic
  <2>1. /\ published' = published /\ revisions' = revisions /\ unlocked' = unlocked /\ rates' = rates
        /\ attempt' = attempt /\ report' = report /\ phase' = phase
        /\ asOf' = asOf /\ finished' = finished
        /\ outcome' = [outcome EXCEPT !.diagnostic = "written"]
    BY <1>17 DEF WriteDiagnostic, env, hist
  <2>2. /\ outcome'.result = outcome.result
        /\ outcome'.reason = outcome.reason /\ outcome'.diagnostic = "written"
    BY <2>1 DEF IInv, Shape
  <2>3. TypeOK'
    BY <2>1, <2>2 DEF Session, TypeOK, Diagnostics
  <2>4. Reading'
    BY <2>1 DEF Session, Reading, NextInput, Foreign
  <2> QED BY <2>1, <2>3, <2>4 DEF Session
<1>18. CASE UNCHANGED vars
  <2>1. /\ published' = published /\ revisions' = revisions /\ unlocked' = unlocked /\ rates' = rates
        /\ attempt' = attempt /\ report' = report /\ phase' = phase
        /\ asOf' = asOf /\ finished' = finished /\ outcome' = outcome
    BY <1>18 DEF vars, env, hist
  <2>2. TypeOK'
    BY <2>1 DEF Session, TypeOK
  <2>3. Reading'
    BY <2>1 DEF Session, Reading, NextInput, Foreign
  <2> QED BY <2>1, <2>2, <2>3 DEF Session
<1> QED
  BY <1>1, <1>2, <1>3, <1>4, <1>5, <1>6, <1>7, <1>8, <1>9, <1>10, <1>11, <1>12, <1>13,
     <1>14, <1>15, <1>16, <1>17, <1>18 DEF Next
-----------------------------------------------------------------------------
\* A session is typed, has the latest published rates, and makes whole reports.
THEOREM RatesSession == Spec => [](IInv /\ Session)
<1>1. Init => Session
  <2> SUFFICES ASSUME Init PROVE Session
    OBVIOUS
  <2>1. /\ published \in Tables /\ revisions = 0 /\ unlocked \in Histories /\ rates = <<>>
        /\ phase = "idle" /\ attempt = 0 /\ report = NoReport /\ outcome = NoOutcome
        /\ asOf = <<>> /\ finished = {}
    BY DEF Init
  <2>2. Made(report, rates) /\ Len(report.converted) = 0
    BY <2>1, MadeFresh DEF NoReport
  <2>3. report.base \in Bases /\ Len(report.inputs) = 0 /\ ToSet(report.sources) = {}
    BY <2>1 DEF NoReport, Bases, ToSet
  <2>4. DOMAIN published = Bases /\ (\A base \in Bases : Table(base, published[base]))
        /\ MaxRevisions \in Nat /\ MaxReports \in Nat
    BY <2>1, RatesAssumption
  <2>5. TypeOK
    BY <2>1, <2>2, <2>3, <2>4 DEF TypeOK, NoOutcome, Reasons
  <2>6. Reading
    BY <2>1, <2>2, <2>3 DEF Reading
  <2>7. AsPublished(rates, asOf)
    BY <2>1 DEF AsPublished
  <2> QED BY <2>1, <2>2, <2>5, <2>6, <2>7 DEF Session
<1>2. IInv /\ Session /\ [Next]_vars => IInv' /\ Session'
  BY SessionStep, RememberedStep DEF IInv
<1>3. Init => IInv
  BY RatesStart
<1> QED BY <1>1, <1>2, <1>3, PTL DEF Spec

\* The type invariant.
THEOREM RatesTypeCorrect == Spec => []TypeOK
<1>1. Session => TypeOK
  BY DEF Session
<1> QED BY <1>1, RatesSession, PTL

\* Every rate of a session is the last one its authority had published for the
\* day of the activity or a day before it (selectECBEXRObservation,
\* selectFederalReserveH10Observation).
THEOREM RatesArePublished == Spec => []RatesAsPublished
<1>1. Session => RatesAsPublished
  BY AsPublishedIs DEF Session
<1> QED BY <1>1, RatesSession, PTL

\* A saved report has every activity of its history up to its year, each as it was
\* or converted at the one rate the report lists for it, and a converted report
\* passes its own checks (validateConversionArtifacts).
THEOREM ReportsAreWhole == Spec => []ReportWhole
<1>1. Session => ReportWhole
  <2> SUFFICES ASSUME Session, phase = "convert", ~Converting, UniqueIds
               PROVE  OneCurrency(report.converted) /\ Checked(report)
    BY DEF Session, ReportWhole
  <2>1. /\ unlocked \in Histories /\ Made(report, rates)
        /\ report.inputs = InputsThrough(unlocked, report.lastDay)
        /\ \A k \in ReadThrough(unlocked, report.lastDay) : HasInput(unlocked[k])
        /\ \A key \in DOMAIN rates : KeyOf(rates[key]) = key
    BY DEF Session, TypeOK, Reading, AsPublished
  <2>2. Len(report.converted) = Len(report.inputs)
    <3>1. ~(Len(report.converted) < Len(report.inputs)) /\ Len(report.converted) <= Len(report.inputs)
      BY DEF Session, Reading, Converting
    <3>2. Len(report.inputs) \in Nat
      BY <2>1, InputsAreRead
    <3>3. Len(report.converted) \in Nat
      BY DEF Session, Made
    <3> QED BY <3>1, <3>2, <3>3
  <2>3. \A j, k \in DOMAIN unlocked : unlocked[j].id = unlocked[k].id => j = k
    BY DEF UniqueIds
  <2> QED BY <2>1, <2>2, <2>3, MadeChecked
<1> QED BY <1>1, RatesSession, PTL

\* Under unique source ids the record of the next input is the one it was made of.
LEMMA RecordOfNext ==
    ASSUME Session, UniqueIds, phase # "idle", Len(report.converted) < Len(report.inputs)
    PROVE  \E k \in DOMAIN unlocked : RecordOf(NextInput) = <<unlocked[k]>> /\ Input(unlocked[k]) = NextInput
<1>1. PICK k \in DOMAIN unlocked : /\ NextInput = Input(unlocked[k]) /\ WellFormed(unlocked[k])
                                   /\ HasInput(unlocked[k])
  BY NextIsRead DEF Session
<1>2. NextInput.id = unlocked[k].id
  BY <1>1, InputShape
<1> DEFINE same == {j \in DOMAIN unlocked : unlocked[j].id = NextInput.id}
<1>3. same = {k}
  BY <1>2 DEF UniqueIds
<1>4. k \in Int
  BY RatesAssumption DEF Session, TypeOK
<1>5. Max(same) = k
  <2>1. IsFiniteSet({k}) /\ {k} \in SUBSET Int /\ {k} # {}
    BY <1>4, FS_Singleton
  <2>2. Max({k}) \in {k}
    BY <2>1, Extremes
  <2> QED BY <1>3, <2>2
<1>6. RecordOf(NextInput) = <<unlocked[Max(same)]>>
  BY DEF RecordOf
<1> HIDE DEF same
<1> QED BY <1>1, <1>5, <1>6

\* A report that fails over an activity names that activity, as it is stored
\* (withInputDiagnosticRecord).
THEOREM CauseIsNamed == Spec => CauseNamed
<1>1. Session /\ [Next]_vars =>
         (UniqueIds /\ ConversionFailed =>
             \E k \in DOMAIN unlocked : outcome'.blamed = <<unlocked[k]>> /\ Input(unlocked[k]) = NextInput)
  <2> SUFFICES ASSUME Session, [Next]_vars, UniqueIds, ConversionFailed
               PROVE  \E k \in DOMAIN unlocked :
                         outcome'.blamed = <<unlocked[k]>> /\ Input(unlocked[k]) = NextInput
    OBVIOUS
  <2>0. phase \in {"convert", "ask"} /\ phase' = "idle" /\ outcome'.blamed # None
    BY DEF ConversionFailed
  <2>1. ASSUME NEW reason, NEW blamed, Fails(reason, blamed) PROVE outcome'.blamed = blamed
    BY <2>1 DEF Fails, Ends
  <2>2. ASSUME NEW reason, ConversionFails(NextInput, reason), Len(report.converted) < Len(report.inputs)
        PROVE  \E k \in DOMAIN unlocked :
                  outcome'.blamed = <<unlocked[k]>> /\ Input(unlocked[k]) = NextInput
    <3>1. outcome'.blamed = RecordOf(NextInput)
      BY <2>1, <2>2 DEF ConversionFails
    <3>2. PICK k \in DOMAIN unlocked : RecordOf(NextInput) = <<unlocked[k]>> /\ Input(unlocked[k]) = NextInput
      BY <2>0, <2>2, RecordOfNext
    <3> QED BY <3>1, <3>2
  <2>3. CASE CannotConvert
    <3>1. PICK reason : ConversionFails(NextInput, reason)
      BY <2>3 DEF CannotConvert
    <3>2. Len(report.converted) < Len(report.inputs)
      BY <2>3 DEF CannotConvert, Converting
    <3> QED BY <2>2, <3>1, <3>2
  <2>4. CASE AnswerRejected \/ Unavailable
    <3>1. PICK reason : ConversionFails(NextInput, reason)
      BY <2>4 DEF AnswerRejected, Unavailable
    <3>2. Len(report.converted) < Len(report.inputs)
      BY <2>4 DEF AnswerRejected, Unavailable, Session, Reading
    <3> QED BY <2>2, <3>1, <3>2
  <2>5. CASE Convert
    <3>1. Len(report.converted) < Len(report.inputs)
      BY <2>5 DEF Convert, Converting
    <3>2. ConversionFails(NextInput, "unsupported_report_calculation")
      BY <2>0, <2>5 DEF Convert, Converting
    <3> QED BY <2>2, <3>1, <3>2
  <2>6. CASE Calculated
    <3>1. Fails("unsupported_report_calculation", None)
      BY <2>0, <2>6 DEF Calculated
    <3> QED BY <2>0, <2>1, <3>1
  <2>7. CASE Revise \/ KeepAsIs \/ Ask \/ Answered \/ Generate \/ UNCHANGED vars
    BY <2>0, <2>7 DEF Revise, KeepAsIs, Ask, Answered, Generate, Converting, vars
  <2>8. CASE Unlock \/ Refuse \/ RefuseInput \/ WriteDiagnostic \/ Rendered \/ SaveFails \/ Saved \/ Opened
    BY <2>0, <2>8 DEF Unlock, Refuse, RefuseInput, WriteDiagnostic, Rendered, SaveFails, Saved, Opened
  <2> QED BY <2>3, <2>4, <2>5, <2>6, <2>7, <2>8 DEF Next
<1> QED BY <1>1, RatesSession, PTL DEF Spec, CauseNamed
-----------------------------------------------------------------------------
\* The first amount of a sequence of them.
LEMMA FirstIs ==
    ASSUME NEW s \in Seq(Int)
    PROVE  First(s) = IF s = <<>> THEN <<>> ELSE <<s[1]>>
<1> DEFINE n == Len(s)
           two == {1, n}
           m == Min(two)
<1>1. n \in Nat
  OBVIOUS
<1>2. m \in two /\ m <= 1 /\ m <= n
  <2>1. IsFiniteSet({1})
    BY FS_Singleton
  <2>2. IsFiniteSet({1} \cup {n})
    BY <2>1, FS_AddElement
  <2>3. two = {1} \cup {n} /\ two \in SUBSET Int /\ 1 \in two /\ n \in two
    BY <1>1
  <2> HIDE DEF two
  <2>4. Min(two) \in two /\ \A y \in two : Min(two) <= y
    BY <2>2, <2>3, Extremes
  <2> QED BY <2>3, <2>4
<1>3. First(s) = SubSeq(s, 1, m)
  BY DEF First
<1> HIDE DEF m
<1>4. CASE s = <<>>
  <2>1. m = 0
    BY <1>2, <1>4
  <2>2. SubSeq(s, 1, m) = <<>>
    BY <1>4, <2>1
  <2> QED BY <1>3, <1>4, <2>2
<1>5. CASE s # <<>>
  <2>1. n >= 1
    BY <1>1, <1>5
  <2>2. m = 1
    BY <1>1, <1>2, <2>1
  <2> DEFINE t == SubSeq(s, 1, 1)
             v == <<s[1]>>
  <2>3. t \in Seq(Int) /\ Len(t) = 1 /\ t[1] = s[1]
    BY <1>1, <2>1, SubSeqProperties
  <2>4. v \in Seq(Int) /\ Len(v) = 1 /\ v[1] = s[1]
    BY <1>1, <2>1
  <2> HIDE DEF t, v
  <2>5. t = v
    BY <2>3, <2>4, SeqEqual
  <2>6. SubSeq(s, 1, 1) = <<s[1]>>
    BY <2>5 DEF t, v
  <2> QED BY <1>3, <1>5, <2>2, <2>6
<1> QED BY <1>4, <1>5

LEMMA FirstOfTwo ==
    ASSUME NEW x \in Seq(Int), NEW b \in Amounts
    PROVE  First(x \o b) = IF x = <<>> THEN b ELSE First(x)
<1>1. b \in Seq(Int) /\ Len(b) <= 1
  BY AmountIsSeq
<1>2. x \o b \in Seq(Int)
  BY <1>1
<1>3. CASE x = <<>>
  <2>1. x \o b = b
    BY <1>1, <1>3
  <2>2. First(b) = b
    <3>1. CASE b = <<>>
      BY <1>1, <3>1, FirstIs
    <3>2. CASE b # <<>>
      <4>5. Len(b) \in Nat \ {0}
        BY <1>1, <3>2, EmptySeq
      <4> DEFINE n == Len(b)
      <4>6. n \in Nat \ {0} /\ n <= 1
        BY <1>1, <4>5
      <4> HIDE DEF n
      <4>7. n = 1
        BY <4>6
      <4>1. Len(b) = 1
        BY <4>7 DEF n
      <4> DEFINE v == <<b[1]>>
      <4>3. v \in Seq(Int) /\ Len(v) = 1 /\ v[1] = b[1]
        BY <1>1, <4>1
      <4> HIDE DEF v
      <4>4. b = v
        BY <1>1, <4>1, <4>3, SeqEqual
      <4>2. b = <<b[1]>>
        BY <4>4 DEF v
      <4> QED BY <1>1, <3>2, <4>2, FirstIs
    <3> QED BY <3>1, <3>2
  <2> QED BY <1>3, <2>1, <2>2
<1>4. CASE x # <<>>
  <2>1. Len(x) >= 1
    BY <1>4
  <2>2. (x \o b)[1] = x[1] /\ x \o b # <<>>
    BY <1>1, <2>1, ConcatProperties
  <2>3. First(x \o b) = <<x[1]>>
    BY <1>2, <2>2, FirstIs
  <2> QED BY <1>4, <2>3, FirstIs
<1> QED BY <1>3, <1>4

\* Of up to four amounts the first that is not missing.
LEMMA FirstOfFour ==
    ASSUME NEW a \in Amounts, NEW b \in Amounts, NEW c \in Amounts, NEW d \in Amounts
    PROVE  /\ First(a \o b) = IF a # None THEN a ELSE b
           /\ First(a \o b \o c) = IF a # None THEN a ELSE IF b # None THEN b ELSE c
           /\ First(a \o b \o c \o d) =
                 IF a # None THEN a ELSE IF b # None THEN b ELSE IF c # None THEN c ELSE d
<1>1. /\ a \in Seq(Int) /\ b \in Seq(Int) /\ c \in Seq(Int)
      /\ a \o b \in Seq(Int) /\ a \o b \o c \in Seq(Int)
  BY AmountIsSeq
<1>2. (a \o b = <<>> <=> a = <<>> /\ b = <<>>) /\ (a \o b \o c = <<>> <=> a \o b = <<>> /\ c = <<>>)
  BY <1>1, ConcatEqualIffEmpty
<1>3. <<>> \in Seq(Int) /\ <<>> \o a = a
  BY <1>1
<1>4. First(a) = a
  BY <1>3, FirstOfTwo
<1>5. First(a \o b) = IF a # <<>> THEN a ELSE b
  BY <1>1, <1>4, FirstOfTwo
<1>6. First(a \o b \o c) = IF a # <<>> THEN a ELSE IF b # <<>> THEN b ELSE c
  <2> DEFINE x == a \o b
  <2> HIDE DEF x
  <2>1. x \in Seq(Int)
    BY <1>1 DEF x
  <2>2. First(x \o c) = IF x = <<>> THEN c ELSE First(x)
    BY <2>1, FirstOfTwo
  <2> QED BY <1>2, <1>5, <2>2 DEF x
<1>7. First(a \o b \o c \o d) =
         IF a # <<>> THEN a ELSE IF b # <<>> THEN b ELSE IF c # <<>> THEN c ELSE d
  <2> DEFINE x == a \o b \o c
  <2> HIDE DEF x
  <2>1. x \in Seq(Int)
    BY <1>1 DEF x
  <2>2. First(x \o d) = IF x = <<>> THEN d ELSE First(x)
    BY <2>1, FirstOfTwo
  <2>3. (x = <<>> <=> a = <<>> /\ b = <<>> /\ c = <<>>) /\ First(x) = IF a # <<>> THEN a ELSE IF b # <<>> THEN b ELSE c
    BY <1>2, <1>6 DEF x
  <2> QED BY <2>2, <2>3 DEF x
<1> QED BY <1>2, <1>5, <1>6, <1>7 DEF None

\* Nothing of three amounts.
LEMMA NoneOfThree ==
    ASSUME NEW a \in Amounts, NEW b \in Amounts, NEW c \in Amounts
    PROVE  a \o b \o c = None <=> a = None /\ b = None /\ c = None
<1>1. a \in Seq(Int) /\ b \in Seq(Int) /\ c \in Seq(Int) /\ a \o b \in Seq(Int)
  BY AmountIsSeq
<1> QED BY <1>1, ConcatEqualIffEmpty DEF None

\* When the first tier that says anything is complete, a report uses what the
\* sync validated.
LEMMA AmountsAgree == ASSUME NEW r, WellFormed(r), SupportedAmounts(r) PROVE UsesValidated(r)
<1> DEFINE q == r.quantity
           o == r.tiers[1]
           p == r.tiers[2]
           b == r.tiers[3]
           oG == Informed(o, o.gross)
           oU == Times(q, Informed(o, o.unit))
           pU == Times(q, Informed(p, p.unit))
           bG == Informed(b, b.gross)
           oF == Informed(o, o.fee)
           pF == Informed(p, p.fee)
           bF == Informed(b, b.fee)
<1>1. /\ q \in Int /\ q > 0 /\ p.gross = None /\ b.unit = None
      /\ \A i \in 1..3 : r.tiers[i].unit \in Amounts /\ r.tiers[i].gross \in Amounts /\ r.tiers[i].fee \in Amounts
  BY DEF WellFormed, SupportedAmounts
<1>2. None \in Amounts /\ (\A a \in Amounts : Times(q, a) \in Amounts) /\ (\A a \in Amounts : Times(q, a) = None <=> a = None)
  <2>1. None \in [{} -> Int] /\ \A a \in [{} -> Int] : a = None
    <3>1. 1..0 = {} /\ 0 \in Nat
      OBVIOUS
    <3>2. ASSUME NEW a \in [{} -> Int] PROVE a = None
      <4>1. a \in Seq(Int)
        BY <3>1, SeqDef
      <4>2. DOMAIN a = {}
        OBVIOUS
      <4>3. Len(a) \in Nat /\ DOMAIN a = 1..Len(a)
        BY <4>1
      <4>4. Len(a) = 0
        BY <4>2, <4>3
      <4> QED BY <4>1, <4>4, EmptySeq DEF None
    <3>3. [k \in {} |-> 0] \in [{} -> Int]
      OBVIOUS
    <3> QED BY <3>2, <3>3
  <2>2. ASSUME NEW a \in Amounts PROVE Times(q, a) \in Amounts /\ (Times(q, a) = None <=> a = None)
    <3>1. DOMAIN a = {} \/ DOMAIN a = {1}
      BY DEF Amounts
    <3>2. \A k \in DOMAIN a : a[k] \in Int /\ q * a[k] \in Int
      BY <1>1 DEF Amounts
    <3>3. Times(q, a) \in [DOMAIN a -> Int]
      BY <3>2 DEF Times
    <3>4. Times(q, a) \in Amounts
      BY <3>1, <3>3 DEF Amounts
    <3>5. a \in [{} -> Int] <=> DOMAIN a = {}
      BY DEF Amounts
    <3>6. Times(q, a) \in [{} -> Int] <=> DOMAIN a = {}
      BY <3>3
    <3>7. Times(q, a) = None => Times(q, a) \in [{} -> Int]
      BY <2>1
    <3>8. a = None => a \in [{} -> Int]
      BY <2>1
    <3> HIDE DEF q
    <3> QED BY <2>1, <3>4, <3>5, <3>6, <3>7, <3>8
  <2> QED BY <2>1, <2>2 DEF Amounts
<1>3. ASSUME NEW i \in 1..3
      PROVE  Says(r.tiers[i]) <=> /\ r.tiers[i].currency # NoCurrency
                                  /\ r.tiers[i].unit # None \/ r.tiers[i].gross # None \/ r.tiers[i].fee # None
  <2> DEFINE u == r.tiers[i].unit
             g == r.tiers[i].gross
             f == r.tiers[i].fee
  <2>2. u \in Amounts /\ g \in Amounts /\ f \in Amounts /\ Values(r.tiers[i]) = u \o g \o f
    BY <1>1 DEF Values
  <2> HIDE DEF u, g, f
  <2>3. u \o g \o f = None <=> u = None /\ g = None /\ f = None
    BY <2>2, NoneOfThree
  <2>1. Values(r.tiers[i]) = None <=> r.tiers[i].unit = None /\ r.tiers[i].gross = None /\ r.tiers[i].fee = None
    BY <2>2, <2>3 DEF u, g, f
  <2> QED BY <2>1 DEF Says, None
<1>4. /\ o.unit \in Amounts /\ o.gross \in Amounts /\ o.fee \in Amounts
      /\ p.unit \in Amounts /\ p.gross \in Amounts /\ p.fee \in Amounts
      /\ b.unit \in Amounts /\ b.gross \in Amounts /\ b.fee \in Amounts
  BY <1>1
<1>5. ResolvedGross(r) = First(oG \o oU \o pU \o bG) /\ ResolvedFee(r) = First(oF \o pF \o bF)
  BY DEF ResolvedGross, ResolvedFee
<1>6. /\ ResolvedGross(r) # None /\ ResolvedGross(r)[1] >= 0
      /\ ResolvedFee(r) # None => ResolvedFee(r)[1] >= 0
  BY DEF SupportedAmounts
<1>7. /\ Says(o) <=> o.currency # NoCurrency /\ (o.unit # None \/ o.gross # None \/ o.fee # None)
      /\ Says(p) <=> p.currency # NoCurrency /\ (p.unit # None \/ p.gross # None \/ p.fee # None)
      /\ Says(b) <=> b.currency # NoCurrency /\ (b.unit # None \/ b.gross # None \/ b.fee # None)
  BY <1>3
<1> DEFINE saying == {i \in 1..3 : Says(r.tiers[i])}
           m == Min(saying)
           tier == r.tiers[m]
<1>8. \A i \in 1..3 : i = 1 \/ i = 2 \/ i = 3
  OBVIOUS
<1> HIDE DEF o, p, b, q
<1>9. /\ oG \in Amounts /\ oU \in Amounts /\ pU \in Amounts /\ bG \in Amounts
      /\ oF \in Amounts /\ pF \in Amounts /\ bF \in Amounts
  BY <1>2, <1>4 DEF Informed
<1>10. /\ oG # None => o.gross # None /\ o.currency # NoCurrency
       /\ oU # None => o.unit # None /\ o.currency # NoCurrency
       /\ pU # None => p.unit # None /\ p.currency # NoCurrency
       /\ bG # None => b.gross # None /\ b.currency # NoCurrency
  BY <1>2, <1>4 DEF Informed
<1>11. /\ o.currency # NoCurrency => oG = o.gross /\ oU = Times(q, o.unit) /\ oF = o.fee
       /\ p.currency # NoCurrency => pU = Times(q, p.unit) /\ pF = p.fee
       /\ b.currency # NoCurrency => bG = b.gross /\ bF = b.fee
       /\ ~Says(o) => oG = None /\ oU = None /\ oF = None
       /\ ~Says(p) => pU = None /\ pF = None
  BY <1>2, <1>4, <1>7 DEF Informed
<1> HIDE DEF oG, oU, pU, bG, oF, pF, bF
<1>12. /\ ResolvedGross(r) = IF oG # None THEN oG ELSE IF oU # None THEN oU ELSE IF pU # None THEN pU ELSE bG
       /\ ResolvedFee(r) = IF oF # None THEN oF ELSE IF pF # None THEN pF ELSE bF
  BY <1>5, <1>9, FirstOfFour
<1>13. HasBasisInput(r)
  <2>1. HasUnitPrice(r) \/ HasGrossValue(r)
    <3>1. o.unit # None \/ p.unit # None \/ o.gross # None \/ b.gross # None
      BY <1>6, <1>10, <1>12
    <3> QED BY <3>1 DEF HasUnitPrice, HasGrossValue, o, p, b
  <2> QED BY <1>1, <2>1 DEF HasBasisInput, q
<1>14. m \in saying /\ \A i \in saying : m <= i
  <2>1. Says(o) \/ Says(p) \/ Says(b)
    BY <1>6, <1>7, <1>10, <1>12
  <2>2. 1 \in saying \/ 2 \in saying \/ 3 \in saying
    BY <2>1 DEF o, p, b
  <2>3. IsFiniteSet(saying) /\ saying \in SUBSET Int
    <3> DEFINE one == 1
               three == 3
    <3>1. one \in Int /\ three \in Int
      OBVIOUS
    <3> HIDE DEF one, three
    <3>2. IsFiniteSet(one..three)
      BY <3>1, FS_Interval
    <3>3. saying \subseteq one..three
      BY DEF one, three
    <3>4. saying \in SUBSET Int
      OBVIOUS
    <3> HIDE DEF saying
    <3> QED BY <3>2, <3>3, <3>4, FS_Subset
  <2> HIDE DEF saying
  <2> QED BY <2>2, <2>3, Extremes
<1>15. ASSUME Complete(r, tier)
       PROVE  /\ HasInput(r)
              /\ ~Input(r).zero => Input(r).gross = ResolvedGross(r) /\ Input(r).fee = ResolvedFee(r)
              /\ NonNegative([Input(r) EXCEPT !.unit = None])
  <2>1. m \in 1..3 /\ Says(tier)
    BY <1>14
  <2> HIDE DEF m
  <2>2. m \in CompleteTiers(r) /\ CompleteTiers(r) \subseteq saying
    <3>1. ASSUME NEW i \in CompleteTiers(r) PROVE i \in saying
      <4>1. i \in 1..3 /\ r.tiers[i].currency # NoCurrency /\ r.tiers[i].fee # None
        BY DEF CompleteTiers, Complete
      <4> QED BY <1>3, <4>1
    <3> QED BY <1>15, <2>1, <3>1 DEF CompleteTiers
  <2>3. HasInput(r)
    BY <1>1, <2>2 DEF HasInput, q
  <2>4. Min(CompleteTiers(r)) = m
    <3>1. \A i \in CompleteTiers(r) : m <= i /\ i \in Int
      BY <1>14, <2>2 DEF CompleteTiers
    <3>2. \A x \in CompleteTiers(r) : (\A y \in CompleteTiers(r) : x <= y) => x = m
      BY <2>1, <2>2, <3>1
    <3> QED BY <2>2, <3>1, <3>2 DEF Min
  <2> DEFINE gross == TierGross(r, tier)
  <2>5. gross = First(tier.gross \o Times(q, tier.unit)) /\ gross # None /\ tier.fee # None /\ tier.currency # NoCurrency
    BY <1>15 DEF TierGross, Complete, q
  <2>6. gross = IF tier.gross # None THEN tier.gross ELSE Times(q, tier.unit)
    <3>1. tier.gross \in Amounts /\ Times(q, tier.unit) \in Amounts
      BY <1>1, <1>2, <2>1
    <3> HIDE DEF tier, gross
    <3> QED BY <2>5, <3>1, FirstOfFour
  <2>7. m = 1 \/ (m = 2 /\ ~Says(o)) \/ (m = 3 /\ ~Says(o) /\ ~Says(p))
    <3>1. Says(o) => m <= 1
      BY <1>14 DEF o
    <3>2. Says(p) => m <= 2
      BY <1>14 DEF p
    <3> QED BY <2>1, <3>1, <3>2
  <2>8. gross = ResolvedGross(r) /\ tier.fee = ResolvedFee(r)
    <3> HIDE DEF gross
    <3>1. CASE m = 1
      <4>1. tier = o
        BY <3>1 DEF o
      <4> HIDE DEF tier
      <4> QED BY <1>11, <1>12, <2>5, <2>6, <4>1
    <3>2. CASE m = 2 /\ ~Says(o)
      <4>1. tier = p
        BY <3>2 DEF p
      <4> HIDE DEF tier
      <4> QED BY <1>1, <1>11, <1>12, <2>5, <2>6, <3>2, <4>1
    <3>3. CASE m = 3 /\ ~Says(o) /\ ~Says(p)
      <4>1. tier = b
        BY <3>3 DEF b
      <4>2. Times(q, None) = None
        BY <1>2
      <4> HIDE DEF tier
      <4> QED BY <1>1, <1>11, <1>12, <2>5, <2>6, <3>3, <4>1, <4>2
    <3> QED BY <2>7, <3>1, <3>2, <3>3
  <2>9. CASE ~ZeroPriced(r)
    <3> DEFINE x == Input(r)
               y == [x EXCEPT !.unit = None]
    <3>1. /\ x.gross = gross /\ x.fee = tier.fee
          /\ DOMAIN x = {"id", "asset", "day", "zero", "currency", "unit", "gross", "fee"}
      BY <2>4, <2>9 DEF Input, PricedInput
    <3> HIDE DEF gross, tier, x
    <3>2. y.unit = None /\ y.gross = ResolvedGross(r) /\ y.fee = ResolvedFee(r)
      BY <2>8, <3>1
    <3>3. DOMAIN ResolvedGross(r) \subseteq {1} /\ DOMAIN ResolvedFee(r) \subseteq {1}
      BY <1>9, <1>12 DEF Amounts
    <3>4. /\ \A k \in DOMAIN ResolvedGross(r) : ResolvedGross(r)[k] >= 0
          /\ \A k \in DOMAIN ResolvedFee(r) : ResolvedFee(r)[k] >= 0
      BY <1>6, <3>3, <2>5, <2>8
    <3>5. DOMAIN None = {}
      BY DEF None
    <3> HIDE DEF y
    <3>6. NonNegative(y)
      BY <3>2, <3>4, <3>5 DEF NonNegative
    <3> QED BY <2>3, <2>8, <3>1, <3>6 DEF x, y
  <2>10. CASE ZeroPriced(r)
    <3> DEFINE x == Input(r)
               y == [x EXCEPT !.unit = None]
    <3>1. /\ x.zero = TRUE /\ x.gross = First(o.gross \o p.gross \o b.gross)
          /\ x.fee = First(o.fee \o p.fee \o b.fee)
          /\ DOMAIN x = {"id", "asset", "day", "zero", "currency", "unit", "gross", "fee"}
      BY <2>10 DEF Input, ZeroPricedInput, o, p, b
    <3>2. ASSUME NEW i \in 1..3
          PROVE  /\ \A k \in DOMAIN r.tiers[i].gross : r.tiers[i].gross[k] >= 0
                 /\ \A k \in DOMAIN r.tiers[i].fee : r.tiers[i].fee[k] >= 0
      <4> DEFINE u == r.tiers[i].unit
                 g == r.tiers[i].gross
                 f == r.tiers[i].fee
                 v == u \o g \o f
      <4>1. u \in Seq(Int) /\ g \in Seq(Int) /\ f \in Seq(Int)
        BY <1>1, AmountIsSeq
      <4>2. \A k \in DOMAIN v : v[k] = 0
        BY <2>10 DEF ZeroPriced, Values
      <4> HIDE DEF u, g, f
      <4>3. /\ v \in Seq(Int) /\ Len(v) = Len(u) + Len(g) + Len(f) /\ DOMAIN v = 1..Len(v)
            /\ \A k \in 1..Len(g) : v[Len(u) + k] = g[k]
            /\ \A k \in 1..Len(f) : v[Len(u) + Len(g) + k] = f[k]
        BY <4>1
      <4>4. \A k \in 1..Len(g) : Len(u) + k \in DOMAIN v
        BY <4>1, <4>3
      <4>5. \A k \in 1..Len(f) : Len(u) + Len(g) + k \in DOMAIN v
        BY <4>1, <4>3
      <4>6. DOMAIN g = 1..Len(g) /\ DOMAIN f = 1..Len(f)
        BY <4>1
      <4> HIDE DEF v
      <4>7. \A k \in DOMAIN g : g[k] = 0
        BY <4>2, <4>3, <4>4, <4>6
      <4>8. \A k \in DOMAIN f : f[k] = 0
        BY <4>2, <4>3, <4>5, <4>6
      <4>9. \A k \in DOMAIN g : g[k] >= 0
        BY <4>7
      <4>10. \A k \in DOMAIN f : f[k] >= 0
        BY <4>8
      <4> QED BY <4>9, <4>10 DEF g, f
    <3>3. /\ x.gross \in {o.gross, p.gross, b.gross} /\ x.fee \in {o.fee, p.fee, b.fee}
      BY <1>4, <3>1, FirstOfFour
    <3> HIDE DEF x
    <3>4. /\ \A k \in DOMAIN x.gross : x.gross[k] >= 0
          /\ \A k \in DOMAIN x.fee : x.fee[k] >= 0
      BY <3>2, <3>3 DEF o, p, b
    <3>5. DOMAIN None = {}
      BY DEF None
    <3>6. y.unit = None /\ y.gross = x.gross /\ y.fee = x.fee
      BY <3>1
    <3> HIDE DEF y
    <3>7. NonNegative(y)
      BY <3>4, <3>5, <3>6 DEF NonNegative
    <3> QED BY <2>3, <3>1, <3>7 DEF x, y
  <2> QED BY <2>9, <2>10
<1> QED BY <1>13, <1>15 DEF UsesValidated

\* Amounts that are read are those that were validated (resolveActivityAmounts,
\* selectPricedActivityTier).
THEOREM AmountsAreValidated == Spec => []AmountsAsValidated
<1>1. TypeOK => AmountsAsValidated
  BY RatesAssumption, AmountsAgree DEF TypeOK, AmountsAsValidated
<1> QED BY <1>1, RatesTypeCorrect, PTL
=============================================================================
