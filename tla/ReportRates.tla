---------------------------- MODULE ReportRates ----------------------------
(***************************************************************************)
(* The reports of one session of the terminal: the inputs of a report are  *)
(* read from the unlocked history, each amount is converted into the base  *)
(* currency with the rate its authority published, and the report is       *)
(* calculated, rendered, saved and opened.                                 *)
(*                                                                         *)
(* Rates are asked for one at a time, as the conversion reaches them, and  *)
(* are kept for the rest of the session, whatever history is unlocked; in  *)
(* the meantime the authorities publish and revise them. A currency has a  *)
(* rate on some days only.                                                 *)
(***************************************************************************)
EXTENDS ActivityAmounts

CONSTANTS Histories,   \* histories that may be unlocked first
          Resynced,    \* bound: histories a later sync or unlock may bring
          Codes,       \* the three-letter currency codes
          Directions,  \* by authority and currency it lists: the quote direction
          Days,        \* a range of days
          DaysPerYear,
          Lookback,    \* days before the activity that are asked for
          Tables,      \* what may be published at the start
          Cells,       \* bound: what a publication may put into a cell
          MaxRevisions, MaxReports   \* bounds

Bases == {"EUR", "USD"}
Absent == 0       \* no row, or no column, for the day
Blank == -1       \* a row without a value
Malformed == -2   \* a value that is no positive number
IsRate(cell) == cell > 0

\* The cells of one authority, by currency and day.
Table(base, cells) == cells \in [DOMAIN Directions[base] -> [Days -> Int]]

ASSUME RatesAssumption ==
    /\ Resynced \subseteq Histories /\ Days \subseteq Nat
    /\ \A s \in Histories :
          /\ Len(s) \in Nat /\ DOMAIN s = 1..Len(s)
          /\ \A k \in DOMAIN s : WellFormed(s[k]) /\ SupportedAmounts(s[k]) /\ s[k].day \in Days
    /\ DaysPerYear \in Nat \ {0} /\ Lookback \in Nat /\ Cells \subseteq Int
    /\ DOMAIN Directions = Bases
    /\ \A base \in Bases : \A source \in DOMAIN Directions[base] :
          source \in Codes /\ Directions[base][source] \in {"source_per_base", "base_per_source", "ambiguous"}
    /\ \A table \in Tables : DOMAIN table = Bases /\ \A base \in Bases : Table(base, table[base])
    /\ MaxRevisions \in Nat /\ MaxReports \in Nat

VARIABLES
    published,  \* by base and currency: the cell of each day
    revisions,  \* so far
    unlocked,   \* the history in memory
    rates,      \* the session's cache: evidence by currency, base and day
    phase,      \* where the report is
    attempt,    \* reports asked for so far
    report,     \* the report being made
    outcome,    \* how the last one ended
    asOf,       \* history variable: what was published when a rate was fetched
    finished    \* history variable: the reports saved, with their history
env == <<published, revisions, unlocked>>
hist == <<asOf, finished>>
vars == <<env, rates, phase, attempt, report, outcome, hist>>

Years == {d \div DaysPerYear : d \in Days}
LastDay(year) == (year + 1) * DaysPerYear - 1

NoReport == [base |-> "EUR", lastDay |-> 0, inputs |-> <<>>, converted |-> <<>>,
             audit |-> <<>>, sources |-> <<>>]
NoOutcome == [result |-> "none", reason |-> "none", blamed |-> None,
              diagnostic |-> "none"]

Init ==
    /\ published \in Tables /\ revisions = 0 /\ unlocked \in Histories
    /\ rates = <<>> /\ phase = "idle" /\ attempt = 0 /\ report = NoReport
    /\ outcome = NoOutcome /\ asOf = <<>> /\ finished = {}
-----------------------------------------------------------------------------
(* The authorities, and the rest of the application.                       *)

Converting == phase = "convert" /\ Len(report.converted) < Len(report.inputs)
NextInput == report.inputs[Len(report.converted) + 1]

\* What is published matters only when it is read: at any other time, or for
\* any other currency, a revision and a step of the report can be taken in either
\* order.
Revise ==
    /\ phase = "ask" /\ revisions < MaxRevisions
    /\ \E d \in Days, cell \in Cells :
          /\ published[report.base][NextInput.currency][d] # cell
          /\ published' = [published EXCEPT ![report.base][NextInput.currency][d] = cell]
    /\ revisions' = revisions + 1
    /\ UNCHANGED <<unlocked, rates, phase, attempt, report, outcome, hist>>

\* A sync, or another token, brings another history; the cache stays.
Unlock ==
    /\ phase = "idle" /\ \E s \in Resynced \ {unlocked} : unlocked' = s
    /\ attempt > 0 /\ attempt < MaxReports
    /\ UNCHANGED <<published, revisions, rates, phase, attempt, report, outcome, hist>>
-----------------------------------------------------------------------------
(* How an attempt ends.                                                    *)

\* In development mode the diagnostic is written at once; it may fail to be.
Diagnostics == {"eligible", "written"}

\* Mutant: the rates are forgotten with the report they were fetched for.
EndsForgetting(o) ==
    /\ phase' = "idle" /\ outcome' = o /\ report' = NoReport /\ rates' = <<>>
    /\ UNCHANGED env

\* Nothing is kept of a report that has ended but what is in the Documents folder
\* (ReportOutput).
Ends(o) == /\ phase' = "idle" /\ outcome' = o /\ report' = NoReport
           /\ UNCHANGED <<env, rates>>

\* blamed: the activity the message and the diagnostic name.
Fails(reason, blamed) ==
    /\ \E diagnostic \in Diagnostics :
          Ends([result |-> "failed", reason |-> reason, blamed |-> blamed,
                diagnostic |-> diagnostic])
    /\ UNCHANGED <<attempt, hist>>

\* Later, from the result screen; when it fails it can be asked for again.
WriteDiagnostic ==
    /\ phase = "idle" /\ outcome.diagnostic = "eligible"
    /\ outcome' = [outcome EXCEPT !.diagnostic = "written"]
    /\ UNCHANGED <<env, rates, phase, attempt, report, hist>>
-----------------------------------------------------------------------------
(* Reading the history.                                                    *)

ReportableYears == {unlocked[k].day \div DaysPerYear : k \in DOMAIN unlocked}

\* readAvailableCache: nothing to report on.
Refuse ==
    /\ phase = "idle" /\ attempt < MaxReports
    /\ attempt' = attempt + 1
    /\ \E year \in Years \ ReportableYears :
          Ends([NoOutcome EXCEPT !.result = "refused",
                !.reason = IF ReportableYears = {} THEN "no_reportable_years"
                           ELSE "unsupported_report_calculation"])
    /\ UNCHANGED hist

\* The records that a report through lastDay reads and has no input for.
Unreadable(lastDay) ==
    {k \in ReadThrough(unlocked, lastDay) : ~HasInput(unlocked[k])}

Generate ==
    /\ phase = "idle" /\ attempt < MaxReports
    /\ \E year \in ReportableYears, base \in Bases :
          /\ Unreadable(LastDay(year)) = {}
          /\ report' = [NoReport EXCEPT !.base = base, !.lastDay = LastDay(year),
                            !.inputs = InputsThrough(unlocked, LastDay(year))]
    /\ attempt' = attempt + 1 /\ phase' = "convert" /\ outcome' = NoOutcome
    /\ UNCHANGED <<env, rates, hist>>

\* The first of them, in the order of the history, is named.
RefuseInput ==
    /\ phase = "idle" /\ attempt < MaxReports
    /\ \E year \in ReportableYears, diagnostic \in Diagnostics :
          LET unreadable == Unreadable(LastDay(year)) IN
          /\ unreadable # {}
          /\ Ends([result |-> "failed", reason |-> "unsupported_report_calculation",
                   blamed |-> <<unlocked[Min(unreadable)]>>, diagnostic |-> diagnostic])
    /\ attempt' = attempt + 1
    /\ UNCHANGED hist
-----------------------------------------------------------------------------
(* Converting the next input.                                              *)

Key(input) == [source |-> input.currency, base |-> report.base, day |-> input.day]
KeyOf(evidence) == [source |-> evidence.source, base |-> evidence.base, day |-> evidence.day]

Foreign(input) == ~input.zero /\ input.currency # report.base

\* Mutant: the record at the place of the input, though inputs go by asset.
RecordAtPlace(input) == <<unlocked[Len(report.converted) + 1]>>

\* The records are indexed by source id, the last one of an id wins.
RecordOf(input) == <<unlocked[Max({k \in DOMAIN unlocked : unlocked[k].id = input.id})]>>

ConversionFails(input, reason) == Fails(reason, RecordOf(input))

KeepAsIs ==
    /\ Converting /\ ~Foreign(NextInput)
    /\ report' = [report EXCEPT !.converted = Append(@, [NextInput EXCEPT !.currency = report.base])]
    /\ UNCHANGED <<env, rates, phase, attempt, outcome, hist>>

\* The currency is no code at all, or one the authority does not list.
CannotConvert ==
    /\ Converting /\ Foreign(NextInput) /\ Key(NextInput) \notin DOMAIN rates
    /\ \/ NextInput.currency \notin Codes
          /\ ConversionFails(NextInput, "invalid_activity_currency")
       \/ NextInput.currency \in Codes \ DOMAIN Directions[report.base]
          /\ ConversionFails(NextInput, "unsupported_currency")

Ask ==
    /\ Converting /\ Foreign(NextInput) /\ Key(NextInput) \notin DOMAIN rates
    /\ NextInput.currency \in DOMAIN Directions[report.base]
    /\ phase' = "ask"
    /\ UNCHANGED <<env, rates, attempt, report, outcome, hist>>

\* The rows of an answer: the days asked for, or more of them.
Rows(input) ==
    LET table == published[report.base][input.currency]
    IN  {[d \in asked |-> table[d]] :
            asked \in {Days, {d \in Days : d \in (input.day - Lookback)..input.day}}}

\* Mutant: rows after the activity are read as well.
ObservedAny(rows, day) == {d \in DOMAIN rows : rows[d] # Absent}

\* Rows after the activity are skipped.
Observed(rows, day) == {d \in DOMAIN rows : d <= day /\ rows[d] # Absent}

\* A row without a value is skipped in the one format and an error in the other.
Usable(rows, day) ==
    IF report.base = "USD" THEN {d \in Observed(rows, day) : rows[d] # Blank} ELSE Observed(rows, day)

AnswerReason(rows, input) ==
    CASE Directions[report.base][input.currency] = "ambiguous"          -> "ambiguous_quote"
      [] \E d \in Usable(rows, input.day) : ~IsRate(rows[d])            -> "malformed_rate"
      [] Usable(rows, input.day) = {}                                   -> "missing_rate"
      [] OTHER                                                          -> "none"

\* The latest observation on or before the day of the activity.
Evidence(rows, input) ==
    LET date == Max(Usable(rows, input.day))
    IN  [source |-> input.currency, base |-> report.base, day |-> input.day, date |-> date,
         rate |-> rows[date], direction |-> Directions[report.base][input.currency]]

Put(map, key, value) == [k \in DOMAIN map \cup {key} |-> IF k = key THEN value ELSE map[k]]

Answered ==
    /\ phase = "ask"
    /\ \E rows \in Rows(NextInput) :
          /\ AnswerReason(rows, NextInput) = "none"
          /\ rates' = Put(rates, Key(NextInput), Evidence(rows, NextInput))
    /\ asOf' = Put(asOf, Key(NextInput), published[report.base][NextInput.currency])
    /\ phase' = "convert"
    /\ UNCHANGED <<env, attempt, report, outcome, finished>>

\* An answer that cannot be read at all, or, in the format that has a row for each
\* currency, one without a row for this one.
NoRows == {"malformed_rate"} \cup IF report.base = "USD" THEN {"unsupported_currency"} ELSE {}

AnswerRejected ==
    /\ phase = "ask"
    /\ \E reason \in NoRows \cup {AnswerReason(rows, NextInput) : rows \in Rows(NextInput)} :
          reason # "none" /\ ConversionFails(NextInput, reason)

\* Mutant: nothing gives the request up.
ProviderHangs == phase = "ask" /\ UNCHANGED vars

\* No connection, a status that is no success, or no whole body within fifteen
\* seconds.
Unavailable ==
    /\ phase = "ask"
    /\ ConversionFails(NextInput, "provider_unavailable")

ConvertedInput(input, evidence) ==
    [input EXCEPT !.currency = report.base, !.unit = Converted(@, evidence),
                  !.gross = Converted(@, evidence), !.fee = Converted(@, evidence)]

NonNegative(input) == \A v \in {input.unit, input.gross, input.fee} : \A k \in DOMAIN v : v[k] >= 0

Listed(sources, evidence) == IF Contains(sources, evidence) THEN sources ELSE Append(sources, evidence)

ValidEvidence(evidence) ==
    /\ evidence.source # evidence.base /\ evidence.date <= evidence.day
    /\ IsRate(evidence.rate) /\ evidence.direction \in {"source_per_base", "base_per_source"}

\* What the annex lists of a converted input.
AuditEntry(input, evidence) ==
    [id |-> input.id, evidence |-> evidence,
     amounts |-> {field \in {"unit", "gross", "fee"} : input[field] # None}]

ValidEntry(entry) == entry.amounts # {} /\ ValidEvidence(entry.evidence)

Convert ==
    /\ Converting /\ Foreign(NextInput) /\ Key(NextInput) \in DOMAIN rates
    /\ LET evidence == rates[Key(NextInput)]
           entry == AuditEntry(NextInput, evidence)
           valid == NonNegative(NextInput) /\ ValidEntry(entry) IN
       \/ /\ valid
          /\ report' = [report EXCEPT
                 !.converted = Append(@, ConvertedInput(NextInput, evidence)),
                 !.audit = Append(@, entry),
                 !.sources = Listed(@, evidence)]
          /\ UNCHANGED <<env, rates, phase, attempt, outcome, hist>>
       \/ ~valid /\ ConversionFails(NextInput, "unsupported_report_calculation")
-----------------------------------------------------------------------------
(* The rest of the report.                                                 *)

OneCurrency(inputs) == \A j, k \in DOMAIN inputs : inputs[j].currency = inputs[k].currency

\* The source ids of the year's activities that were in the base currency already:
\* the section of an asset with an activity in the year is never left out.
SameCurrencyRows(r) ==
    {r.inputs[k].id : k \in {k \in DOMAIN r.inputs :
        r.inputs[k].currency = r.base /\ r.inputs[k].day > r.lastDay - DaysPerYear}}

\* The checks of the finished report: its rates are of its base, every converted
\* activity has its rate among them and no row that says it was not converted.
Checked(r) ==
    /\ \A evidence \in ToSet(r.sources) : ValidEvidence(evidence) /\ evidence.base = r.base
    /\ \A entry \in ToSet(r.audit) : /\ ValidEntry(entry) /\ Contains(r.sources, entry.evidence)
                                     /\ entry.id \notin SameCurrencyRows(r)

\* The replay (AssetReplay), which may fail, and the checks.
Calculated ==
    /\ phase = "convert" /\ ~Converting
    /\ \/ /\ OneCurrency(report.converted) /\ Checked(report)
          /\ phase' = "render" /\ UNCHANGED <<env, rates, attempt, report, outcome, hist>>
       \/ Fails("unsupported_report_calculation", None)

Rendered ==
    /\ phase = "render"
    /\ \/ phase' = "save" /\ UNCHANGED <<env, rates, attempt, report, outcome, hist>>
       \/ Fails("unsupported_report_calculation", None)

\* ReportOutput is the writer: what it leaves in the folder then, and what the
\* user is told of it.
SaveFails ==
    /\ phase = "save"
    /\ \E reason \in {"documents_folder_unavailable", "report_file_write_failed"} :
          Fails(reason, None)

Saved ==
    /\ phase = "save"
    /\ phase' = "open"
    /\ finished' = finished \cup {[report |-> report, history |-> unlocked]}
    /\ UNCHANGED <<env, rates, attempt, report, outcome, asOf>>

\* The report is kept even if it cannot be opened. The writer has validated the
\* bundle, so the first check here never fails.
Opened ==
    /\ phase = "open"
    /\ \E reason \in {"none", "automatic_open_failed_after_save"} :
          Ends([NoOutcome EXCEPT !.result = "saved", !.reason = reason])
    /\ UNCHANGED <<attempt, hist>>

Next == \/ Revise \/ Unlock
        \/ Refuse \/ Generate \/ RefuseInput
        \/ KeepAsIs \/ CannotConvert \/ Ask
        \/ Answered \/ AnswerRejected \/ Unavailable \/ Convert
        \/ Calculated \/ Rendered \/ SaveFails \/ Saved \/ Opened \/ WriteDiagnostic

Spec == Init /\ [][Next]_vars

\* The program goes on, and a request is given up; no provider need answer.
Proceeds == KeepAsIs \/ CannotConvert \/ Ask \/ Convert \/ Calculated \/ Rendered
            \/ SaveFails \/ Saved \/ Opened
FairSpec == Spec /\ WF_vars(Proceeds) /\ WF_vars(Unavailable)
-----------------------------------------------------------------------------
(* Properties.                                                             *)

Evidences == [source : Codes, base : Bases, day : Days, date : Days, rate : Int,
              direction : {"source_per_base", "base_per_source"}]
Reasons == {"none", "no_reportable_years", "unsupported_report_calculation",
            "invalid_activity_currency", "unsupported_currency", "ambiguous_quote",
            "malformed_rate", "missing_rate", "provider_unavailable",
            "documents_folder_unavailable", "report_file_write_failed",
            "automatic_open_failed_after_save"}

TypeOK ==
    /\ DOMAIN published = Bases /\ \A base \in Bases : Table(base, published[base])
    /\ revisions \in 0..MaxRevisions /\ unlocked \in Histories
    /\ \A key \in DOMAIN rates : rates[key] \in Evidences
    /\ phase \in {"idle", "convert", "ask", "render", "save", "open"}
    /\ attempt \in 0..MaxReports
    /\ Len(report.converted) <= Len(report.inputs)
    /\ \A evidence \in ToSet(report.sources) : evidence \in Evidences
    /\ outcome.result \in {"none", "refused", "failed", "saved"} /\ outcome.reason \in Reasons
    /\ outcome.diagnostic \in Diagnostics \cup {"none"}
    /\ DOMAIN asOf = DOMAIN rates

\* Every rate of the session is the last one its authority had published, when
\* it was asked, for the day of the activity or a day before it: never a later
\* one, and never an older one when there was a newer (selectECBEXRObservation,
\* selectFederalReserveH10Observation).
RatesAsPublished ==
    \A key \in DOMAIN rates :
        LET evidence == rates[key]
            table == asOf[key]
        IN  /\ KeyOf(evidence) = key
            /\ evidence.date = Max({d \in Days : d <= key.day /\ IsRate(table[d])})
            /\ evidence.rate = table[evidence.date]

\* Two reports of a session convert a currency of one day at one rate, whatever
\* was revised, fetched or unlocked in between (CurrencyRateSessionCache).
SessionAgrees ==
    \A f, g \in finished :
        \A e \in ToSet(f.report.sources), d \in ToSet(g.report.sources) :
            KeyOf(e) = KeyOf(d) => e = d

\* A saved report has every activity of its history up to its year, once, those
\* of an asset in their order. Each is in the base currency: as it was, or every
\* amount converted at the one rate the report lists for its currency and day.
\* It lists and audits the rates it used and no others. A report whose inputs are
\* converted passes its own checks, unless two of its activities have one source
\* id (validateConversionArtifacts).
Worth(amount, converted, e) ==
    /\ DOMAIN converted = DOMAIN amount
    /\ \A k \in DOMAIN amount :
          IF e.direction = "base_per_source" THEN converted[k] = e.rate * amount[k]
          ELSE 2 * (e.rate * converted[k] - amount[k]) \in -e.rate..e.rate
Besides(input) == [input EXCEPT !.unit = None, !.gross = None, !.fee = None]
ReadBy(f) == ReadThrough(f.history, f.report.lastDay)
UniqueIds == \A j, k \in DOMAIN unlocked : unlocked[j].id = unlocked[k].id => j = k
WholeReport(f) ==
    LET r == f.report
        foreign == {k \in DOMAIN r.inputs : ~r.inputs[k].zero /\ r.inputs[k].currency # r.base}
        used(k) == {e \in ToSet(r.sources) : KeyOf(e) = [source |-> r.inputs[k].currency,
                                              base |-> r.base, day |-> r.inputs[k].day]}
    IN  /\ Len(r.inputs) = Cardinality(ReadBy(f)) /\ Len(r.converted) = Len(r.inputs)
        /\ \E place \in [ReadBy(f) -> DOMAIN r.inputs] :
              /\ \A k \in ReadBy(f) : r.inputs[place[k]] = Input(f.history[k])
              /\ \A j, k \in ReadBy(f) : j < k =>
                    place[j] # place[k] /\ (f.history[j].asset = f.history[k].asset => place[j] < place[k])
        /\ \A k \in DOMAIN r.inputs \ foreign :
              r.converted[k] = [r.inputs[k] EXCEPT !.currency = r.base]
        /\ \A k \in foreign : \E e \in used(k) :
              /\ used(k) = {e} /\ NonNegative(r.converted[k])
              /\ Besides(r.converted[k]) = Besides([r.inputs[k] EXCEPT !.currency = r.base])
              /\ \A field \in {"unit", "gross", "fee"} :
                    Worth(r.inputs[k][field], r.converted[k][field], e)
        /\ Len(r.audit) = Cardinality(foreign)
        /\ Len(r.sources) = Cardinality({KeyOf(e) : e \in ToSet(r.sources)})
        /\ ToSet(r.sources) = {r.audit[k].evidence : k \in DOMAIN r.audit}
ReportWhole ==
    /\ phase = "convert" /\ ~Converting /\ UniqueIds => OneCurrency(report.converted) /\ Checked(report)
    /\ \A f \in finished : WholeReport(f)

\* Sync and report choose their amounts apart, each value by itself or one tier
\* for all. When the first tier that says anything is complete they agree, so a
\* report uses the value and the fee that were validated (resolveActivityAmounts,
\* selectPricedActivityTier). The page checks, which come first, let every activity
\* through that can be validated.
Says(tier) == tier.currency # NoCurrency /\ Values(tier) # <<>>
UsesValidated(r) ==
    LET saying == {i \in 1..3 : Says(r.tiers[i])}
    IN  /\ HasBasisInput(r)
        /\ Complete(r, r.tiers[Min(saying)]) =>
            /\ HasInput(r)
            /\ ~Input(r).zero => Input(r).gross = ResolvedGross(r) /\ Input(r).fee = ResolvedFee(r)
            /\ NonNegative([Input(r) EXCEPT !.unit = None])
AmountsAsValidated == \A k \in DOMAIN unlocked : UsesValidated(unlocked[k])

\* A report that fails over an activity names that activity, as it is stored, as
\* long as no two stored activities have one source id (withInputDiagnosticRecord).
ConversionFailed == phase \in {"convert", "ask"} /\ phase' = "idle" /\ outcome'.blamed # None
CauseNamed ==
    [][UniqueIds /\ ConversionFailed =>
          (\E k \in DOMAIN unlocked : outcome'.blamed = <<unlocked[k]>> /\ Input(unlocked[k]) = NextInput)]_vars

\* Every report ends, also when a provider never answers (fetchProviderPayload).
ReportEnds == phase # "idle" ~> phase = "idle"
=============================================================================
