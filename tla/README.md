# A TLA+ model of ghostfolio-cryptogains

`ghostfolio-cryptogains` is a terminal application. It retrieves a user's activity history from a
Ghostfolio server, keeps it in local snapshots that only the user's security token opens, and
calculates yearly capital gains reports from it. This directory models the parts of it in which
something can go wrong that a unit test would hardly reach, checks them with TLC, and proves the
results that matter most with TLAPS. `PROJECT.json` lists, for each definition, the source lines it
models.

## The system

| Component | State | Operations | Hard behaviour |
|---|---|---|---|
| Atomic file replacement (`snapshot/store/store.go`) | the file under a path, a temporary file, on Windows a backup | `ReplaceFileAtomically` | any call may fail; kills and power losses between calls; concurrent callers; Windows needs two renames |
| Snapshot store and discovery (`snapshot/store`) | a directory of encrypted files with random names | `Candidates`, `DiscoverServerCandidates`, `Read`, `Write` | who owns a file is found out by trying the token; files of other owners, other versions, damaged files |
| Snapshot lifecycle (`app/runtime/snapshot_lifecycle.go`, `active_snapshot_state.go`) | the active readable snapshot, in memory | `DiscoverAndUnlock`, `UnlockSelectedServerSnapshot`, `Persist`, `CheckServerReplacement` | a refresh must replace the snapshot it unlocked and no other, although reading, network and writing are far apart |
| Sync service (`app/runtime/sync_service.go`) | none of its own | `Run`, `UnlockSelectedServerSnapshot` | failure at every stage; one time limit for the whole run |
| Terminal workflow (`tui/flow`) | screen, context, token, pending replacement, report and diagnostic state | `Update` on keys and on the answers of background work | answers are routed by the screen that is active when they arrive; the user keeps pressing keys |
| Setup store (`config/store`, `app/runtime/setup_service.go`) | `setup.json` | `Load`, `Save`, `Delete` | replaced atomically, while the interface goes on |
| Report service (`app/runtime/report_service.go`) | none of its own | `Generate` | reads the active snapshot later than the user chose it; a failure at every stage, after which message, diagnostic and folder must agree |
| Normalisation and validation (`sync/normalize`, `sync/validate`) | none | order, deduplicate, check holdings and amounts | ties, duplicates, the same entries in another order, three monetary contexts with parts missing |
| Cost basis (`report/basis`) and calculation (`report/calculate`) | lots, pools and scopes of one asset | `Acquire`, `Dispose`, replay of a history | rounding, ordering, partial matches, failures half-way |
| Exchange rates (`integration/currency`) | a session cache | `LookupRate` | provider failure and silence, earlier days, rates revised while they are kept |
| Report output (`report/output`) | files in the Documents directory | reserve names, write, clean up | other writers of the same names; failure between two files |
| Ghostfolio client (`ghostfolio/client`) | none | authenticate, user, paginated history | an account edited between pages, pages that do not add up, a deadline at any point |
| Envelope (`snapshot/envelope`), mapping, models, rendering, bootstrap, support | none or values only | pure functions | little that a unit test does not reach |

The terminal workflow calls the sync, report and setup services from background commands. The sync
service and the report service share one snapshot lifecycle, which holds the active snapshot and
writes through the snapshot store, which writes through the atomic replacement. Several
application processes may share the snapshot directory; nothing locks it.

## Modules

| Module | What it is |
|---|---|
| `AtomicReplace` | abstract: replacing one file takes effect at one instant; a power loss brings back a value that once reached the disk |
| `FileReplace` | `ReplaceFileAtomically` and `replaceFileWindows`, call by call |
| `FileReplaceProofs` | theorems about `FileReplace` |
| `ProtectedVault` | abstract: one register per owner (server and token), which only moves to newer data |
| `SnapshotLifecycle` | unlock and sync of several processes over one snapshot directory |
| `SnapshotLifecycleProofs` | theorems about `SnapshotLifecycle` |
| `SyncReportsFlow` | the root model of the terminal interface with its background jobs |
| `SyncReportsFlowProofs` | theorems about `SyncReportsFlow` |
| `ReportOutput` | `WriteReportOutputBundle`: the files of one report, reserved, written and cleaned up |
| `ReportOutputProofs` | theorems about `ReportOutput` |
| `AssetReplay` | the replay of one asset's history into yearly reports, under every cost basis method |
| `AssetReplayProofs` | theorems about `AssetReplay` |
| `ActivityHistory` | operators: from retrieved entries to a normalised, validated history |
| `HistorySync` | one sync: requests, pages, deadline, build and write, against a server that is edited meanwhile |
| `HistorySyncProofs` | theorems about `HistorySync` |
| `ActivityAmounts` | operators: the amounts of an activity, as a sync validates and as a report reads them |
| `ReportRates` | the reports of a session: inputs, currency boundary, rates and their cache, saving and opening |
| `ReportRatesProofs` | theorems about `ReportRates` |
| `FoldTheorems` | facts the proofs share: induction over finite sets, sums over sets of every size, a finite set put in a given order |
| `MC...` | instances for TLC |

### FileReplace

`pc[w]` is the call that `w` makes next; each action is one filesystem call (or a few between which
nothing can be observed) with its success and its failure. `target` and `backup` are what the two
names hold, `durable` what they would hold after a power loss. A file is its bytes and whether they
were synced: `Survivor` is what a power loss leaves. Bytes are members of `Contents`, or `Torn`.
`Begin` is the call, `Cleanup` the deferred removal and the return. `Die` kills a caller's process.
The rename is assumed atomic for readers and ordered on disk, which POSIX filesystems give.
`AtomicReplace` is implemented on POSIX under the mapping at the end of the module. On Windows it
is not: between the two renames there is no file under the path.

### SnapshotLifecycle

`files` is the directory, `call[a]` the locals of the one unlock or sync a process runs, `active[a]`
the active snapshot in its memory. A file is its owner, the outcome of its two version checks, its
registered local user and the stamp of its data. The steps of a sync are those between which
another process can act: `List` (`Candidates` and the server filter), `Read` (one candidate),
`NothingFound`, `Fetch` (authentication, retrieval, mapping, normalisation and validation, which
touch no shared state) and `Persist`. `Quit` covers ctrl+c, a crash and a new start, because all a
process keeps is in memory. A write is one step because `FileReplace` implements `AtomicReplace` on
POSIX; it may fail before the rename or, in `applyPathMode`, after it. The replacement gate of
`Run` is in `SyncReportsFlow`, whose screens are where it is answered.

`ProtectedVault` is what a user is promised: a register for each owner that only its own refreshes
move, forwards, and of which a process shows exactly what it opened.

### SyncReportsFlow

`screen`, `config`, `ctx`, `sync`, `pending`, `report` and `result` are the fields of the root model
that decide what happens; `active` is the runtime's active snapshot. `jobs` holds the syncs, reports and
diagnostics that run or have answered, `saves` the setup saves. `User` has one action for each menu row
or key that does something; `RunSync`, `RunReport`, `RunDiagnostic` and `RunSave` are the background
work; `SyncFinished`, `ReportFinished`, `DiagnosticFinished` and `SetupSaved` the handlers of the answers,
and `Lost` an answer that the active screen does not handle. `CtrlC` leaves a gap before the program ends in
which keys and answers still arrive. `Relaunch` is the next start, from the files alone.
The unlock is a synchronous call in the code, so it is one step here.

### ReportOutput

`folder` is the Documents directory, `job[a]` the locals of one call: where it is, the suffix it
tries, how many of its documents are reserved, written and cleaned up, and what its error will name.
All attempts build the same name stem, which is what makes them meet: same year, method and second.
Every action is a call on one file, or a few whose intermediate states nobody can tell apart.
`ReserveName` is the exclusive creation; `GiveUpName` the one that fails, because the name is taken or for
another reason; `TryNextSuffix` goes on only after a clean-up that removed everything.

### AssetReplay

`Record` is the environment: a history that the sync's validation accepts, in order and never below
zero for the asset as a whole. `Begin(y)` starts the report of a year, `Finish` ends it; between them
`pos` counts the replayed activities and `books` holds, for each scope, either exact lots or a pool.
The methods without scopes keep everything under `Asset`. A disposal through lots is several steps:
`DisposeLots` fixes the order of the lots, as `openLotIndexes` does (`DisposalOrder` is the one sequence of the open
lots that follows `Before`), `TakeLot` is one round of the loop, `EndLots` what follows the loop. `DisposePool` is a disposal from an average pool, and of a hybrid
scope that falls back. `Abort` is an error anywhere, which fails the whole report. Amounts are
integers; a division is rounded half up to a multiple of `Grain`, as the code rounds to 16 decimals.
With `Grain = 1` amounts have the precision of a division; a larger `Grain` gives them more digits, as a product of
two decimals has.

The properties compare what the replay ends with to what the history says without replaying it:
the lots left under FIFO and LIFO and the scopes in fallback (`BooksByHistory`), the sections and the
count of full liquidations (`SectionsByHistory`), opening and closing positions (`ReportsAgree`).

### ActivityHistory and HistorySync

`ActivityHistory` has no state: `MapActivities`, `InOrder`, `StableOrder`, `Deduplicated`, `Validates` and
`Normalised` are the functions of the mapper, the normaliser and the validator. An activity is what they
look at; `body` stands for everything else the hash of a record covers, and `asset` for the identity, which
it does not cover. `Row` puts the places of a history in an order: by the order of the activities, and by where they
came in among those that are alike, it is the stable sort. `HeldAfter`, `SupportedContents` and `ReliabilityOf` say what a history
must be from the set of its contents alone.

In `HistorySync`, `phase` is where the run is, `request` which of its requests, `got` and `expected` are
the locals of `FetchActivitiesHistory`. A request is `Send`, then the status (`Accepted`, `Refused`,
`Unreachable`, `TimesOut`), then the body (`ReadAuth`, `ReadUser`, `ReadPage`, `RefusePage`, `Undecodable`,
`BodyTimesOut`). `Expire` is the deadline of `context.WithTimeout`, which the program notices at its next wait.
`Build` and `RefuseHistory` are the mapping, normalisation and validation, `Persist` the write (one
step, as in `SnapshotLifecycle`). The account is `server`: `Insert`, `Delete`, `Change` and `Reorder` edit it between two
pages. A server sends the next entries, from none to one more than asked for. An honest one counts what it
has; another one reports any of `Counts`.

### ActivityAmounts and ReportRates

An activity keeps up to three monetary contexts (order, asset profile, account). A sync validates each
amount from the first context that states it (`ResolvedGross`, `ResolvedUnit`, `ResolvedFee`); a report takes one whole
context (`Complete`, `PricedInput`, `ZeroPricedInput`) and converts it (`Converted`). A report reads its activities
asset by asset, in the order in which assets first appear (`InputOrder`).

In `ReportRates`, `unlocked` is the active history, `report` the report being made, `rates` the session cache, `published`
what the authorities publish. `Generate`, `Refuse`, `Unreadable` and `RefuseInput` start a report;
`KeepAsIs`, `CannotConvert`, `Ask` and `Convert` are the rounds of the currency boundary; `Answered`, `AnswerRejected` and
`Unavailable` end a request; `Calculated`, `Rendered`, `Saved`, `SaveFails` and `Opened` are the rest. `ConversionFails` names
the activity that the message and the diagnostic name. `Checked` is the validation of the finished
report, `ValidEvidence` and `ValidEntry` those of its parts. `Calculated` stands for the replay, which is
`AssetReplay`, and the writing of files is one step here, as `ReportOutput` has the calls. `Revise` is the
authority, `Unlock` a sync or another context.

## Runs

| Run | Shows | Bounds |
|---|---|---|
| `replace_posix` | type, `ImplementsAtomicReplace` | two callers, two contents: every way two calls of different contents overlap |
| `replace_windows` | `NeverTorn`, `CopyHeld` | one caller, because a second Windows caller for one path removes the backup of the first; two contents |
| `replace_windows_gap` | finding: `PreviousFileFound` is violated | one caller |
| `lifecycle_single` | type, `OneSnapshotPerOwner`, `ActiveHasFile`, `NoForeignOverwrite`, `ImplementsVault` | one process, reliable reads, three identifiers, two servers, two tokens, three retrievals; the directory may hold a readable file, one with an unknown payload version, one with an unknown envelope version and a damaged one. Several processes and unreliable reads are left to the theorems |
| `flow` | type, the four invariants below, `BusyEnds` | two servers, two tokens, one save in flight, two attempt identifiers (reused once no job carries them; the code's are never reused); every history has reportable years |
| `flow_stale_data` | finding: `DataMatchesContext` is violated | as `flow`, histories with and without reportable years |
| `report_output` | type, `FolderAsTold`, `OthersKept`, `EveryAttemptReturns` | two attempts of either format, names up to suffix 3, of which those with suffix 1 may be taken: both formats and roles meet, and no search reaches the bound |
| `asset_replay` | type, `BasisConserved`, `BooksByHistory`, `DearestTaken`, `ReportsAgree`, `SectionsByHistory`, `FailsOnlyOversold` | all methods, two years, histories of five activities (four in the hybrid method, with two scopes and activities without one); every purchase of one or two units costs one grain, so that every division rounds: three lots are open at once, and a scope falls back, becomes empty and starts again |
| `replay_unit_cost` | finding: `UnitCostFirst` is violated | one purchase and one disposal |
| `history_sync` | type, `StoredByContents`, `RetrievedAsListed`, `StoredWhole`, `NoIdentityOversold`, `RunEnds` | every account of up to three of nine activities that differ in what the code tells apart (edited copy, same day, lower-case type, another scope, symbol or identity, an unsupported type, an unreadable entry); pages of none, one or two activities where one was asked for; two edits between pages; counts -1, 0, 1, 3 and 4 |
| `sync_timeout` | finding: `TimeoutReported` is violated | as `history_sync` |
| `report_rates` | type, `RatesAsPublished`, `SessionAgrees`, `ReportWhole`, `AmountsAsValidated`, `CauseNamed`, `ReportEnds` | two reports; two years, days 0 to 4; two tables of rates with missing, blank and malformed cells, one revision; nine histories of up to three activities (both bases, an unknown and a malformed currency, a zero-priced reduction, two assets that alternate, one source id twice) and every single activity that the mixtures of a few contexts give and a sync accepts |

In `flow`: `JobKeepsContext` (a sync and a report never overlap, and the sync in flight is the one of
the context on the screen), `NothingLeftBehind` (no token or report state survives the way back to the
main menu), `ReplacementConfirmed` (the gate asked on the screen is still right when the job runs) and
`ShownDataHolds` (a report is of the data the context shows, although it is read later, and the menu follows a
successful sync).

In `report_output`: `OthersKept` (FR-025 of `specs/009-final-report-adjustments`: no attempt touches a file it
did not reserve) and `FolderAsTold` (a bundle reported as saved is complete on disk; the error of a failed
attempt names exactly what it left, and its message says that something may be left exactly when something is).

In `asset_replay`: `BasisConserved` (rounding loses no basis), `DearestTaken` (HIFO follows unit costs that rounding
changes), `BooksByHistory` (lots, fallback and the provenance queue beside a pool are those the history alone
gives), `ReportsAgree` (a report adds up and joins the one before), `SectionsByHistory` (which sections an asset has; a
gain of the year is always in the total) and `FailsOnlyOversold` (a valid history fails only for a
disposal beyond a reliable scope, which the sync does not check). Amounts have no more digits than a division gives
there; what finer ones do is under the findings.

In `history_sync`: `StoredByContents` (what is stored, and whether anything is, depends on the contents retrieved and
not on their order, pages or copies), `RetrievedAsListed` (a history retrieved in whole is the account as
first listed, unless edits kept the count), `StoredWhole` (nothing is stored of a history short of its count)
and `NoIdentityOversold` (the check by symbol is enough where symbols and identities correspond).

In `report_rates`: `RatesAsPublished` (the latest usable rate on or before the day, when it was asked for),
`SessionAgrees` (one rate per currency and day, whatever is revised or unlocked), `ReportWhole` (every activity once, in
order, in one currency at a listed rate; the checks of the finished report pass), `AmountsAsValidated`
(where the first context that says anything is complete, the report uses what the sync validated) and `CauseNamed`
(message and diagnostic name the activity that made the report fail).

In `report_rates` a revision is taken only while an answer is awaited, and only for the row asked for: at any
other time, or of any other row, it commutes with the steps of the report.

Symmetry is used for scopes in `asset_replay` and for tokens and attempts in `flow_stale_data`; no run with a
liveness property uses it. Deadlock is checked in every run but those of `ReportOutput`, where each attempt runs
once, of `AssetReplay`, where the history is bounded and each report made once, of `HistorySync`, one run, and of
`ReportRates`, a bounded session: those really end. In the others `Quit`, `PowerLoss` and `Kill` are always
possible.

### Fairness

`BusyEnds` assumes weak fairness of running jobs, of taking their answers and of the end of the
program after ctrl+c. `Run` of the sync service puts a time limit on the whole attempt
(`context.WithTimeout`, 30 s by default), the exchange-rate providers have one for each request, and
everything else a report does is local; the commands of the interface are goroutines and its event
loop takes every message. Nothing is assumed of the user. `EveryAttemptReturns` assumes that every call on a
local file returns, and nothing of the order in which attempts run.

`RunEnds` assumes that the deadline passes (`Expire`), that a wait past it is given up (`TimesOut` or
`BodyTimesOut`, which `net/http` does with the context of a request), and that the local phases go on. Nothing is
assumed of the server, which need never answer. `ReportEnds` assumes that the program goes on between requests and
that a request is given up after the fifteen seconds of `provider_http.go`; nothing of the providers or the
user.

## Findings

Four runs end in a violation, each of a sentence the repository says of the program:

- **Windows replacement** (`replace_windows_gap`). After an interrupted replacement no file has the
  path's name; the backup is never looked at and removed by the next replacement.
- **Data of another context** (`flow_stale_data`). The active snapshot is not cleared when a context
  without one is opened; a failed sync then shows it, and offers its report, in the new context.
- **Unit cost** (`replay_unit_cost`). The basis of a partial disposal is multiplied first and divided
  then, which FR-019b of `specs/005-generate-gains-report` forbids; for two of three units bought for 1 the
  two orders differ in the last decimal. The unit tests of the methods expect the code's result.
- **Timeout in a body** (`sync_timeout`). A deadline that passes while a response body is read makes the
  decoding fail, and the run reports an incompatible server contract instead of a timeout.

More was met while modelling and has no run of its own:

- Discovery passes over every read error but an unsupported version (`snapshot_lifecycle.go:135`). With
  `FlakyReads = TRUE`, `OneSnapshotPerOwner` does not hold: after a transient error the next sync writes a
  second file for the owner, with a new registered local user, although `README.md:151` of the repository says
  that a refresh with the same token replaces its snapshot.
- The answer of a setup save is handled on the setup screen only (`setup_flow.go:20`). Leaving it while the save
  runs loses the answer: `setup.json` names the new server, the run goes on with the old one.
- Any Ghostfolio failure but a rejection opens the context menu for a token that nobody verified
  (`UnlockNewContext`), although FR-002 of `specs/005-generate-gains-report` asks for authentication first.
- Amounts and products are not rounded, divisions are (`decimal_ops.go:406`), so that a part of a basis may be rounded
  up above the whole: of 3 units bought for 0.8 of the last decimal, 2 get 0.53, rounded to 1. The negative rest is
  refused (`audit_activity_entry.go:103`) and fails the report of a valid history, although line 136 of
  `specs/005-generate-gains-report/spec.md` says that report generation succeeds. With `Grain = 10`, `Costs = {8}`,
  `Quantities = {1, 2, 3}` and two activities, `FailsOnlyOversold` does not hold.
- Source ids need not be unique. The failure of an activity names the last one of its id
  (`currency_conversion.go:130`), and a report with one converted and one unconverted activity of one id is always
  refused by its own checks (`capital_gains_report.go:186`): without `UniqueIds`, `CauseNamed` and `ReportWhole` do
  not hold.
- A sync accepts activities that no report can be made of, when no single context has all amounts (`Unreadable`);
  where the first context is incomplete, the amounts a report uses may be others than those validated.
- A row without a value is skipped in the format of the Federal Reserve and fails the lookup in that of the ECB.
- A history with the count unchanged (an insertion and a deletion, a change or another order between two pages) is
  stored although it never was the account's; nothing in the interface of the server would show it.

## Proofs

| Theorem | For every |
|---|---|
| `FileReplaceProofs!TypeCorrect`, `NoTornFile` | set of callers and contents, both platforms |
| `FileReplaceProofs!PosixPreserves`, `PosixImplements` | set of callers and contents, POSIX |
| `FileReplaceProofs!CopyAlwaysHeld` | set of contents, both platforms, one caller |
| `SnapshotLifecycleProofs!TypeCorrect`, `ForeignFilesSafe`, `ActiveBacked` | set of processes, identifiers, servers, tokens and seeds, with or without unreliable reads |
| `SnapshotLifecycleProofs!OneSnapshotEach`, `FilesImplementVault` | set of identifiers, servers, tokens and seeds, one process with reliable reads |
| `SyncReportsFlowProofs!FlowTypeCorrect`, `JobsKeepTheContext`, `NothingIsLeftBehind`, `ReplacementIsConfirmed`, `ShownDataIsHeld` | set of servers, tokens, attempts, saves and histories |
| `ReportOutputProofs!TypeCorrect`, `SavedBundleWhole`, `FailedNamesLeftovers`, `FolderTold`, `OthersFilesKept` | number of attempts, highest suffix and set of older files |
| `AssetReplayProofs!ReplayTypeCorrect`, `BasisIsConserved`, `DearestFirst`, `BooksFollow`, `SectionsFollow`, `ReportsTellOneStory` | method, length of the history, quantities, costs, scopes and unit of rounding |
| `AssetReplayProofs!NoReportFailsInVain` | the same, where costs are multiples of the unit of rounding |
| `HistorySyncProofs!SyncInvariant`, `SyncStoredWhole`, `SyncRetrievedAsListed`, `SyncTypeCorrect`, `SyncStoredByContents`, `SyncIdentitiesHeld` | set of activities and accounts, page size, number of edits, honest server or not |
| `ReportRatesProofs!RatesInvariant`, `RatesSessionAgrees` | set of histories, currencies, tables, revisions and number of reports |
| `ReportRatesProofs!RatesSession`, `RatesTypeCorrect`, `RatesArePublished`, `ReportsAreWhole`, `CauseIsNamed`, `AmountsAreValidated` | the same, and every mixture of the contexts of an activity |

**FileReplace.** `NeverTorn` is not inductive: a torn temporary file could be renamed. The inductive invariant adds what
each step knows of the temporary file: after `Sync` it holds the whole new
contents and is synced, so what `Install` renames is too, and so is everything `durable` ever
received. `PosixPreserves` needs that on POSIX no step takes a file away from the path.
`PosixImplements` maps the initial states and every step to `AtomicReplace`. `CopyAlwaysHeld` adds, for each step of the
Windows replacement, whether the previous file was moved aside and where a copy then is (`AsideInv`). It assumes
`LoneWriter`, because with a second caller it does not hold: its first step removes the backup of the other one.

**SnapshotLifecycle.** `NoForeignOverwrite` and `ActiveHasFile` rest on one invariant: what a running
call remembers of the candidate it unlocked is still true of the file, whatever other
processes did since, because a file under an identifier changes only to one of the same
owner and local user. `OneSnapshotPerOwner` needs more: a search that has found nothing so far has left no readable
file of its owner unread (`SearchInv`), so that a new file is written only where there is none. That is so only while
nobody else writes and a read fails for no other reason than the file (`LoneReader`); with two processes, or an
unreliable read, the code does write a second snapshot. `FilesImplementVault` maps the files to the registers of
`ProtectedVault`: there is one file to choose for each owner, and no stamp is ahead of the clock (`StampInv`), so a
refresh moves a register forwards. It assumes in addition that the first files carry the first stamp (`SeedsAreOld`).

**SyncReportsFlow.** None of the four invariants is inductive; they are proved together. `Stage` says what each screen
is reached with: which jobs may run there (`Placed`), at most one of them (`OneJobAtATime`), a token in every
opened context (`Opened`) and nothing of it outside (`Cleared`). `Held` ties jobs to the context: whose the sync in
flight is (`Owned`), that the gate it passed is still right (`ReplacementConfirmed`), and that the context shows what
the runtime holds unless a sync is about to change it (`Shown`), which is why a report that reads later reads the same.

**ReportOutput.** The invariant ties the locals of an attempt to the disk: the files that are its own
are exactly those it reserved and has not cleaned up, and those its clean-up could not remove. That is
what makes a reservation safe to give back, lets `TryNextSuffix` start from nothing, and makes the residual
paths of an error complete, and with them the message (`Told`). A step touches its own files only (`OwnOnly`), so
what the other attempts rely on stands: one lemma for all of them, and one for each action about the attempt that
takes it.

**AssetReplay.** The invariant is the type, `BasisConserved` and what a disposal in progress knows (`WorkInv`): the lots
it has still to take are open, each once and in the order it fixed, and while something is missing they are all that
is open (`Queued`). The basis is
conserved by each action for its own reason: a purchase adds what it costs; a lot or a pool is split into two
parts of which one is the difference, so that rounding moves the cut and never the sum; what takes all takes all of
the basis, so that an emptied scope gives up nothing; a scope that falls back pools exactly what its lots had. Sums over lots, scopes and
audit entries of any number are those of `FoldTheorems`. `DearestFirst` needs that `Before` is a total order of the open
lots, that a sequence in its order exists (`SortedExists`), and that taking the first lot leaves the rest in order.

The other theorems are about what a replay has to do with its history. `HistInv` is what the sync accepted (`InOrder`,
`AtCost`, `Covered`), and `QtyInv` that each book holds the sum of its own activities, less what a disposal in progress
took already; everything below rests on both.

- `NoReportFailsInVain`: where all costs are multiples of `Grain`, so is every basis (`BasisInv`), and what is
  allocated of such a basis is never rounded to more than there is. No step then finds a negative basis, and by
  `QtyInv` a disposal finds too little only in a reliable scope of its own. The hypothesis `GrainedCosts` is needed
  (see the findings); the instance of `asset_replay` satisfies it.
- `SectionsFollow`: `AccInv` says what the report has counted so far, in sums over the activities replayed. That a
  year with a gain is shown needs one more argument: if nothing is held at the end, the scope of a sale was emptied by
  that sale or by a later disposal, which is then of the same year (`LastEmpties`).
- `ReportsTellOneStory`: `OpenInv` ties the captured opening position and the activities of the year so far to what
  the books hold now. That two years join relates two reports made at different times, each by a replay of its own:
  `NextState` is the replay as a function and `Reached` what it comes to, and as it is between two activities only
  once (`OnlyOnce`), a history leaves one basis after its first `n` activities (`Leaves`). `TraceInv` says that the steps
  follow that function, `JoinInv` that the finished reports did.
- `BooksFollow`, first-in: since a scope was last empty its lots are its acquisitions, of which the units disposed
  of are missing from the oldest on (`OldestGone`), exact or as provenance beside a pool; it is pooled if one of its
  disposals found more than one lot open (`Crowded`). That is `FifoInv`. Last-in, of each lot is left what holdings
  never fell below since (`NewestGone`, `LifoInv`), in the middle of a disposal too: the lots after the newest open
  one are closed, so that holdings were never lower since than they are now (`LaterClosed`).

**HistorySync.** The invariant has two parts. `Counted` is what the loop over the pages knows: it waits for a
page only while activities are missing, so that it is left with exactly as many as were reported first; that gives
`StoredWhole`, whatever the server sends. `Traced` follows the edits: with none the account is the one listed, with
insertions alone it is longer, with deletions alone shorter, so that the count of the next page gives it away. Neither
`StoredWhole` nor `RetrievedAsListed` says anything of a run under way, hence both parts. `Judged` adds that what is kept
or refused was judged by what was retrieved. The rest is about the operators, for histories of every length.
`Precedes` orders activities by their keys (`LexOrders`, `PrecedesOrders`), and supported activities with one key are copies
(`SameKeySameHash`). Sorting moves each activity once (`InOrderIs`), and removing copies keeps the first of each run
(`DeduplicatedIs`), so that what is left is in strict order (`CopiesGone`). Activities that cannot be told
apart, which the code looks for between neighbours, are then between neighbours if anywhere (`AmbiguityAgrees`), and what is held
after an activity is a sum over the contents that do not come after it (`HoldingsAgree`, by `SumRenamed`). That makes the
verdict one on the contents (`SupportAgrees`). No holding falls below zero because only a sale can lower one and each
sale is looked at (`SymbolsHeld`).

**ReportRates.** The first invariant is `Remembered`: a rate is asked for only while the session has none for the
key, so it never changes, and every report lists rates the session has kept. `SessionAgrees` relates two finished
reports and follows only because
both list values of one function. The second, `Session`, is about the report being made. `Reading`: its inputs are
those of the active history, in their order, and a rate is only asked for a foreign one. `Made`: what is converted so
far is a prefix of the inputs, each determined by its input and the rates of the session, and audit and sources are
those of exactly that prefix; it speaks of a report and a cache, not of the variables, so that it survives a new rate by
one lemma (`MadeStays`) and a round of the boundary by two (`MadeAsIs`, `MadeConverted`).
`AsPublished`: of the rows an authority sends, those before the lookback and blank ones included, the chosen one is
the latest rate on or before the day (`LatestRate`). `ReportsAreWhole` adds that `InputOrder` exists and lists every activity once
(`OrderedOnce`), that a converted amount is within half a unit of its worth (`Rounding`), and, where source ids are unique,
that the checks of the finished report find each entry's activity. `AmountsAreValidated` compares the two
ways to read three contexts case by case.

**FoldTheorems.** The prover cannot instantiate induction theorems, which take an operator. A property of all finite
sets is therefore shown by taking a least set for which it fails (`LeastSet`), for the property written out in each
lemma: that the recursion behind a sum has a solution, that a sum does not depend on the order of its elements, and
that a finite set can be listed in a given order. `SumRenamed`: a sum stays the same when its indices get other names.

The assumptions are the ones named in the modules: sentinels are no values (`ReplaceAssumption`, `LifecycleAssumption`,
`OutputAssumption`, `NoneAssumption`, `FlowAssumption`), quantities are positive, costs not below zero and
scopes finite in number (`ReplayAssumption`), entries are activities with whole numbers
for texts, dates and quantities, and sequences are of the given ones (`SyncAssumption`), and stored
activities are well formed and were accepted by a sync, an asset profile having no gross value and an account no unit
price, as in the stored format (`RatesAssumption`). `LoneWriter`, `LoneReader`, `SeedsAreOld` and
`GrainedCosts` are hypotheses of the theorems that need them.

Model-checked only: liveness (`BusyEnds`, `EveryAttemptReturns`, `RunEnds`, `ReportEnds`), which is out of the prover's
reach. Every other property of a passing run is the statement of a theorem.

## Not modelled

The cipher (a payload opens for the token that sealed it, and not otherwise), file formats, number and date syntax,
CSV and JSON, wording, rendering, focus and scrolling. Of the report calculation: the proceeds of single matches,
which add up to no total, and the totals over several assets. Of the exchange rates: the series of each currency and
the URLs. Components without a module (rendering, bootstrap, screens, support, development tools) keep no state
that a step of another component could meet; `PROJECT.json` lists them with the reason.

## Plan

What is left, in this order:

1. `StoredWhole` and `SnapshotLifecycle` composed: a sync as a user of `ProtectedVault`;
2. several assets of one report, with the totals of the summary.
