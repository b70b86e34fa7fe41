--------------------------- MODULE SyncReportsFlow ---------------------------
(***************************************************************************)
(* The root model of the terminal interface: screens, the Sync and Reports *)
(* context, the server-replacement gate, and the setup saves, syncs,       *)
(* reports and diagnostics that run in the background and answer with a    *)
(* message.  Update handles one message at a time, but a message is routed *)
(* by the screen that is active when it arrives, which need not be the one *)
(* that started the work.  Enter on a menu row is the action of the row;   *)
(* rows that are disabled or not listed are not actions.                   *)
(*                                                                         *)
(* What a sync does to the snapshot files is one step here, and one file   *)
(* per owner; SnapshotLifecycle has the steps and the files.               *)
(***************************************************************************)
EXTENDS Naturals

CONSTANTS Servers, Tokens,
          Saves,        \* bound: setup saves in flight at a time
          Attempts,     \* attempt identifiers, reused once no job carries them
          Histories,    \* subset of BOOLEAN: has a history reportable years?
          None

Owners == [server : Servers, token : Tokens]
Data == [owner : Owners, years : Histories]

ASSUME FlowAssumption == /\ Histories \subseteq BOOLEAN
                         /\ None \notin Servers \cup Tokens \cup Attempts \cup Owners \cup Data

Screens == {"setup", "main", "unlock", "menu", "sync", "replacement", "syncResult",
            "selection", "reportBusy", "reportResult"}
\* How a sync or report ended; "diagnosable" is a failure a diagnostic can be made of.
Outcomes == {"none", "ok", "failed", "diagnosable"}
Jobs == [kind : {"sync", "report", "diagnostic"}, attempt : Attempts \cup {None},
         owner : Owners \cup {None}, confirmed : BOOLEAN,
         outcome : {"running", "ok", "failed", "diagnosable"}, of : Data \cup {None}]

VARIABLES screen,     \* m.active
          config,     \* m.currentConfig, as the selected server
          disk,       \* setup.json
          saves,      \* saves[k]: a save in flight, or its message
          ctx,        \* m.syncReports
          sync,       \* m.sync
          pending,    \* m.replacement.PendingToken
          report,     \* m.report
          result,     \* m.result
          active,     \* the runtime's active readable snapshot
          stored,     \* stored[o]: the protected snapshot of o on disk, or None
          jobs,       \* syncs, reports and diagnostics running or answered
          quitting    \* ctrl+c was handled, the quit message not yet

mem == <<config, ctx, sync, pending, report, result, active>>
env == <<disk, saves, stored, jobs, quitting>>
vars == <<screen, mem, env>>

Contexts == [active : BOOLEAN, token : Tokens \cup {None}, data : Data \cup {None},
             outcome : Outcomes, writing : BOOLEAN, refused : BOOLEAN,
             reported : Outcomes, of : Data \cup {None}]

TypeOK ==
  /\ screen \in Screens
  /\ config \in Servers \cup {None} /\ disk \in Servers \cup {None}
  /\ saves \in [Saves -> [server : Servers, state : {"writing", "saved", "failed"}] \cup {None}]
  /\ ctx \in Contexts
  /\ sync \in [busy : BOOLEAN, attempt : Attempts \cup {None}, useContext : BOOLEAN,
               input : Tokens \cup {None}]
  /\ pending \in Tokens \cup {None}
  /\ report \in [busy : BOOLEAN, attempt : Attempts \cup {None}]
  /\ result \in [outcome : Outcomes, writing : BOOLEAN]
  /\ active \in Data \cup {None}
  /\ stored \in [Owners -> Data \cup {None}]
  /\ jobs \subseteq Jobs
  /\ quitting \in BOOLEAN

\* newSyncState, newReportState, resultState{} and newSyncReportsContextState.
NewSync == [busy |-> FALSE, attempt |-> None, useContext |-> FALSE, input |-> None]
NewReport == [busy |-> FALSE, attempt |-> None]
NewResult == [outcome |-> "none", writing |-> FALSE]
NewContext(d) == [active |-> FALSE, token |-> None, data |-> d, outcome |-> "none",
                  writing |-> FALSE, refused |-> FALSE,
                  reported |-> "none", of |-> None]

\* NewModel.
FirstScreen(c) == IF c = None THEN "setup" ELSE "main"
NoSaves == [k \in Saves |-> None]

Init == /\ disk = None /\ config = None
        /\ stored = [o \in Owners |-> None]
        /\ screen = FirstScreen(None)
        /\ ctx = NewContext(None) /\ sync = NewSync /\ report = NewReport /\ result = NewResult
        /\ pending = None /\ active = None
        /\ saves = NoSaves /\ jobs = {}
        /\ quitting = FALSE

-----------------------------------------------------------------------------
Show(s) == screen' = s

\* clearSyncReportsRuntimeState.
ClearContext == /\ ctx' = NewContext(active)
                /\ report' = NewReport

\* A slip: the way back to the main menu keeps the context.
MainKeepingContext == /\ Show("main")
                      /\ result' = NewResult
                      /\ sync' = NewSync
                      /\ UNCHANGED <<ctx, report>>

EnterMainMenu == /\ Show("main")
                 /\ result' = NewResult
                 /\ sync' = NewSync
                 /\ ClearContext

BackToMain == EnterMainMenu /\ UNCHANGED <<config, pending, active, env>>

-----------------------------------------------------------------------------
\* Setup.

EditSetup == /\ screen = "main"
             /\ Show("setup")
             /\ UNCHANGED <<mem, env>>

\* Nothing on the screen keeps a second save, or leaving, from overtaking the first.
SaveSetup(k, s) == /\ screen = "setup"
                   /\ saves[k] = None
                   /\ saves' = [saves EXCEPT ![k] = [server |-> s, state |-> "writing"]]
                   /\ UNCHANGED <<screen, mem, disk, stored, jobs, quitting>>

LeaveSetup == /\ screen = "setup"
              /\ config # None
              /\ BackToMain

\* JSONStore.Save: it may fail before the file is replaced, or after, in applyPathMode.
RunSave(k) == /\ saves[k] # None
              /\ saves[k].state = "writing"
              /\ \/ /\ saves' = [saves EXCEPT ![k].state = "saved"]
                    /\ disk' = saves[k].server
                 \/ /\ saves' = [saves EXCEPT ![k].state = "failed"]
                    /\ disk' \in {disk, saves[k].server}
              /\ UNCHANGED <<screen, mem, stored, jobs, quitting>>

\* setupSavedMsg: only the setup screen handles it.
SetupSaved(k) == /\ saves[k] # None
                 /\ saves[k].state # "writing"
                 /\ saves' = [saves EXCEPT ![k] = None]
                 /\ \/ /\ screen = "setup" /\ saves[k].state = "saved"
                       /\ config' = saves[k].server
                       /\ EnterMainMenu
                       /\ UNCHANGED <<pending, active>>
                    \/ /\ screen # "setup" \/ saves[k].state = "failed"
                       /\ UNCHANGED <<screen, mem>>
                 /\ UNCHANGED <<disk, stored, jobs, quitting>>

-----------------------------------------------------------------------------
\* Opening a context.

OpenUnlock == /\ screen = "main"
              /\ Show("unlock")
              /\ sync' = NewSync
              /\ ClearContext
              /\ UNCHANGED <<config, pending, result, active, env>>

TypeToken(t) == /\ screen \in {"unlock", "sync"}
                /\ ~sync.busy /\ ~sync.useContext
                /\ ~(screen = "unlock" /\ ctx.refused)
                /\ sync' = [sync EXCEPT !.input = t]
                /\ UNCHANGED <<screen, config, ctx, pending, report, result, active, env>>

Owner == [server |-> config, token |-> sync.input]

\* enterSyncReportsMenu.
EnterContext(d) ==
  /\ Show("menu")
  /\ sync' = NewSync
  /\ ctx' = [ctx EXCEPT !.active = TRUE, !.token = sync.input, !.data = d, !.refused = FALSE]
  /\ report' = NewReport
  /\ UNCHANGED <<config, pending, result, env>>

CanUnlock == screen = "unlock" /\ ~ctx.refused /\ sync.input # None

\* A slip: the runtime does not take over what the menu shows.
UnlockShownOnly == /\ CanUnlock
                   /\ stored[Owner] # None
                   /\ EnterContext(stored[Owner])
                   /\ UNCHANGED active

UnlockSnapshot == /\ CanUnlock
                  /\ stored[Owner] # None
                  /\ active' = stored[Owner]
                  /\ EnterContext(stored[Owner])

\* No snapshot opened, or its files could not be read: Ghostfolio accepts the token, or fails
\* in any way but a rejection ...
UnlockNewContext == /\ CanUnlock
                    /\ EnterContext(None)
                    /\ UNCHANGED active

\* ... or rejects it: only Back is left.
UnlockRefused == /\ CanUnlock
                 /\ ctx' = [ctx EXCEPT !.refused = TRUE]
                 /\ UNCHANGED <<screen, config, sync, pending, report, result, active, env>>

LeaveUnlock == screen = "unlock" /\ BackToMain

-----------------------------------------------------------------------------
\* Syncing.

SyncData == /\ screen = "menu" /\ ~ctx.writing
            /\ Show("sync")
            /\ sync' = [NewSync EXCEPT !.useContext = TRUE]
            /\ UNCHANGED <<config, ctx, pending, report, result, active, env>>

\* CheckServerReplacement.
ReplacementRequired == active # None /\ active.owner.server # config

NewJob(kind, n, o, confirmed) ==
  jobs' = jobs \cup {[kind |-> kind, attempt |-> n, owner |-> o, confirmed |-> confirmed,
                      outcome |-> "running", of |-> None]}

FreshAttempt(n) == \A j \in jobs : j.attempt # n

StartAttempt(t, confirmed) ==
  \E n \in Attempts :
    /\ FreshAttempt(n)
    /\ Show("sync")
    /\ sync' = [sync EXCEPT !.busy = TRUE, !.attempt = n]
    /\ IF ctx.active THEN ctx' = [ctx EXCEPT !.token = t, !.data = active]
                     ELSE UNCHANGED ctx
    /\ NewJob("sync", n, [server |-> config, token |-> t], confirmed)

SyncToken == IF sync.useContext THEN ctx.token ELSE sync.input

CanStartSync == screen = "sync" /\ ~sync.busy /\ SyncToken # None

\* A slip: the gate is not asked.
StartSyncUngated == /\ CanStartSync
                    /\ StartAttempt(SyncToken, FALSE)
                    /\ UNCHANGED <<config, pending, report, result, active, disk, saves, stored, quitting>>

StartSync == /\ CanStartSync
             /\ ~ReplacementRequired
             /\ StartAttempt(SyncToken, FALSE)
             /\ UNCHANGED <<config, pending, report, result, active, disk, saves, stored, quitting>>

AskReplacement == /\ CanStartSync
                  /\ ReplacementRequired
                  /\ Show("replacement")
                  /\ pending' = SyncToken
                  /\ UNCHANGED <<config, ctx, sync, report, result, active, env>>

ConfirmReplacement == /\ screen = "replacement"
                      /\ pending # None
                      /\ StartAttempt(pending, TRUE)
                      /\ pending' = None
                      /\ UNCHANGED <<config, report, result, active, disk, saves, stored, quitting>>

CancelReplacement == /\ screen = "replacement"
                     /\ pending' = None
                     /\ sync' = [sync EXCEPT !.input = None]
                     /\ IF ctx.active
                        THEN Show("menu") /\ UNCHANGED result
                        ELSE Show("syncResult") /\ result' = [NewResult EXCEPT !.outcome = "failed"]
                     /\ UNCHANGED <<config, ctx, report, active, env>>

\* A slip: Back works while the sync runs.
LeaveSyncBusy == /\ screen = "sync"
                 /\ \/ /\ ctx.active
                       /\ Show("menu")
                       /\ sync' = [sync EXCEPT !.input = None]
                       /\ UNCHANGED <<config, ctx, pending, report, result, active, env>>
                    \/ ~ctx.active /\ BackToMain

LeaveSync == /\ screen = "sync" /\ ~sync.busy
             /\ \/ /\ ctx.active
                   /\ Show("menu")
                   /\ sync' = [sync EXCEPT !.input = None]
                   /\ UNCHANGED <<config, ctx, pending, report, result, active, env>>
                \/ ~ctx.active /\ BackToMain

Replace(j, k) == jobs' = (jobs \ {j}) \cup {k}

\* Run: the gate again, then unlock, retrieval and persistence; Persist makes the new
\* payload active after the write, and the write may fail once the file is replaced.
RunSync(j) ==
  /\ j.kind = "sync" /\ j.outcome = "running"
  /\ \/ /\ \E failure \in {"failed", "diagnosable"} : Replace(j, [j EXCEPT !.outcome = failure])
        /\ UNCHANGED <<stored, active>>
     \/ /\ active # None /\ active.owner.server # j.owner.server => j.confirmed
        /\ \E y \in Histories : LET d == [owner |-> j.owner, years |-> y] IN
             /\ stored' = [stored EXCEPT ![j.owner] = d]
             /\ \/ active' = d /\ Replace(j, [j EXCEPT !.outcome = "ok"])
                \/ UNCHANGED active /\ Replace(j, [j EXCEPT !.outcome = "diagnosable"])
  /\ UNCHANGED <<screen, config, ctx, sync, pending, report, result, disk, saves, quitting>>

-----------------------------------------------------------------------------
\* A message whose attempt is not the current one, or which no screen handles, is lost.
Drop(j) == jobs' = jobs \ {j}

HandlesSync(j) == screen \in {"sync", "unlock"} /\ j.attempt = sync.attempt

\* A slip: the busy flag is not reset.
SyncFinishedBusy(j) ==
  /\ j.kind = "sync" /\ j.outcome # "running" /\ HandlesSync(j)
  /\ ctx' = [ctx EXCEPT !.outcome = j.outcome, !.writing = FALSE, !.data = active]
  /\ Drop(j)
  /\ UNCHANGED <<screen, sync, result, config, pending, report, active, disk, saves, stored, quitting>>

\* handleSyncFinished.
SyncFinished(j) ==
  /\ j.kind = "sync" /\ j.outcome # "running" /\ HandlesSync(j)
  /\ sync' = [sync EXCEPT !.busy = FALSE, !.attempt = None, !.input = None]
  /\ IF ctx.active /\ ctx.token # None
     THEN /\ Show("menu")
          /\ ctx' = [ctx EXCEPT !.outcome = j.outcome, !.writing = FALSE, !.data = active]
          /\ UNCHANGED result
     ELSE /\ Show("syncResult")
          /\ result' = [NewResult EXCEPT !.outcome = j.outcome]
          /\ UNCHANGED ctx
  /\ Drop(j)
  /\ UNCHANGED <<config, pending, report, active, disk, saves, stored, quitting>>

-----------------------------------------------------------------------------
\* Reports.

Reportable(d) == d # None /\ d.years

ChooseReport == /\ screen = "menu" /\ ~ctx.writing
                /\ Reportable(ctx.data)
                /\ Show("selection")
                /\ report' = NewReport
                /\ UNCHANGED <<config, ctx, sync, pending, result, active, env>>

StartReport == /\ screen = "selection"
               /\ \E n \in Attempts : /\ FreshAttempt(n)
                                      /\ report' = [busy |-> TRUE, attempt |-> n]
                                      /\ NewJob("report", n, None, FALSE)
               /\ Show("reportBusy")
               /\ UNCHANGED <<config, ctx, sync, pending, result, active, disk, saves, stored, quitting>>

\* Generate reads the active snapshot, not what the menu shows.
RunReport(j) ==
  /\ j.kind = "report" /\ j.outcome = "running"
  /\ \/ \E failure \in {"failed", "diagnosable"} : Replace(j, [j EXCEPT !.outcome = failure])
     \/ /\ Reportable(active)
        /\ Replace(j, [j EXCEPT !.outcome = "ok", !.of = active])
  /\ UNCHANGED <<screen, mem, disk, saves, stored, quitting>>

HandlesReport(j) == /\ screen \in {"selection", "reportBusy", "reportResult"}
                    /\ j.attempt = report.attempt

\* handleReportFinished and enterReportResult.
ReportFinished(j) ==
  /\ j.kind = "report" /\ j.outcome # "running" /\ HandlesReport(j)
  /\ Show("reportResult")
  /\ report' = NewReport
  /\ ctx' = [ctx EXCEPT !.reported = j.outcome, !.of = j.of]
  /\ Drop(j)
  /\ UNCHANGED <<config, sync, pending, result, active, disk, saves, stored, quitting>>

\* clearTransientReportState, then the menu or another selection.
LeaveReport == /\ \/ screen = "selection" /\ Show("menu")
                  \/ screen = "reportResult" /\ ~report.busy /\ Show("menu")
                  \/ screen = "reportResult" /\ ~report.busy /\ Reportable(ctx.data)
                     /\ Show("selection")
               /\ ctx' = [ctx EXCEPT !.reported = "none", !.of = None]
               /\ report' = NewReport
               /\ UNCHANGED <<config, sync, pending, result, active, env>>

-----------------------------------------------------------------------------
\* Diagnostics, made from the screen that shows the failure.

StartDiagnostic ==
  /\ \/ /\ screen = "menu" /\ ctx.outcome = "diagnosable" /\ ~ctx.writing
        /\ ctx' = [ctx EXCEPT !.writing = TRUE]
        /\ UNCHANGED <<report, result>>
     \/ /\ screen = "reportResult" /\ ctx.reported = "diagnosable" /\ ~report.busy
        /\ report' = [report EXCEPT !.busy = TRUE]
        /\ UNCHANGED <<ctx, result>>
     \/ /\ screen = "syncResult" /\ result.outcome = "diagnosable" /\ ~result.writing
        /\ result' = [result EXCEPT !.writing = TRUE]
        /\ UNCHANGED <<ctx, report>>
  /\ NewJob("diagnostic", None, None, FALSE)
  /\ UNCHANGED <<screen, config, sync, pending, active, disk, saves, stored, quitting>>

RunDiagnostic(j) == /\ j.kind = "diagnostic" /\ j.outcome = "running"
                    /\ \E o \in {"ok", "failed"} : Replace(j, [j EXCEPT !.outcome = o])
                    /\ UNCHANGED <<screen, mem, disk, saves, stored, quitting>>

HandlesDiagnostic == screen \in {"menu", "syncResult", "selection", "reportBusy", "reportResult"}

\* A slip: an outcome the menus do not know.
DiagnosedAsWritten(j, outcome) == IF j.outcome = "ok" THEN "written" ELSE outcome

\* Once its path is known, no second diagnostic is offered.
Diagnosed(j, outcome) == IF j.outcome = "ok" THEN "failed" ELSE outcome

\* handleDiagnosticReportFinished: it looks only at the screen.
DiagnosticFinished(j) ==
  /\ j.kind = "diagnostic" /\ j.outcome # "running" /\ HandlesDiagnostic
  /\ CASE screen = "menu" ->
            /\ ctx' = [ctx EXCEPT !.writing = FALSE, !.outcome = Diagnosed(j, @)]
            /\ UNCHANGED <<report, result>>
       [] screen = "reportResult" ->
            /\ report' = [report EXCEPT !.busy = FALSE]
            /\ ctx' = [ctx EXCEPT !.reported = Diagnosed(j, @)]
            /\ UNCHANGED result
       [] OTHER ->
            /\ result' = [outcome |-> Diagnosed(j, result.outcome), writing |-> FALSE]
            /\ UNCHANGED <<ctx, report>>
  /\ Drop(j)
  /\ UNCHANGED <<screen, config, sync, pending, active, disk, saves, stored, quitting>>

\* A message nobody handles.
Lost(j) == /\ j.outcome # "running"
           /\ CASE j.kind = "sync" -> ~HandlesSync(j)
                [] j.kind = "report" -> ~HandlesReport(j)
                [] OTHER -> ~HandlesDiagnostic
           /\ Drop(j)
           /\ UNCHANGED <<screen, mem, disk, saves, stored, quitting>>

-----------------------------------------------------------------------------
\* The menus of a context and of a sync result that lead back to the main menu.
LeaveContext == /\ \/ screen = "menu" /\ ~ctx.writing
                   \/ screen = "syncResult" /\ ~result.writing
                /\ BackToMain

SyncAgain == /\ screen = "syncResult" /\ ~result.writing
             /\ Show("sync")
             /\ sync' = [NewSync EXCEPT !.useContext = ctx.active]
             /\ UNCHANGED <<config, ctx, pending, report, result, active, env>>

\* ctrl+c is handled on every screen; keys and messages may still arrive before the
\* quit message it sends.
CtrlC == /\ ~quitting
         /\ quitting' = TRUE
         /\ sync' = [sync EXCEPT !.input = None]
         /\ ClearContext
         /\ UNCHANGED <<screen, config, pending, result, active, disk, saves, stored, jobs>>

\* The process ends and another is started: only the files outlive it.
Relaunch == /\ config' = disk
            /\ Show(FirstScreen(disk))
            /\ ctx' = NewContext(None) /\ sync' = NewSync
            /\ report' = NewReport /\ result' = NewResult
            /\ pending' = None /\ active' = None
            /\ saves' = NoSaves /\ jobs' = {}
            /\ quitting' = FALSE
            /\ UNCHANGED <<disk, stored>>

Leave == quitting /\ Relaunch
Kill == Relaunch

User == \/ EditSetup \/ LeaveSetup \/ (\E k \in Saves, s \in Servers : SaveSetup(k, s))
        \/ OpenUnlock \/ (\E t \in Tokens : TypeToken(t))
        \/ UnlockSnapshot \/ UnlockNewContext \/ UnlockRefused \/ LeaveUnlock
        \/ SyncData \/ StartSync \/ AskReplacement \/ ConfirmReplacement \/ CancelReplacement
        \/ LeaveSync \/ ChooseReport \/ StartReport \/ LeaveReport \/ StartDiagnostic
        \/ LeaveContext \/ SyncAgain \/ CtrlC

Run(j) == RunSync(j) \/ RunReport(j) \/ RunDiagnostic(j)
Answer(j) == SyncFinished(j) \/ ReportFinished(j) \/ DiagnosticFinished(j) \/ Lost(j)

Next == \/ User
        \/ \E k \in Saves : RunSave(k) \/ SetupSaved(k)
        \/ \E j \in jobs : Run(j) \/ Answer(j)
        \/ Leave \/ Kill

Spec == Init /\ [][Next]_vars

\* The runtime's goroutines run, and every one of them ends within its time limits; the
\* event loop takes the messages they and ctrl+c send.
Fairness == /\ WF_vars(\E j \in jobs : Run(j))
            /\ WF_vars(\E j \in jobs : Answer(j))
            /\ WF_vars(Leave)
FairSpec == Spec /\ Fairness

-----------------------------------------------------------------------------
Working(kind) == {j \in jobs : j.kind = kind}

(* A sync and a report share the active snapshot, so no two of them are ever in flight
   together, in whatever order keys, answers and ctrl+c arrive. *)
OneJobAtATime == \A i, j \in Working("sync") \cup Working("report") : i = j

(* A sync in flight is always the one of the context on the screen: nothing the user
   does meanwhile moves its context, token or server from under it. *)
SyncKeepsContext ==
  ~quitting => \A j \in Working("sync") :
                 /\ screen = "sync" /\ sync.busy /\ sync.attempt = j.attempt
                 /\ ctx.active
                 /\ j.owner = [server |-> config, token |-> ctx.token]

\* A job in flight has the context, the active snapshot and the screen to itself.
JobKeepsContext == OneJobAtATime /\ SyncKeepsContext

(* README: leaving the context clears its transient token and report state. *)
NothingLeftBehind == screen \in {"main", "setup"} =>
                       /\ ctx.token = None /\ sync.input = None /\ pending = None
                       /\ ctx.reported = "none" /\ ctx.of = None

(* Data of one server is only replaced by another's when the user confirmed it: the
   runtime's own gate never has to stop a sync the screens let through. *)
ReplacementConfirmed == \A j \in Working("sync") :
  j.outcome = "running" /\ active # None /\ active.owner.server # j.owner.server => j.confirmed

(* The report on the screen was calculated from the data the context shows, although it
   is read from the runtime later than it was chosen. *)
ReportOfShownData == ~quitting => /\ ctx.of # None => ctx.of = ctx.data
                                  /\ \A j \in Working("report") : j.of # None => j.of = ctx.data

(* After a successful sync the menu shows the data of this context's server and token. *)
FreshAfterSync == ctx.outcome = "ok" => /\ ctx.data # None
                                        /\ ctx.data.owner = [server |-> config, token |-> ctx.token]

\* What the context shows is what its sync has brought and what its report is made of.
ShownDataHolds == ReportOfShownData /\ FreshAfterSync

(* A sync or report that was started is not waited for for ever. *)
BusyEnds == (sync.busy \/ report.busy) ~> ~(sync.busy \/ report.busy)

-----------------------------------------------------------------------------
(* The feature specification makes a report available for the active context's data. *)
DataMatchesContext ==
  ~quitting /\ screen = "menu" /\ ctx.data # None
    => ctx.data.owner = [server |-> config, token |-> ctx.token]
=============================================================================
