------------------------ MODULE SyncReportsFlowProofs ------------------------
(***************************************************************************)
(* Proofs about SyncReportsFlow, for every set of servers, tokens, saves,  *)
(* attempts and histories: the background jobs and the context they work   *)
(* for stay together, whatever keys and answers arrive in whatever order.  *)
(***************************************************************************)
EXTENDS SyncReportsFlow, TLAPS

\* Screens outside every context, and those only a context leads to.
Outside == {"setup", "main", "unlock"}
Inside == {"menu", "sync", "replacement", "selection", "reportBusy", "reportResult"}

\* A server is selected before any other screen can be reached.
Configured == config = None => screen = "setup"

\* The screen a sync or a report was started from waits for it.
Placed == \A j \in jobs :
  /\ j.kind = "sync" => /\ screen = "sync" /\ sync.busy /\ sync.attempt = j.attempt
                        /\ j.owner \in Owners
  /\ j.kind = "report" => screen = "reportBusy"

\* A context has a token, which its sync and its replacement gate use and no other.
Opened == /\ ctx.active => ctx.token # None
          /\ screen \in Outside => ~ctx.active
          /\ ~quitting => screen # "syncResult" /\ (screen \in Inside => ctx.active)
          /\ screen \in {"sync", "replacement"} /\ ctx.active => sync.useContext
          /\ pending # None => screen = "replacement" /\ (ctx.active => pending = ctx.token)

\* Outside there is no token, and what a report left is gone with its result screen.
Cleared == /\ screen \in {"main", "setup"} => ctx.token = None /\ sync.input = None
           /\ ctx.of # None \/ ctx.reported # "none" => screen = "reportResult"

\* A sync works for the open context and leaves its data in memory.
Owned == \A j \in Working("sync") :
  /\ ctx.active => j.owner = [server |-> config, token |-> ctx.token]
  /\ j.outcome = "ok" => active # None /\ active.owner = j.owner

\* While no sync runs, what the context shows is in memory; reports are of such data only.
Shown == /\ ctx.active /\ ctx.data # None /\ Working("sync") = {} => ctx.data = active
         /\ ~quitting /\ screen \in {"selection", "reportBusy", "reportResult"} => ctx.data # None
         /\ ctx.outcome = "ok" => ctx.active

\* Where the work in the background stands to the screen and the context, and what it holds.
Stage == Configured /\ Placed /\ OneJobAtATime /\ Opened /\ Cleared
Held == Owned /\ ReplacementConfirmed /\ Shown /\ ReportOfShownData /\ FreshAfterSync

IInv == TypeOK /\ Stage /\ Held

USE FlowAssumption DEF mem, env, Show, Working, NewSync, NewReport, NewResult

-----------------------------------------------------------------------------
\* Types.

SyncStates == [busy : BOOLEAN, attempt : Attempts \cup {None}, useContext : BOOLEAN,
               input : Tokens \cup {None}]

LEMMA NewContextType == ASSUME NEW d \in Data \cup {None}
                        PROVE  NewContext(d) \in Contexts
BY DEF NewContext, Contexts, Outcomes

\* What the screens change of the context.
LEMMA ContextType ==
  ASSUME NEW c \in Contexts, NEW t \in Tokens \cup {None}, NEW d \in Data \cup {None},
         NEW o \in Outcomes
  PROVE  /\ [c EXCEPT !.active = TRUE, !.token = t, !.data = d, !.refused = FALSE] \in Contexts
         /\ [c EXCEPT !.refused = TRUE] \in Contexts
         /\ [c EXCEPT !.writing = TRUE] \in Contexts
         /\ [c EXCEPT !.token = t, !.data = d] \in Contexts
         /\ [c EXCEPT !.outcome = o, !.writing = FALSE, !.data = d] \in Contexts
         /\ [c EXCEPT !.writing = FALSE, !.outcome = o] \in Contexts
         /\ [c EXCEPT !.reported = o, !.of = d] \in Contexts
         /\ [c EXCEPT !.reported = o] \in Contexts
<1>1. [c EXCEPT !.active = TRUE, !.token = t, !.data = d, !.refused = FALSE] \in Contexts
  BY DEF Contexts
<1>2. [c EXCEPT !.refused = TRUE] \in Contexts
  BY DEF Contexts
<1>3. [c EXCEPT !.writing = TRUE] \in Contexts
  BY DEF Contexts
<1>4. [c EXCEPT !.token = t, !.data = d] \in Contexts
  BY DEF Contexts
<1>5. [c EXCEPT !.outcome = o, !.writing = FALSE, !.data = d] \in Contexts
  BY DEF Contexts
<1>6. [c EXCEPT !.writing = FALSE, !.outcome = o] \in Contexts
  BY DEF Contexts
<1>7. [c EXCEPT !.reported = o, !.of = d] \in Contexts
  BY DEF Contexts
<1>8. [c EXCEPT !.reported = o] \in Contexts
  BY DEF Contexts
<1>9. QED
  BY <1>1, <1>2, <1>3, <1>4, <1>5, <1>6, <1>7, <1>8

LEMMA SyncStateType ==
  ASSUME NEW x \in SyncStates, NEW n \in Attempts \cup {None}, NEW t \in Tokens \cup {None},
         NEW b \in BOOLEAN
  PROVE  /\ [x EXCEPT !.input = t] \in SyncStates
         /\ [x EXCEPT !.busy = TRUE, !.attempt = n] \in SyncStates
         /\ [x EXCEPT !.busy = FALSE, !.attempt = n, !.input = t] \in SyncStates
         /\ NewSync \in SyncStates /\ [NewSync EXCEPT !.useContext = b] \in SyncStates
<1>1. [x EXCEPT !.input = t] \in SyncStates
  BY DEF SyncStates
<1>2. [x EXCEPT !.busy = TRUE, !.attempt = n] \in SyncStates
  BY DEF SyncStates
<1>3. [x EXCEPT !.busy = FALSE, !.attempt = n, !.input = t] \in SyncStates
  BY DEF SyncStates
<1>4. NewSync \in SyncStates /\ [NewSync EXCEPT !.useContext = b] \in SyncStates
  BY DEF SyncStates
<1>5. QED
  BY <1>1, <1>2, <1>3, <1>4

LEMMA JobType ==
  ASSUME NEW j \in Jobs, NEW d \in Data \cup {None},
         NEW n \in Attempts \cup {None}, NEW o \in Owners \cup {None}, NEW c \in BOOLEAN,
         NEW kind \in {"sync", "report", "diagnostic"},
         NEW outcome \in {"running", "ok", "failed", "diagnosable"}
  PROVE  /\ [kind |-> kind, attempt |-> n, owner |-> o, confirmed |-> c,
             outcome |-> "running", of |-> None] \in Jobs
         /\ [j EXCEPT !.outcome = outcome] \in Jobs
         /\ [j EXCEPT !.outcome = outcome, !.of = d] \in Jobs
<1>1. [kind |-> kind, attempt |-> n, owner |-> o, confirmed |-> c,
       outcome |-> "running", of |-> None] \in Jobs
  BY DEF Jobs
<1>2. [j EXCEPT !.outcome = outcome] \in Jobs
  BY DEF Jobs
<1>3. [j EXCEPT !.outcome = outcome, !.of = d] \in Jobs
  BY DEF Jobs
<1>4. QED
  BY <1>1, <1>2, <1>3

-----------------------------------------------------------------------------
LEMMA InitInv == Init => IInv
<1> SUFFICES ASSUME Init PROVE IInv
  OBVIOUS
<1>1. TypeOK
  <2>1. ctx \in Contexts
    BY NewContextType DEF Init
  <2>2. QED
    BY <2>1 DEF Init, TypeOK, FirstScreen, NoSaves, Screens, Outcomes
<1>2. Stage
  BY DEF Init, Stage, Configured, Placed, OneJobAtATime, Opened, Cleared, Outside, Inside,
         NewContext, FirstScreen
<1>3. Held
  BY DEF Init, Held, Owned, ReplacementConfirmed, Shown, ReportOfShownData, FreshAfterSync,
         NewContext, FirstScreen
<1>4. QED
  BY <1>1, <1>2, <1>3 DEF IInv

-----------------------------------------------------------------------------
\* A sync is started only where no job that uses the active snapshot is in flight.
LEMMA AttemptStep ==
  ASSUME IInv, NEW t \in Tokens, NEW c \in BOOLEAN, StartAttempt(t, c),
         config \in Servers,
         \/ screen = "sync" /\ ~sync.busy
         \/ screen = "replacement",
         ctx.active => t = ctx.token,
         ReplacementRequired => c,
         pending' = None,
         UNCHANGED <<config, report, result, active, disk, saves, stored, quitting>>
  PROVE  IInv'
<1>1. PICK n \in Attempts :
        /\ FreshAttempt(n)
        /\ screen' = "sync"
        /\ sync' = [sync EXCEPT !.busy = TRUE, !.attempt = n]
        /\ IF ctx.active THEN ctx' = [ctx EXCEPT !.token = t, !.data = active]
                         ELSE UNCHANGED ctx
        /\ NewJob("sync", n, [server |-> config, token |-> t], c)
  BY DEF StartAttempt
<1> DEFINE k == [kind |-> "sync", attempt |-> n, owner |-> [server |-> config, token |-> t],
                 confirmed |-> c, outcome |-> "running", of |-> None]
<1>2. /\ jobs' = jobs \cup {k}
      /\ k.kind = "sync" /\ k.attempt = n /\ k.confirmed = c /\ k.outcome = "running"
      /\ k.owner = [server |-> config, token |-> t] /\ k.owner \in Owners
  BY <1>1 DEF NewJob, Owners
<1>3. k \in Jobs
  BY <1>2 DEF Jobs
<1>4. /\ sync \in SyncStates /\ ctx \in Contexts /\ active \in Data \cup {None}
      /\ \A j \in jobs : j.kind \notin {"sync", "report"}
  BY DEF IInv, Stage, TypeOK, SyncStates, Placed
<1>5. /\ sync' \in SyncStates
      /\ sync'.busy /\ sync'.attempt = n /\ sync'.useContext = sync.useContext
  BY <1>1, <1>4, SyncStateType DEF SyncStates
<1>6. /\ ctx' \in Contexts
      /\ ctx'.active = ctx.active /\ ctx'.token = ctx.token /\ ctx'.outcome = ctx.outcome
      /\ ctx'.of = ctx.of /\ ctx'.reported = ctx.reported
      /\ ctx'.data = IF ctx.active THEN active ELSE ctx.data
  <2>1. CASE ctx.active
    <3>1. ctx' = [ctx EXCEPT !.token = t, !.data = active]
      BY <1>1, <2>1
    <3>2. "none" \in Outcomes
      BY DEF Outcomes
    <3>3. ctx' \in Contexts
      BY <1>4, <3>1, <3>2, ContextType
    <3>4. QED
      BY <1>4, <2>1, <3>1, <3>3 DEF Contexts
  <2>2. CASE ~ctx.active
    BY <1>1, <1>4, <2>2
  <2>3. QED
    BY <2>1, <2>2
<1> HIDE DEF k
<1>7. TypeOK'
  BY <1>1, <1>2, <1>3, <1>5, <1>6 DEF IInv, TypeOK, SyncStates, Screens
<1>8. Stage'
  BY <1>1, <1>2, <1>4, <1>5, <1>6
  DEF IInv, Stage, Configured, Placed, OneJobAtATime, Opened, Cleared, Outside, Inside
<1>9. Held'
  <2>1. Owned' /\ ReplacementConfirmed'
    BY <1>1, <1>2, <1>4, <1>6
    DEF IInv, Held, Owned, ReplacementConfirmed, ReplacementRequired
  <2>2. Shown' /\ ReportOfShownData'
    BY <1>1, <1>2, <1>4, <1>6 DEF IInv, Stage, Held, Cleared, Shown, ReportOfShownData
  <2>3. FreshAfterSync'
    BY <1>1, <1>2, <1>4, <1>6 DEF IInv, Held, Shown, FreshAfterSync
  <2>4. QED
    BY <2>1, <2>2, <2>3 DEF Held
<1>10. QED
  BY <1>7, <1>8, <1>9 DEF IInv
-----------------------------------------------------------------------------
\* Setup and the main menu.

LEMMA EditSetupInv == ASSUME IInv, EditSetup PROVE IInv'
<1>1. TypeOK'
  BY DEF IInv, TypeOK, Screens, EditSetup
<1>2. Stage'
  BY DEF IInv, TypeOK, Stage, Configured, Placed, OneJobAtATime, Opened, Cleared, Outside,
         Inside, EditSetup
<1>3. Held'
  BY DEF IInv, TypeOK, Stage, Configured, Placed, OneJobAtATime, Opened, Cleared, Outside,
         Inside, Held, Owned, ReplacementConfirmed, Shown, ReportOfShownData,
         FreshAfterSync, EditSetup
<1>4. QED
  BY <1>1, <1>2, <1>3 DEF IInv

LEMMA SaveSetupInv == ASSUME IInv, NEW k \in Saves, NEW s \in Servers, SaveSetup(k, s) PROVE IInv'
<1>1. TypeOK'
  BY DEF IInv, TypeOK, Screens, SaveSetup
<1>2. Stage'
  BY DEF IInv, TypeOK, Stage, Configured, Placed, OneJobAtATime, Opened, Cleared, Outside,
         Inside, SaveSetup
<1>3. Held'
  BY DEF IInv, TypeOK, Stage, Configured, Placed, OneJobAtATime, Opened, Cleared, Outside,
         Inside, Held, Owned, ReplacementConfirmed, Shown, ReportOfShownData,
         FreshAfterSync, SaveSetup
<1>4. QED
  BY <1>1, <1>2, <1>3 DEF IInv

LEMMA LeaveSetupInv == ASSUME IInv, LeaveSetup PROVE IInv'
<1>1. TypeOK'
  <2>1. ctx' \in Contexts
    BY NewContextType DEF IInv, TypeOK, LeaveSetup, EnterMainMenu, BackToMain, ClearContext
  <2>2. QED
    BY <2>1 DEF IInv, TypeOK, Screens, Outcomes, LeaveSetup, EnterMainMenu, BackToMain,
                ClearContext
<1>2. Stage'
  BY DEF IInv, TypeOK, Stage, Configured, Placed, OneJobAtATime, Opened, Cleared, Outside,
         Inside, LeaveSetup, EnterMainMenu, BackToMain, ClearContext, NewContext
<1>3. Held'
  BY DEF IInv, TypeOK, Stage, Configured, Placed, OneJobAtATime, Opened, Cleared, Outside,
         Inside, Held, Owned, ReplacementConfirmed, Shown, ReportOfShownData,
         FreshAfterSync, LeaveSetup, EnterMainMenu, BackToMain, ClearContext, NewContext
<1>4. QED
  BY <1>1, <1>2, <1>3 DEF IInv

LEMMA RunSaveInv == ASSUME IInv, NEW k \in Saves, RunSave(k) PROVE IInv'
<1>1. TypeOK'
  BY DEF IInv, TypeOK, Screens, RunSave
<1>2. Stage'
  BY DEF IInv, TypeOK, Stage, Configured, Placed, OneJobAtATime, Opened, Cleared, Outside,
         Inside, RunSave
<1>3. Held'
  BY DEF IInv, TypeOK, Stage, Configured, Placed, OneJobAtATime, Opened, Cleared, Outside,
         Inside, Held, Owned, ReplacementConfirmed, Shown, ReportOfShownData,
         FreshAfterSync, RunSave
<1>4. QED
  BY <1>1, <1>2, <1>3 DEF IInv

LEMMA SetupSavedInv == ASSUME IInv, NEW k \in Saves, SetupSaved(k) PROVE IInv'
<1>1. TypeOK'
  <2>1. /\ saves[k] \in [server : Servers, state : {"writing", "saved", "failed"}]
        /\ saves' = [saves EXCEPT ![k] = None]
        /\ UNCHANGED <<disk, stored, jobs, quitting>>
    BY DEF IInv, TypeOK, SetupSaved
  <2>2. CASE UNCHANGED <<screen, mem>>
    BY <2>1, <2>2 DEF IInv, TypeOK
  <2>3. CASE config' = saves[k].server /\ EnterMainMenu /\ UNCHANGED <<pending, active>>
    <3>1. ctx' \in Contexts
      BY <2>3, NewContextType DEF IInv, TypeOK, EnterMainMenu, ClearContext
    <3>2. QED
      BY <2>1, <2>3, <3>1 DEF IInv, TypeOK, Screens, Outcomes, EnterMainMenu, ClearContext
  <2>4. QED
    BY <2>2, <2>3 DEF SetupSaved
<1>2. Stage'
  BY DEF IInv, TypeOK, Stage, Configured, Placed, OneJobAtATime, Opened, Cleared, Outside,
         Inside, SetupSaved, EnterMainMenu, ClearContext, NewContext
<1>3. Held'
  BY DEF IInv, TypeOK, Stage, Configured, Placed, OneJobAtATime, Opened, Cleared, Outside,
         Inside, Held, Owned, ReplacementConfirmed, Shown, ReportOfShownData,
         FreshAfterSync, SetupSaved, EnterMainMenu, ClearContext, NewContext
<1>4. QED
  BY <1>1, <1>2, <1>3 DEF IInv

-----------------------------------------------------------------------------
\* Opening a context.

LEMMA OpenUnlockInv == ASSUME IInv, OpenUnlock PROVE IInv'
<1>1. TypeOK'
  <2>1. ctx' \in Contexts
    BY NewContextType DEF IInv, TypeOK, OpenUnlock, ClearContext
  <2>2. QED
    BY <2>1 DEF IInv, TypeOK, Screens, OpenUnlock, ClearContext
<1>2. Stage'
  BY DEF IInv, TypeOK, Stage, Configured, Placed, OneJobAtATime, Opened, Cleared, Outside,
         Inside, OpenUnlock, ClearContext, NewContext
<1>3. Held'
  BY DEF IInv, TypeOK, Stage, Configured, Placed, OneJobAtATime, Opened, Cleared, Outside,
         Inside, Held, Owned, ReplacementConfirmed, Shown, ReportOfShownData,
         FreshAfterSync, OpenUnlock, ClearContext, NewContext
<1>4. QED
  BY <1>1, <1>2, <1>3 DEF IInv

LEMMA TypeTokenInv == ASSUME IInv, NEW t \in Tokens, TypeToken(t) PROVE IInv'
<1>1. TypeOK'
  BY DEF IInv, TypeOK, Screens, TypeToken
<1>2. Stage'
  BY DEF IInv, TypeOK, Stage, Configured, Placed, OneJobAtATime, Opened, Cleared, Outside,
         Inside, TypeToken
<1>3. Held'
  BY DEF IInv, TypeOK, Stage, Configured, Placed, OneJobAtATime, Opened, Cleared, Outside,
         Inside, Held, Owned, ReplacementConfirmed, Shown, ReportOfShownData,
         FreshAfterSync, TypeToken
<1>4. QED
  BY <1>1, <1>2, <1>3 DEF IInv

\* What opening a context does, with no snapshot or with one the runtime has taken over.
LEMMA EnterContextInv ==
  ASSUME IInv, CanUnlock, NEW d \in Data \cup {None}, EnterContext(d),
         active' \in Data \cup {None}, d # None => active' = d
  PROVE  IInv'
<1>1. /\ ctx' \in Contexts
      /\ ctx'.active /\ ctx'.token = sync.input /\ ctx'.data = d /\ ctx'.outcome = ctx.outcome
      /\ ctx'.of = ctx.of /\ ctx'.reported = ctx.reported
  <2>1. ctx \in Contexts /\ sync.input \in Tokens \cup {None} /\ "none" \in Outcomes
    BY DEF IInv, TypeOK, Outcomes
  <2>2. ctx' = [ctx EXCEPT !.active = TRUE, !.token = sync.input, !.data = d, !.refused = FALSE]
    BY DEF EnterContext
  <2>3. ctx' \in Contexts
    BY <2>1, <2>2, ContextType
  <2>4. QED
    BY <2>1, <2>2, <2>3 DEF Contexts
<1>2. TypeOK'
  BY <1>1 DEF IInv, TypeOK, Screens, EnterContext
<1>3. Stage'
  BY <1>1 DEF IInv, Stage, Configured, Placed, OneJobAtATime, Opened, Cleared, Outside, Inside,
              CanUnlock, EnterContext
<1>4. Held'
  BY <1>1 DEF IInv, Stage, Placed, Opened, Outside, Cleared, Held, Owned, ReplacementConfirmed,
              Shown, ReportOfShownData, FreshAfterSync, CanUnlock, EnterContext
<1>5. QED
  BY <1>2, <1>3, <1>4 DEF IInv

LEMMA UnlockSnapshotInv == ASSUME IInv, UnlockSnapshot PROVE IInv'
<1>1. Owner \in Owners
  BY DEF IInv, TypeOK, Stage, Configured, UnlockSnapshot, CanUnlock, Owner, Owners
<1>2. stored[Owner] \in Data \cup {None} /\ active' = stored[Owner]
  BY <1>1 DEF IInv, TypeOK, UnlockSnapshot
<1>3. QED
  BY <1>2, EnterContextInv DEF UnlockSnapshot

LEMMA UnlockNewContextInv == ASSUME IInv, UnlockNewContext PROVE IInv'
<1>1. active' \in Data \cup {None}
  BY DEF IInv, TypeOK, UnlockNewContext
<1>2. QED
  BY <1>1, EnterContextInv DEF UnlockNewContext

LEMMA UnlockRefusedInv == ASSUME IInv, UnlockRefused PROVE IInv'
<1>1. TypeOK'
  <2>1. ctx' \in Contexts
    BY DEF IInv, TypeOK, Contexts, UnlockRefused
  <2>2. QED
    BY <2>1 DEF IInv, TypeOK, UnlockRefused
<1>2. Stage'
  BY DEF IInv, TypeOK, Contexts, Stage, Configured, Placed, OneJobAtATime, Opened, Cleared,
         Outside, Inside, UnlockRefused, CanUnlock
<1>3. Held'
  BY DEF IInv, TypeOK, Contexts, Stage, Configured, Placed, OneJobAtATime, Opened, Cleared,
         Outside, Inside, Held, Owned, ReplacementConfirmed, Shown, ReportOfShownData,
         FreshAfterSync, UnlockRefused, CanUnlock
<1>4. QED
  BY <1>1, <1>2, <1>3 DEF IInv

LEMMA LeaveUnlockInv == ASSUME IInv, LeaveUnlock PROVE IInv'
<1>1. TypeOK'
  <2>1. ctx' \in Contexts
    BY NewContextType DEF IInv, TypeOK, LeaveUnlock, EnterMainMenu, BackToMain, ClearContext
  <2>2. QED
    BY <2>1 DEF IInv, TypeOK, Screens, Outcomes, LeaveUnlock, EnterMainMenu, BackToMain,
                ClearContext
<1>2. Stage'
  BY DEF IInv, TypeOK, Stage, Configured, Placed, OneJobAtATime, Opened, Cleared, Outside,
         Inside, LeaveUnlock, EnterMainMenu, BackToMain, ClearContext, NewContext
<1>3. Held'
  BY DEF IInv, TypeOK, Stage, Configured, Placed, OneJobAtATime, Opened, Cleared, Outside,
         Inside, Held, Owned, ReplacementConfirmed, Shown, ReportOfShownData,
         FreshAfterSync, LeaveUnlock, EnterMainMenu, BackToMain, ClearContext, NewContext
<1>4. QED
  BY <1>1, <1>2, <1>3 DEF IInv
-----------------------------------------------------------------------------
\* Syncing.

LEMMA SyncDataInv == ASSUME IInv, SyncData PROVE IInv'
<1>1. /\ sync' \in SyncStates
      /\ sync' = [busy |-> FALSE, attempt |-> None, useContext |-> TRUE, input |-> None]
  BY DEF SyncData, SyncStates
<1>2. TypeOK'
  BY <1>1 DEF IInv, TypeOK, SyncStates, Screens, SyncData
<1>3. Stage'
  BY <1>1 DEF IInv, TypeOK, Stage, Configured, Placed, OneJobAtATime, Opened, Cleared,
              Outside, Inside, SyncData
<1>4. Held'
  BY <1>1 DEF IInv, TypeOK, Stage, Placed, Cleared, Held, Owned, ReplacementConfirmed, Shown,
              ReportOfShownData, FreshAfterSync, SyncData
<1>5. QED
  BY <1>2, <1>3, <1>4 DEF IInv

\* The token of a sync is the one typed, or the one of the open context.
LEMMA StartSyncInv == ASSUME IInv, StartSync PROVE IInv'
<1>1. /\ screen = "sync" /\ ~sync.busy /\ ~ReplacementRequired
      /\ StartAttempt(SyncToken, FALSE)
      /\ UNCHANGED <<config, pending, report, result, active, disk, saves, stored, quitting>>
  BY DEF StartSync, CanStartSync
<1>2. SyncToken \in Tokens
  BY DEF IInv, TypeOK, Contexts, StartSync, CanStartSync, SyncToken
<1>3. /\ config \in Servers
      /\ ctx.active => SyncToken = ctx.token
      /\ pending = None
  BY <1>1 DEF IInv, TypeOK, Stage, Configured, Opened, SyncToken
<1>4. QED
  BY <1>1, <1>2, <1>3, AttemptStep

LEMMA AskReplacementInv == ASSUME IInv, AskReplacement PROVE IInv'
<1>1. TypeOK'
  BY DEF IInv, TypeOK, Contexts, Screens, AskReplacement, CanStartSync, SyncToken
<1>2. Stage'
  BY DEF IInv, TypeOK, Stage, Configured, Placed, OneJobAtATime, Opened, Cleared, Outside,
         Inside, AskReplacement, CanStartSync, SyncToken
<1>3. Held'
  BY DEF IInv, TypeOK, Stage, Placed, Cleared, Held, Owned, ReplacementConfirmed, Shown,
         ReportOfShownData, FreshAfterSync, AskReplacement, CanStartSync
<1>4. QED
  BY <1>1, <1>2, <1>3 DEF IInv

LEMMA ConfirmReplacementInv == ASSUME IInv, ConfirmReplacement PROVE IInv'
<1>1. /\ screen = "replacement" /\ pending \in Tokens /\ pending' = None
      /\ StartAttempt(pending, TRUE)
      /\ UNCHANGED <<config, report, result, active, disk, saves, stored, quitting>>
  BY DEF IInv, TypeOK, ConfirmReplacement
<1>2. config \in Servers /\ (ctx.active => pending = ctx.token)
  BY <1>1 DEF IInv, TypeOK, Stage, Configured, Opened
<1>3. QED
  BY <1>1, <1>2, AttemptStep

LEMMA CancelReplacementInv == ASSUME IInv, CancelReplacement PROVE IInv'
<1>1. TypeOK'
  <2>1. sync' \in SyncStates
    BY DEF IInv, TypeOK, SyncStates, CancelReplacement
  <2>2. result' \in [outcome : Outcomes, writing : BOOLEAN] /\ screen' \in Screens
    BY DEF IInv, TypeOK, Outcomes, Screens, CancelReplacement
  <2>3. QED
    BY <2>1, <2>2 DEF IInv, TypeOK, SyncStates, CancelReplacement
<1>2. Stage'
  BY DEF IInv, TypeOK, Stage, Configured, Placed, OneJobAtATime, Opened, Cleared, Outside,
         Inside, CancelReplacement
<1>3. Held'
  BY DEF IInv, TypeOK, Stage, Placed, Cleared, Held, Owned, ReplacementConfirmed, Shown,
         ReportOfShownData, FreshAfterSync, CancelReplacement
<1>4. QED
  BY <1>1, <1>2, <1>3 DEF IInv

LEMMA LeaveSyncInv == ASSUME IInv, LeaveSync PROVE IInv'
<1>1. TypeOK'
  <2>1. CASE ctx.active
    BY <2>1 DEF IInv, TypeOK, Screens, LeaveSync
  <2>2. CASE ~ctx.active
    <3>1. BackToMain
      BY <2>2 DEF LeaveSync
    <3>2. ctx' \in Contexts
      BY <3>1, NewContextType DEF IInv, TypeOK, BackToMain, EnterMainMenu, ClearContext
    <3>3. QED
      BY <3>1, <3>2 DEF IInv, TypeOK, Screens, Outcomes, BackToMain, EnterMainMenu, ClearContext
  <2>3. QED
    BY <2>1, <2>2
<1>2. Stage'
  BY DEF IInv, TypeOK, Stage, Configured, Placed, OneJobAtATime, Opened, Cleared, Outside,
         Inside, LeaveSync, BackToMain, EnterMainMenu, ClearContext, NewContext
<1>3. Held'
  BY DEF IInv, TypeOK, Stage, Placed, Cleared, Held, Owned, ReplacementConfirmed, Shown,
         ReportOfShownData, FreshAfterSync, LeaveSync, BackToMain, EnterMainMenu, ClearContext,
         NewContext
<1>4. QED
  BY <1>1, <1>2, <1>3 DEF IInv

\* The only sync in flight may make other data active: those of its own owner.
LEMMA RunSyncInv == ASSUME IInv, NEW j \in jobs, RunSync(j) PROVE IInv'
<1>1. /\ j \in Jobs /\ j.kind = "sync" /\ j.outcome = "running" /\ j.owner \in Owners
      /\ screen = "sync" /\ sync.busy /\ sync.attempt = j.attempt
      /\ \A i \in jobs : i.kind \in {"sync", "report"} => i = j
  BY DEF IInv, TypeOK, Stage, Placed, OneJobAtATime, RunSync
<1>2. UNCHANGED <<screen, config, ctx, sync, pending, report, result, disk, saves, quitting>>
  BY DEF RunSync
<1> DEFINE Effect(o) ==
      /\ jobs' = (jobs \ {j}) \cup {[j EXCEPT !.outcome = o]}
      /\ active' \in Data \cup {None} /\ stored' \in [Owners -> Data \cup {None}]
      /\ o = "ok" => active' # None /\ active'.owner = j.owner
<1>3. PICK o \in {"ok", "failed", "diagnosable"} : Effect(o)
  <2>1. CASE /\ \E failure \in {"failed", "diagnosable"} : Replace(j, [j EXCEPT !.outcome = failure])
             /\ UNCHANGED <<stored, active>>
    BY <2>1 DEF IInv, TypeOK, Replace
  <2>2. CASE \E y \in Histories : LET d == [owner |-> j.owner, years |-> y] IN
               /\ stored' = [stored EXCEPT ![j.owner] = d]
               /\ \/ active' = d /\ Replace(j, [j EXCEPT !.outcome = "ok"])
                  \/ UNCHANGED active /\ Replace(j, [j EXCEPT !.outcome = "diagnosable"])
    <3>1. PICK y \in Histories : LET d == [owner |-> j.owner, years |-> y] IN
               /\ stored' = [stored EXCEPT ![j.owner] = d]
               /\ \/ active' = d /\ Replace(j, [j EXCEPT !.outcome = "ok"])
                  \/ UNCHANGED active /\ Replace(j, [j EXCEPT !.outcome = "diagnosable"])
      BY <2>2
    <3> DEFINE d == [owner |-> j.owner, years |-> y]
    <3>2. d \in Data /\ d # None /\ d.owner = j.owner
      BY <1>1 DEF Data
    <3>3. stored' = [stored EXCEPT ![j.owner] = d]
      BY <3>1
    <3>4. CASE active' = d /\ Replace(j, [j EXCEPT !.outcome = "ok"])
      BY <3>2, <3>3, <3>4 DEF IInv, TypeOK, Replace
    <3>5. CASE UNCHANGED active /\ Replace(j, [j EXCEPT !.outcome = "diagnosable"])
      BY <3>2, <3>3, <3>5 DEF IInv, TypeOK, Replace
    <3>6. QED
      BY <3>1, <3>4, <3>5
  <2>3. QED
    BY <2>1, <2>2 DEF RunSync
<1> DEFINE k == [j EXCEPT !.outcome = o]
<1>4. /\ jobs' = (jobs \ {j}) \cup {k} /\ k \in Jobs
      /\ k.kind = "sync" /\ k.attempt = j.attempt /\ k.owner = j.owner /\ k.outcome = o
  BY <1>1, <1>3 DEF Jobs
<1> HIDE DEF k
<1>5. TypeOK'
  BY <1>2, <1>3, <1>4 DEF IInv, TypeOK
<1>6. Stage'
  BY <1>1, <1>2, <1>4 DEF IInv, Stage, Configured, Placed, OneJobAtATime, Opened, Cleared
<1>7. Held'
  <2>1. Owned' /\ ReplacementConfirmed'
    BY <1>1, <1>2, <1>3, <1>4 DEF IInv, Held, Owned, ReplacementConfirmed
  <2>2. Shown' /\ ReportOfShownData' /\ FreshAfterSync'
    BY <1>1, <1>2, <1>4 DEF IInv, Held, Shown, ReportOfShownData, FreshAfterSync
  <2>3. QED
    BY <2>1, <2>2 DEF Held
<1>8. QED
  BY <1>5, <1>6, <1>7 DEF IInv

\* The context takes over what the sync has left in memory.
LEMMA SyncFinishedInv == ASSUME IInv, NEW j \in jobs, SyncFinished(j) PROVE IInv'
<1>1. /\ j \in Jobs /\ j.kind = "sync" /\ j.outcome \in {"ok", "failed", "diagnosable"}
      /\ screen = "sync" /\ pending = None /\ ctx.of = None /\ ctx.reported = "none"
      /\ jobs' = jobs \ {j}
      /\ \A i \in jobs : i.kind \in {"sync", "report"} => i = j
  BY DEF IInv, TypeOK, Jobs, Stage, Placed, OneJobAtATime, Opened, Cleared, SyncFinished, Drop
<1>2. /\ sync' = [sync EXCEPT !.busy = FALSE, !.attempt = None, !.input = None]
      /\ UNCHANGED <<config, pending, report, active, disk, saves, stored, quitting>>
  BY DEF SyncFinished
<1>3. sync' \in SyncStates /\ sync'.input = None
  BY <1>2 DEF IInv, TypeOK, SyncStates
<1>4. CASE ctx.active
  <2>1. /\ screen' = "menu" /\ result' = result
        /\ ctx' = [ctx EXCEPT !.outcome = j.outcome, !.writing = FALSE, !.data = active]
    BY <1>4 DEF IInv, Stage, Opened, SyncFinished
  <2>2. ctx \in Contexts /\ active \in Data \cup {None} /\ j.outcome \in Outcomes
    BY <1>1 DEF IInv, TypeOK, Outcomes
  <2>3. ctx' \in Contexts
    BY <2>1, <2>2, ContextType
  <2>4. /\ ctx'.active /\ ctx'.token = ctx.token /\ ctx'.data = active
        /\ ctx'.outcome = j.outcome /\ ctx'.of = None /\ ctx'.reported = "none"
    BY <1>1, <1>4, <2>1, <2>2 DEF Contexts
  <2>5. TypeOK'
    BY <1>1, <1>2, <1>3, <2>1, <2>3 DEF IInv, TypeOK, SyncStates, Screens
  <2>6. Stage'
    BY <1>1, <1>2, <1>3, <2>1, <2>4
    DEF IInv, Stage, Configured, Placed, OneJobAtATime, Opened, Cleared, Outside, Inside
  <2>7. Held'
    <3>1. /\ j.outcome = "ok" => /\ active # None
                                 /\ active.owner = [server |-> config, token |-> ctx.token]
      BY <1>1, <1>4 DEF IInv, Held, Owned
    <3>2. QED
      BY <1>1, <1>2, <2>1, <2>4, <3>1
      DEF Held, Owned, ReplacementConfirmed, Shown, ReportOfShownData, FreshAfterSync
  <2>8. QED
    BY <2>5, <2>6, <2>7 DEF IInv
<1>5. CASE ~ctx.active
  <2>1. /\ screen' = "syncResult" /\ ctx' = ctx
        /\ result' = [outcome |-> j.outcome, writing |-> FALSE]
    BY <1>5 DEF SyncFinished
  <2>2. quitting
    BY <1>1, <1>5 DEF IInv, Stage, Opened, Inside
  <2>3. TypeOK'
    BY <1>1, <1>2, <1>3, <2>1 DEF IInv, TypeOK, SyncStates, Screens, Outcomes
  <2>4. Stage'
    BY <1>1, <1>2, <1>3, <1>5, <2>1, <2>2
    DEF IInv, Stage, Configured, Placed, OneJobAtATime, Opened, Cleared, Outside, Inside
  <2>5. Held'
    BY <1>1, <1>2, <1>5, <2>1, <2>2
    DEF IInv, Held, Owned, ReplacementConfirmed, Shown, ReportOfShownData, FreshAfterSync
  <2>6. QED
    BY <2>3, <2>4, <2>5 DEF IInv
<1>6. QED
  BY <1>4, <1>5
-----------------------------------------------------------------------------
\* Reports.

LEMMA ChooseReportInv == ASSUME IInv, ChooseReport PROVE IInv'
<1>1. TypeOK'
  BY DEF IInv, TypeOK, Screens, ChooseReport
<1>2. Stage'
  BY DEF IInv, TypeOK, Stage, Configured, Placed, OneJobAtATime, Opened, Cleared, Outside,
         Inside, ChooseReport
<1>3. Held'
  BY DEF IInv, Stage, Placed, Cleared, Held, Owned, ReplacementConfirmed, Shown,
         ReportOfShownData, FreshAfterSync, Reportable, ChooseReport
<1>4. QED
  BY <1>1, <1>2, <1>3 DEF IInv

\* The selection screen is open, so no sync or report is in flight.
LEMMA StartReportInv == ASSUME IInv, StartReport PROVE IInv'
<1>1. PICK n \in Attempts : /\ FreshAttempt(n)
                            /\ report' = [busy |-> TRUE, attempt |-> n]
                            /\ NewJob("report", n, None, FALSE)
  BY DEF StartReport
<1> DEFINE k == [kind |-> "report", attempt |-> n, owner |-> None, confirmed |-> FALSE,
                 outcome |-> "running", of |-> None]
<1>2. /\ jobs' = jobs \cup {k} /\ k \in Jobs
      /\ k.kind = "report" /\ k.outcome = "running" /\ k.of = None
  BY <1>1 DEF NewJob, Jobs
<1>3. /\ screen = "selection" /\ screen' = "reportBusy"
      /\ UNCHANGED <<config, ctx, sync, pending, result, active, disk, saves, stored, quitting>>
      /\ \A j \in jobs : j.kind \notin {"sync", "report"}
  BY DEF IInv, Stage, Placed, StartReport
<1> HIDE DEF k
<1>4. TypeOK'
  BY <1>1, <1>2, <1>3 DEF IInv, TypeOK, Screens
<1>5. Stage'
  BY <1>2, <1>3
  DEF IInv, Stage, Configured, Placed, OneJobAtATime, Opened, Cleared, Outside, Inside
<1>6. Held'
  BY <1>2, <1>3
  DEF IInv, Stage, Cleared, Held, Owned, ReplacementConfirmed, Shown, ReportOfShownData,
      FreshAfterSync
<1>7. QED
  BY <1>4, <1>5, <1>6 DEF IInv

\* The runtime reads its active snapshot, which is what the context shows.
LEMMA RunReportInv == ASSUME IInv, NEW j \in jobs, RunReport(j) PROVE IInv'
<1>1. /\ j \in Jobs /\ j.kind = "report" /\ j.outcome = "running" /\ screen = "reportBusy"
      /\ \A i \in jobs : i.kind \in {"sync", "report"} => i = j
      /\ j.of # None => j.of \in Data
  BY DEF IInv, TypeOK, Jobs, Stage, Placed, OneJobAtATime, RunReport
<1>2. UNCHANGED <<screen, mem, disk, saves, stored, quitting>>
  BY DEF RunReport
<1>3. PICK k \in Jobs :
        /\ jobs' = (jobs \ {j}) \cup {k}
        /\ k.kind = "report"
        /\ k.of # j.of => k.of = active /\ active # None
  <2>1. CASE \E failure \in {"failed", "diagnosable"} : Replace(j, [j EXCEPT !.outcome = failure])
    <3>1. PICK failure \in {"failed", "diagnosable"} : Replace(j, [j EXCEPT !.outcome = failure])
      BY <2>1
    <3>2. [j EXCEPT !.outcome = failure] \in Jobs
      BY <1>1 DEF Jobs
    <3>3. QED
      BY <1>1, <3>1, <3>2 DEF Replace, Jobs
  <2>2. CASE Reportable(active) /\ Replace(j, [j EXCEPT !.outcome = "ok", !.of = active])
    <3>1. [j EXCEPT !.outcome = "ok", !.of = active] \in Jobs
      BY <1>1 DEF IInv, TypeOK, Jobs
    <3>2. QED
      BY <1>1, <2>2, <3>1 DEF Replace, Jobs, Reportable
  <2>3. QED
    BY <2>1, <2>2 DEF RunReport
<1>4. TypeOK'
  BY <1>2, <1>3 DEF IInv, TypeOK
<1>5. Stage'
  BY <1>1, <1>2, <1>3
  DEF IInv, Stage, Configured, Placed, OneJobAtATime, Opened, Cleared, Outside, Inside
<1>6. Held'
  <2>1. ~quitting => ctx.data = active
    BY <1>1 DEF IInv, Stage, Opened, Inside, Held, Shown
  <2>2. ReportOfShownData'
    BY <1>1, <1>2, <1>3, <2>1 DEF IInv, Held, ReportOfShownData
  <2>3. (Owned /\ ReplacementConfirmed /\ Shown /\ FreshAfterSync)'
    BY <1>1, <1>2, <1>3 DEF IInv, Held, Owned, ReplacementConfirmed, Shown, FreshAfterSync
  <2>4. QED
    BY <2>2, <2>3 DEF Held
<1>7. QED
  BY <1>4, <1>5, <1>6 DEF IInv

LEMMA ReportFinishedInv == ASSUME IInv, NEW j \in jobs, ReportFinished(j) PROVE IInv'
<1>1. /\ j \in Jobs /\ j.kind = "report" /\ screen = "reportBusy" /\ screen' = "reportResult"
      /\ \A i \in jobs : i.kind \in {"sync", "report"} => i = j
      /\ jobs' = jobs \ {j}
      /\ UNCHANGED <<config, sync, pending, result, active, disk, saves, stored, quitting>>
  BY DEF IInv, TypeOK, Stage, Placed, OneJobAtATime, ReportFinished, Drop
<1>2. /\ ctx' \in Contexts
      /\ ctx'.active = ctx.active /\ ctx'.token = ctx.token /\ ctx'.data = ctx.data
      /\ ctx'.outcome = ctx.outcome /\ ctx'.of = j.of
  <2>1. ctx' = [ctx EXCEPT !.reported = j.outcome, !.of = j.of]
    BY DEF ReportFinished
  <2>2. ctx \in Contexts /\ j.outcome \in Outcomes /\ j.of \in Data \cup {None}
    BY <1>1 DEF IInv, TypeOK, Jobs, Outcomes, ReportFinished
  <2>3. None \in Tokens \cup {None} /\ ctx' \in Contexts
    BY <2>1, <2>2, ContextType
  <2>4. QED
    BY <2>1, <2>2, <2>3 DEF Contexts
<1>3. TypeOK'
  BY <1>1, <1>2 DEF IInv, TypeOK, Screens, ReportFinished
<1>4. Stage'
  BY <1>1, <1>2
  DEF IInv, Stage, Configured, Placed, OneJobAtATime, Opened, Cleared, Outside, Inside
<1>5. Held'
  BY <1>1, <1>2
  DEF IInv, Held, Owned, ReplacementConfirmed, Shown, ReportOfShownData, FreshAfterSync
<1>6. QED
  BY <1>3, <1>4, <1>5 DEF IInv

LEMMA LeaveReportInv == ASSUME IInv, LeaveReport PROVE IInv'
<1>1. /\ screen \in {"selection", "reportResult"} /\ screen' \in {"menu", "selection"}
      /\ screen' = "selection" => ctx.data # None
      /\ report' = NewReport
      /\ UNCHANGED <<config, sync, pending, result, active, env>>
  BY DEF LeaveReport, Reportable
<1>2. /\ ctx' \in Contexts
      /\ ctx'.active = ctx.active /\ ctx'.token = ctx.token /\ ctx'.data = ctx.data
      /\ ctx'.outcome = ctx.outcome /\ ctx'.of = None /\ ctx'.reported = "none"
  <2>1. ctx' = [ctx EXCEPT !.reported = "none", !.of = None]
    BY DEF LeaveReport
  <2>2. ctx \in Contexts /\ "none" \in Outcomes
    BY DEF IInv, TypeOK, Outcomes
  <2>3. QED
    BY <2>1, <2>2 DEF Contexts
<1>3. TypeOK'
  BY <1>1, <1>2 DEF IInv, TypeOK, Screens
<1>4. Stage'
  BY <1>1, <1>2
  DEF IInv, Stage, Configured, Placed, OneJobAtATime, Opened, Cleared, Outside, Inside
<1>5. Held'
  BY <1>1, <1>2
  DEF IInv, Stage, Placed, Held, Owned, ReplacementConfirmed, Shown, ReportOfShownData,
      FreshAfterSync
<1>6. QED
  BY <1>3, <1>4, <1>5 DEF IInv

-----------------------------------------------------------------------------
\* Diagnostics: a diagnostic job owns no screen and no data.

LEMMA StartDiagnosticInv == ASSUME IInv, StartDiagnostic PROVE IInv'
<1> DEFINE k == [kind |-> "diagnostic", attempt |-> None, owner |-> None, confirmed |-> FALSE,
                 outcome |-> "running", of |-> None]
<1>1. jobs' = jobs \cup {k} /\ k \in Jobs /\ k.kind = "diagnostic"
  BY DEF StartDiagnostic, NewJob, Jobs
<1> HIDE DEF k
<1>2. /\ ctx' \in Contexts
      /\ ctx'.active = ctx.active /\ ctx'.token = ctx.token /\ ctx'.data = ctx.data
      /\ ctx'.outcome = ctx.outcome /\ ctx'.of = ctx.of /\ ctx'.reported = ctx.reported
  <2>1. ctx' = ctx \/ ctx' = [ctx EXCEPT !.writing = TRUE]
    BY DEF StartDiagnostic
  <2>2. ctx \in Contexts
    BY DEF IInv, TypeOK
  <2>3. QED
    BY <2>1, <2>2 DEF Contexts
<1>3. /\ report' \in [busy : BOOLEAN, attempt : Attempts \cup {None}]
      /\ result' \in [outcome : Outcomes, writing : BOOLEAN]
  BY DEF IInv, TypeOK, StartDiagnostic
<1>4. UNCHANGED <<screen, config, sync, pending, active, disk, saves, stored, quitting>>
  BY DEF StartDiagnostic
<1>5. TypeOK'
  BY <1>1, <1>2, <1>3, <1>4 DEF IInv, TypeOK
<1>6. Stage'
  BY <1>1, <1>2, <1>4
  DEF IInv, Stage, Configured, Placed, OneJobAtATime, Opened, Cleared
<1>7. Held'
  BY <1>1, <1>2, <1>4
  DEF IInv, Held, Owned, ReplacementConfirmed, Shown, ReportOfShownData, FreshAfterSync
<1>8. QED
  BY <1>5, <1>6, <1>7 DEF IInv

LEMMA RunDiagnosticInv == ASSUME IInv, NEW j \in jobs, RunDiagnostic(j) PROVE IInv'
<1>1. PICK k \in Jobs : jobs' = (jobs \ {j}) \cup {k} /\ k.kind = "diagnostic"
  <2>1. PICK o \in {"ok", "failed"} : Replace(j, [j EXCEPT !.outcome = o])
    BY DEF RunDiagnostic
  <2>2. j \in Jobs /\ j.kind = "diagnostic"
    BY DEF IInv, TypeOK, RunDiagnostic
  <2>3. [j EXCEPT !.outcome = o] \in Jobs /\ [j EXCEPT !.outcome = o].kind = "diagnostic"
    BY <2>2 DEF Jobs
  <2>4. QED
    BY <2>1, <2>3 DEF Replace
<1>2. UNCHANGED <<screen, mem, disk, saves, stored, quitting>>
  BY DEF RunDiagnostic
<1>3. j.kind = "diagnostic"
  BY DEF RunDiagnostic
<1>4. TypeOK'
  BY <1>1, <1>2 DEF IInv, TypeOK
<1>5. Stage'
  BY <1>1, <1>2 DEF IInv, Stage, Configured, Placed, OneJobAtATime, Opened, Cleared
<1>6. Held'
  BY <1>1, <1>2, <1>3
  DEF IInv, Held, Owned, ReplacementConfirmed, Shown, ReportOfShownData, FreshAfterSync
<1>7. QED
  BY <1>4, <1>5, <1>6 DEF IInv

\* The answer changes what the menus offer, and takes the outcome of nothing that succeeded.
LEMMA DiagnosticFinishedInv == ASSUME IInv, NEW j \in jobs, DiagnosticFinished(j) PROVE IInv'
<1>1. /\ j.kind = "diagnostic" /\ jobs' = jobs \ {j}
      /\ UNCHANGED <<screen, config, sync, pending, active, disk, saves, stored, quitting>>
  BY DEF DiagnosticFinished, Drop
<1>2. ASSUME NEW o \in Outcomes
      PROVE  Diagnosed(j, o) \in Outcomes /\ (Diagnosed(j, o) = "ok" => o = "ok")
  BY DEF Diagnosed, Outcomes
<1>3. ctx \in Contexts /\ ctx.outcome \in Outcomes /\ ctx.reported \in Outcomes
  BY DEF IInv, TypeOK, Contexts
<1>4. /\ ctx' \in Contexts
      /\ ctx'.active = ctx.active /\ ctx'.token = ctx.token /\ ctx'.data = ctx.data
      /\ ctx'.of = ctx.of
      /\ ctx'.outcome = "ok" => ctx.outcome = "ok"
      /\ screen = "reportResult" \/ ctx'.reported = ctx.reported
  <2>1. CASE screen = "menu"
    <3>1. ctx' = [ctx EXCEPT !.writing = FALSE, !.outcome = Diagnosed(j, ctx.outcome)]
      BY <1>3, <2>1 DEF DiagnosticFinished, Contexts
    <3>2. QED
      BY <1>2, <1>3, <3>1 DEF Contexts
  <2>2. CASE screen = "reportResult"
    <3>1. ctx' = [ctx EXCEPT !.reported = Diagnosed(j, ctx.reported)]
      BY <1>3, <2>2 DEF DiagnosticFinished, Contexts
    <3>2. QED
      BY <1>2, <1>3, <2>2, <3>1 DEF Contexts
  <2>3. CASE screen \notin {"menu", "reportResult"}
    BY <1>3, <2>3 DEF DiagnosticFinished
  <2>4. QED
    BY <2>1, <2>2, <2>3
<1>5. /\ report' \in [busy : BOOLEAN, attempt : Attempts \cup {None}]
      /\ result' \in [outcome : Outcomes, writing : BOOLEAN]
  <2>1. /\ report \in [busy : BOOLEAN, attempt : Attempts \cup {None}]
        /\ result \in [outcome : Outcomes, writing : BOOLEAN]
    BY DEF IInv, TypeOK
  <2>2. \/ report' = report \/ report' = [report EXCEPT !.busy = FALSE]
    BY DEF DiagnosticFinished
  <2>3. \/ result' = result
        \/ result' = [outcome |-> Diagnosed(j, result.outcome), writing |-> FALSE]
    BY DEF DiagnosticFinished
  <2>4. Diagnosed(j, result.outcome) \in Outcomes
    BY <1>2, <2>1
  <2>5. report' \in [busy : BOOLEAN, attempt : Attempts \cup {None}]
    BY <2>1, <2>2
  <2>6. result' \in [outcome : Outcomes, writing : BOOLEAN]
    <3>1. \A o \in Outcomes : [outcome |-> o, writing |-> FALSE]
                                \in [outcome : Outcomes, writing : BOOLEAN]
      OBVIOUS
    <3>2. QED
      BY <2>1, <2>3, <2>4, <3>1
  <2>7. QED
    BY <2>5, <2>6
<1>6. TypeOK'
  BY <1>1, <1>4, <1>5 DEF IInv, TypeOK
<1>7. Stage'
  BY <1>1, <1>4 DEF IInv, Stage, Configured, Placed, OneJobAtATime, Opened, Cleared
<1>8. Held'
  BY <1>1, <1>4
  DEF IInv, Held, Owned, ReplacementConfirmed, Shown, ReportOfShownData, FreshAfterSync
<1>9. QED
  BY <1>6, <1>7, <1>8 DEF IInv

\* The answer of a sync is never the one that is lost, and a lost answer changes nothing.
LEMMA LostInv == ASSUME IInv, NEW j \in jobs, Lost(j) PROVE IInv'
<1>1. jobs' = jobs \ {j} /\ UNCHANGED <<screen, mem, disk, saves, stored, quitting>>
  BY DEF Lost, Drop
<1>2. j.kind # "sync"
  BY DEF IInv, Stage, Placed, Lost, HandlesSync
<1>3. TypeOK'
  BY <1>1 DEF IInv, TypeOK
<1>4. Stage'
  BY <1>1 DEF IInv, Stage, Configured, Placed, OneJobAtATime, Opened, Cleared
<1>5. Held'
  BY <1>1, <1>2
  DEF IInv, Held, Owned, ReplacementConfirmed, Shown, ReportOfShownData, FreshAfterSync
<1>6. QED
  BY <1>3, <1>4, <1>5 DEF IInv

-----------------------------------------------------------------------------
\* Leaving.

LEMMA LeaveContextInv == ASSUME IInv, LeaveContext PROVE IInv'
<1>1. TypeOK'
  <2>1. ctx' \in Contexts
    BY NewContextType
    DEF IInv, TypeOK, LeaveContext, BackToMain, EnterMainMenu, ClearContext
  <2>2. QED
    BY <2>1
    DEF IInv, TypeOK, Screens, Outcomes, LeaveContext, BackToMain, EnterMainMenu, ClearContext
<1>2. Stage'
  BY DEF IInv, TypeOK, Stage, Configured, Placed, OneJobAtATime, Opened, Cleared, Outside,
         Inside, LeaveContext, BackToMain, EnterMainMenu, ClearContext, NewContext
<1>3. Held'
  BY DEF IInv, Stage, Placed, Held, Owned, ReplacementConfirmed, Shown, ReportOfShownData,
         FreshAfterSync, LeaveContext, BackToMain, EnterMainMenu, ClearContext, NewContext
<1>4. QED
  BY <1>1, <1>2, <1>3 DEF IInv

LEMMA SyncAgainInv == ASSUME IInv, SyncAgain PROVE IInv'
<1>1. /\ screen = "syncResult" /\ screen' = "sync"
      /\ UNCHANGED <<config, ctx, pending, report, result, active, env>>
      /\ sync' = [busy |-> FALSE, attempt |-> None, useContext |-> ctx.active, input |-> None]
  BY DEF SyncAgain
<1>2. TypeOK'
  BY <1>1 DEF IInv, TypeOK, Contexts, Screens
<1>3. Stage'
  BY <1>1
  DEF IInv, Stage, Configured, Placed, OneJobAtATime, Opened, Cleared, Outside, Inside
<1>4. Held'
  BY <1>1
  DEF IInv, Stage, Placed, Held, Owned, ReplacementConfirmed, Shown, ReportOfShownData,
      FreshAfterSync
<1>5. QED
  BY <1>2, <1>3, <1>4 DEF IInv

\* ctrl+c clears the context while a job may still be in flight.
LEMMA CtrlCInv == ASSUME IInv, CtrlC PROVE IInv'
<1>1. TypeOK'
  <2>1. ctx' \in Contexts
    BY NewContextType DEF IInv, TypeOK, CtrlC, ClearContext
  <2>2. QED
    BY <2>1 DEF IInv, TypeOK, CtrlC, ClearContext
<1>2. Stage'
  BY DEF IInv, TypeOK, Stage, Configured, Placed, OneJobAtATime, Opened, Cleared, Outside,
         Inside, CtrlC, ClearContext, NewContext
<1>3. Held'
  BY DEF IInv, Held, Owned, ReplacementConfirmed, Shown, ReportOfShownData, FreshAfterSync,
         CtrlC, ClearContext, NewContext
<1>4. QED
  BY <1>1, <1>2, <1>3 DEF IInv

LEMMA RelaunchInv == ASSUME IInv, Relaunch PROVE IInv'
<1>1. TypeOK'
  <2>1. ctx' \in Contexts
    BY NewContextType DEF Relaunch
  <2>2. screen' \in Screens
    BY DEF Relaunch, FirstScreen, Screens
  <2>3. QED
    BY <2>1, <2>2 DEF IInv, TypeOK, Outcomes, NoSaves, Relaunch
<1>2. Stage'
  BY DEF Stage, Configured, Placed, OneJobAtATime, Opened, Cleared, Outside, Inside, Relaunch,
         FirstScreen, NewContext
<1>3. Held'
  BY DEF Held, Owned, ReplacementConfirmed, Shown, ReportOfShownData, FreshAfterSync, Relaunch,
         FirstScreen, NewContext
<1>4. QED
  BY <1>1, <1>2, <1>3 DEF IInv

-----------------------------------------------------------------------------
LEMMA UserInv == ASSUME IInv, User PROVE IInv'
<1>1. CASE EditSetup \/ LeaveSetup \/ \E k \in Saves, s \in Servers : SaveSetup(k, s)
  BY <1>1, EditSetupInv, LeaveSetupInv, SaveSetupInv
<1>2. CASE OpenUnlock \/ LeaveUnlock \/ \E t \in Tokens : TypeToken(t)
  BY <1>2, OpenUnlockInv, LeaveUnlockInv, TypeTokenInv
<1>3. CASE UnlockSnapshot \/ UnlockNewContext \/ UnlockRefused
  BY <1>3, UnlockSnapshotInv, UnlockNewContextInv, UnlockRefusedInv
<1>4. CASE SyncData \/ StartSync \/ LeaveSync \/ SyncAgain
  BY <1>4, SyncDataInv, StartSyncInv, LeaveSyncInv, SyncAgainInv
<1>5. CASE AskReplacement \/ ConfirmReplacement \/ CancelReplacement
  BY <1>5, AskReplacementInv, ConfirmReplacementInv, CancelReplacementInv
<1>6. CASE ChooseReport \/ StartReport \/ LeaveReport \/ StartDiagnostic
  BY <1>6, ChooseReportInv, StartReportInv, LeaveReportInv, StartDiagnosticInv
<1>7. CASE LeaveContext \/ CtrlC
  BY <1>7, LeaveContextInv, CtrlCInv
<1>8. QED
  BY <1>1, <1>2, <1>3, <1>4, <1>5, <1>6, <1>7 DEF User

LEMMA JobInv == ASSUME IInv, NEW j \in jobs, Run(j) \/ Answer(j) PROVE IInv'
<1>1. CASE Run(j)
  BY <1>1, RunSyncInv, RunReportInv, RunDiagnosticInv DEF Run
<1>2. CASE Answer(j)
  BY <1>2, SyncFinishedInv, ReportFinishedInv, DiagnosticFinishedInv, LostInv DEF Answer
<1>3. QED
  BY <1>1, <1>2

LEMMA StutterInv == ASSUME IInv, UNCHANGED vars PROVE IInv'
<1>1. UNCHANGED <<screen, mem, env>>
  BY DEF vars
<1>2. TypeOK'
  BY <1>1 DEF IInv, TypeOK
<1>3. Stage'
  BY <1>1 DEF IInv, Stage, Configured, Placed, OneJobAtATime, Opened, Cleared
<1>4. Held'
  BY <1>1
  DEF IInv, Held, Owned, ReplacementConfirmed, Shown, ReportOfShownData, FreshAfterSync
<1>5. QED
  BY <1>2, <1>3, <1>4 DEF IInv

LEMMA StepInv == IInv /\ [Next]_vars => IInv'
<1> SUFFICES ASSUME IInv, [Next]_vars PROVE IInv'
  OBVIOUS
<1>1. CASE User
  BY <1>1, UserInv
<1>2. ASSUME NEW k \in Saves, RunSave(k) \/ SetupSaved(k) PROVE IInv'
  BY <1>2, RunSaveInv, SetupSavedInv
<1>3. ASSUME NEW j \in jobs, Run(j) \/ Answer(j) PROVE IInv'
  BY <1>3, JobInv
<1>4. CASE Leave \/ Kill
  BY <1>4, RelaunchInv DEF Leave, Kill
<1>5. CASE UNCHANGED vars
  BY <1>5, StutterInv
<1>6. QED
  BY <1>1, <1>2, <1>3, <1>4, <1>5 DEF Next

LEMMA FlowInv == Spec => []IInv
<1>1. Init => IInv
  BY InitInv
<1>2. IInv /\ [Next]_vars => IInv'
  BY StepInv
<1>3. QED
  BY <1>1, <1>2, PTL DEF Spec

-----------------------------------------------------------------------------
(* Every variable of the terminal flow stays in its type: a job always carries the owner
   and attempt it was started with, and the context a token that was typed. *)
THEOREM FlowTypeCorrect == Spec => []TypeOK
<1>1. IInv => TypeOK
  BY DEF IInv
<1>2. QED
  BY <1>1, FlowInv, PTL

(* However keys, answers, ctrl+c and restarts interleave, at most one sync or report is in
   flight, and until ctrl+c a sync is that of the open context, its server and its token. *)
THEOREM JobsKeepTheContext == Spec => []JobKeepsContext
<1>1. IInv => JobKeepsContext
  BY DEF IInv, Stage, Placed, Opened, Inside, Held, Owned, JobKeepsContext, SyncKeepsContext
<1>2. QED
  BY <1>1, FlowInv, PTL

(* On the main menu and in setup no token, pending replacement or report of a context that
   was left is kept. *)
THEOREM NothingIsLeftBehind == Spec => []NothingLeftBehind
<1>1. IInv => NothingLeftBehind
  BY DEF IInv, Stage, Opened, Cleared, NothingLeftBehind
<1>2. QED
  BY <1>1, FlowInv, PTL

(* The gate asked when a sync is started is enough: no sync in flight can replace the data
   of another server unless the user confirmed it. *)
THEOREM ReplacementIsConfirmed == Spec => []ReplacementConfirmed
<1>1. IInv => ReplacementConfirmed
  BY DEF IInv, Held
<1>2. QED
  BY <1>1, FlowInv, PTL

(* The report on the screen is made of the data the context shows, and after a successful
   sync these are the data of the server and token it was started for. *)
THEOREM ShownDataIsHeld == Spec => []ShownDataHolds
<1>1. IInv => ShownDataHolds
  BY DEF IInv, Held, ShownDataHolds
<1>2. QED
  BY <1>1, FlowInv, PTL
=============================================================================
