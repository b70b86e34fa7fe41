---------------------------- MODULE ReportOutput ----------------------------
(***************************************************************************)
(* WriteReportOutputBundle: the files of one report are reserved under     *)
(* names with a common suffix, exclusively and one after the other, then   *)
(* written, synced and closed; what a failed attempt reserved is closed    *)
(* and removed, and what cannot be removed is named in the error.  All     *)
(* attempts here build the same name stem (same year, method and second),  *)
(* in one process or in several.  Any call may fail, and a process may be  *)
(* killed between two of them.  An attempt runs once.                      *)
(*                                                                         *)
(* External: the Documents directory, in which only attempts create or     *)
(* remove names while they run.                                            *)
(***************************************************************************)
EXTENDS Naturals, Sequences

CONSTANTS Attempts,     \* calls of WriteReportOutputBundle
          MaxSuffix,    \* bound: the highest suffix an attempt tries
          Taken,        \* bound: the highest suffix of a file that was there before
          None,         \* no file
          Earlier       \* a file no attempt of the model made

ASSUME OutputAssumption == /\ MaxSuffix \in Nat \ {0}
                           /\ Taken \in 0..MaxSuffix
                           /\ Earlier \notin Attempts

VARIABLES folder,       \* folder[p]: the file under path p, or None
          job           \* job[a]: the locals of attempt a

vars == <<folder, job>>

\* bundleFilenames: a main report and its annex, or one combined PDF.
Formats == {"markdown", "pdf"}
Roles == {"main", "annex"}
Bundle(format) == IF format = "markdown" THEN <<"main", "annex">> ELSE <<"main">>
Suffixes == 1..MaxSuffix
Paths == [format : Formats, role : Roles, suffix : Suffixes]

Files == [by : Attempts \cup {Earlier}, data : {"empty", "partial", "whole"}]
ASSUME NoneAssumption == None \notin Files

\* reserved, written and removed count the roles of the bundle that are; retry: the
\* clean-up is followed by the next suffix; dirty and residual: what it reports.
Jobs == [step : {"new", "reserve", "write", "cleanup", "saved", "failed", "dead"},
         format : Formats, suffix : Suffixes, reserved : 0..2, written : 0..2, removed : 0..2,
         retry : BOOLEAN, dirty : BOOLEAN, residual : SUBSET Paths]

TypeOK == /\ folder \in [Paths -> Files \cup {None}]
          /\ job \in [Attempts -> Jobs]

\* Nothing is reserved under this suffix yet.
Fresh(step, f, s) == [step |-> step, format |-> f, suffix |-> s, reserved |-> 0, written |-> 0,
                      removed |-> 0, retry |-> FALSE, dirty |-> FALSE, residual |-> {}]
NewJob(f) == Fresh("new", f, 1)

OldFile == [by |-> Earlier, data |-> "whole"]

Init == /\ folder \in [Paths -> {None, OldFile}]
        /\ \A p \in Paths : folder[p] # None => p.suffix <= Taken
        /\ \E f \in [Attempts -> Formats] : job = [a \in Attempts |-> NewJob(f[a])]

-----------------------------------------------------------------------------
\* The path of the i-th document of a's bundle.
Path(a, i) == [format |-> job[a].format, role |-> Bundle(job[a].format)[i],
               suffix |-> job[a].suffix]
Size(a) == Len(Bundle(job[a].format))

At(a, step) == job[a].step = step
Put(p, f) == folder' = [folder EXCEPT ![p] = f]

\* A slip: suffixes counted from zero.
BeginAtZero(a) == /\ At(a, "new")
                  /\ job' = [job EXCEPT ![a].step = "reserve", ![a].suffix = 0]
                  /\ UNCHANGED folder

\* Validation of the documents and of the Documents directory.
Begin(a) == /\ At(a, "new")
            /\ \E s \in {"reserve", "failed"} : job' = [job EXCEPT ![a].step = s]
            /\ UNCHANGED folder

\* A slip: the file is opened without O_EXCL.
ReserveAny(a) ==
  /\ At(a, "reserve")
  /\ LET n == job[a].reserved + 1 IN
       /\ Put(Path(a, n), [by |-> a, data |-> "empty"])
       /\ job' = [job EXCEPT ![a].reserved = n,
                             ![a].step = IF n = Size(a) THEN "write" ELSE "reserve"]

\* openWritableFile with O_CREATE and O_EXCL of the next name: it is free, ...
ReserveName(a) ==
  /\ At(a, "reserve")
  /\ LET n == job[a].reserved + 1 IN
       /\ folder[Path(a, n)] = None
       /\ Put(Path(a, n), [by |-> a, data |-> "empty"])
       /\ job' = [job EXCEPT ![a].reserved = n,
                             ![a].step = IF n = Size(a) THEN "write" ELSE "reserve"]

\* ... it is taken, or the call fails: what was reserved under this suffix is given back.
GiveUpName(a) ==
  /\ At(a, "reserve")
  /\ \E retry \in BOOLEAN :
       /\ retry => folder[Path(a, job[a].reserved + 1)] # None
       /\ job' = [job EXCEPT ![a].step = "cleanup", ![a].retry = retry]
  /\ UNCHANGED folder

\* A slip: the error of a write is not looked at.
WriteUnchecked(a) ==
  /\ At(a, "write")
  /\ LET n == job[a].written + 1 IN
       /\ \E d \in {"partial", "whole"} : Put(Path(a, n), [by |-> a, data |-> d])
       /\ job' = [job EXCEPT ![a].written = n,
                             ![a].step = IF n = Size(a) THEN "saved" ELSE "write"]

\* writeReservedReportOutputFile: Write, Sync and Close of the next document; the last
\* one makes the bundle.
Write(a) ==
  /\ At(a, "write")
  /\ LET n == job[a].written + 1 IN
       \/ /\ Put(Path(a, n), [by |-> a, data |-> "whole"])
          /\ job' = [job EXCEPT ![a].written = n,
                                ![a].step = IF n = Size(a) THEN "saved" ELSE "write"]
       \/ /\ \E d \in {"empty", "partial", "whole"} : Put(Path(a, n), [by |-> a, data |-> d])
          /\ job' = [job EXCEPT ![a].step = "cleanup"]

\* cleanupReservedReportFile: close what is still open, then remove; both may fail.
CleanupFile(a) ==
  /\ At(a, "cleanup")
  /\ job[a].removed < job[a].reserved
  /\ LET n == job[a].removed + 1 IN
       \/ /\ Put(Path(a, n), None)
          /\ \E closeFailed \in {FALSE, n > job[a].written} :
               job' = [job EXCEPT ![a].removed = n, ![a].dirty = @ \/ closeFailed]
       \/ /\ job' = [job EXCEPT ![a].removed = n, ![a].dirty = TRUE,
                                ![a].residual = @ \cup {Path(a, n)}]
          /\ UNCHANGED folder

\* A slip: the loop does not move on to the next suffix.
SameSuffix(a) == job[a].suffix

NextSuffix(a) == job[a].suffix + 1

\* How many of the reservations a clean-up has to go through.
ToRemove(a) == job[a].reserved

\* reserveReportFiles after the clean-up: the next suffix, unless the clean-up failed.
TryNextSuffix(a) ==
  /\ At(a, "cleanup")
  /\ job[a].removed = ToRemove(a)
  /\ job[a].retry /\ ~job[a].dirty
  /\ NextSuffix(a) <= MaxSuffix
  /\ job' = [job EXCEPT ![a] = Fresh("reserve", job[a].format, NextSuffix(a))]
  /\ UNCHANGED folder

Fail(a) == /\ At(a, "cleanup")
           /\ job[a].removed = ToRemove(a)
           /\ ~job[a].retry \/ job[a].dirty
           /\ job' = [job EXCEPT ![a].step = "failed"]
           /\ UNCHANGED folder

\* reportWriteFailureMessage: what the user reads of the files of a failed attempt. An
\* unavailable Documents folder, of which Begin is told, leaves nothing to speak of.
Told(a) == IF job[a].residual # {} THEN "something_left"
           ELSE IF job[a].dirty THEN "removed_with_errors"
           ELSE "all_removed"

Running(a) == job[a].step \in {"reserve", "write", "cleanup"}

\* The process is killed.
Kill(a) == /\ Running(a)
           /\ job' = [job EXCEPT ![a].step = "dead"]
           /\ UNCHANGED folder

Step(a) == \/ Begin(a) \/ ReserveName(a) \/ GiveUpName(a) \/ Write(a)
           \/ CleanupFile(a) \/ TryNextSuffix(a) \/ Fail(a)

Next == \E a \in Attempts : Step(a) \/ Kill(a)

Spec == Init /\ [][Next]_vars

\* Every call on a file returns.
FairSpec == Spec /\ \A a \in Attempts : WF_vars(Step(a))

-----------------------------------------------------------------------------
(* FR-025 of the report adjustments: an attempt touches no file but those it reserved
   itself; whoever else runs, fails or died, their files keep name and contents. *)
OthersKept == [][\A p \in Paths : folder[p] # None /\ folder'[p] # folder[p]
                   => \E a \in Attempts : folder[p].by = a /\ Running(a) /\ job'[a] # job[a]]_vars

(* A bundle that was reported as saved is whole: every document of it is on disk under
   the common suffix, and stays there. *)
SavedWhole == \A a \in Attempts : At(a, "saved") =>
  \A i \in 1..Size(a) : folder[Path(a, i)] = [by |-> a, data |-> "whole"]

(* What a failed attempt left behind is what its error names: nothing when no path is
   reported, as the message to the user then says. *)
LeftoversNamed == \A a \in Attempts : At(a, "failed") =>
  {p \in Paths : folder[p] # None /\ folder[p].by = a} = job[a].residual

(* The user reads that something may be left exactly when a file of the attempt is in the
   folder; an error on the way, as of a close, is no reason to say so. *)
MessageTrue == \A a \in Attempts : At(a, "failed") =>
  (Told(a) = "something_left" <=> \E p \in Paths : folder[p] # None /\ folder[p].by = a)

(* The folder holds what the user is told of an attempt, saved or failed. *)
FolderAsTold == SavedWhole /\ LeftoversNamed /\ MessageTrue

(* The search for a free suffix ends although other attempts take and give back names
   meanwhile. *)
EveryAttemptReturns ==
  \A a \in Attempts : At(a, "reserve") ~> job[a].step \in {"saved", "failed", "dead"}
=============================================================================
