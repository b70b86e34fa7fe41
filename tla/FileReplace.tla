----------------------------- MODULE FileReplace -----------------------------
(***************************************************************************)
(* ReplaceFileAtomically of the snapshot store: the steps by which the     *)
(* protected snapshots and the diagnostic reports reach the disk, on the   *)
(* two kinds of platform the code distinguishes.  Every filesystem call    *)
(* may fail, a process may die between any two of them, and the machine    *)
(* may lose power.  What a file holds is one of Contents, or Torn when a   *)
(* crash cut the write short.                                              *)
(*                                                                         *)
(* External: the filesystem.  A rename takes effect at once for every      *)
(* reader and reaches the disk at some later time, in order; the data of   *)
(* a file is on the disk for sure only after the file was synced.          *)
(***************************************************************************)
CONSTANTS Writers,      \* calls that may run at the same time
          Contents,     \* the byte strings callers may ask to store
          Absent,       \* there is no file under the name
          Torn,         \* bytes no call asked to store
          Windows       \* isWindowsPlatform()

ASSUME ReplaceAssumption == /\ Torn \notin Contents
                            /\ Absent \notin [data : Contents \cup {Torn}, synced : BOOLEAN]
                            /\ Absent \notin Contents
                            /\ Windows \in BOOLEAN

VARIABLES target,       \* the file under path
          backup,       \* the file under path + ".bak" (Windows only)
          durable,      \* both names as a power loss would leave them
          temp,         \* temp[w]: the temporary file w owns
          pc,           \* pc[w]: the step w runs next
          new,          \* new[w]: the contents w was called with
          moved,        \* moved[w]: existingFilePresent
          err,          \* err[w]: w will return an error
          last          \* last[w]: what w's latest call returned

vars == <<target, backup, durable, temp, pc, new, moved, err, last>>

Files == [data : Contents \cup {Torn}, synced : BOOLEAN]
Entries == Files \cup {Absent}

Steps == {"idle", "prepare", "fill", "sync", "dropStale", "inspect", "moveAside",
          "install", "restore", "dropMoved", "chmod", "cleanup"}

TypeOK == /\ target \in Entries
          /\ backup \in Entries
          /\ durable \in [target : Entries, backup : Entries]
          /\ temp \in [Writers -> Entries]
          /\ pc \in [Writers -> Steps]
          /\ new \in [Writers -> Contents]
          /\ moved \in [Writers -> BOOLEAN]
          /\ err \in [Writers -> BOOLEAN]
          /\ last \in [Writers -> {"none", "ok", "failed"}]

Stored(c) == [data |-> c, synced |-> TRUE]
Written(c) == [data |-> c, synced |-> FALSE]

Init == /\ target \in {Absent} \cup {Stored(c) : c \in Contents}
        /\ backup = Absent
        /\ durable = [target |-> target, backup |-> backup]
        /\ temp = [w \in Writers |-> Absent]
        /\ pc = [w \in Writers |-> "idle"]
        /\ new \in [Writers -> Contents]
        /\ moved = [w \in Writers |-> FALSE]
        /\ err = [w \in Writers |-> FALSE]
        /\ last = [w \in Writers |-> "none"]

-----------------------------------------------------------------------------
Goto(w, step) == pc' = [pc EXCEPT ![w] = step]

\* The error returns once the temporary file exists: only the deferred cleanup is left.
Abandon(w) == /\ Goto(w, "cleanup")
              /\ err' = [err EXCEPT ![w] = TRUE]

Begin(w, c) == /\ pc[w] = "idle"
               /\ Goto(w, "prepare")
               /\ new' = [new EXCEPT ![w] = c]
               /\ moved' = [moved EXCEPT ![w] = FALSE]
               /\ err' = [err EXCEPT ![w] = FALSE]
               /\ last' = [last EXCEPT ![w] = "none"]
               /\ UNCHANGED <<target, backup, durable, temp>>

\* mkdirAll, chmod of the directory and createTempFile: a failure returns at once.
Prepare(w) == /\ pc[w] = "prepare"
              /\ \/ /\ Goto(w, "fill")
                    /\ temp' = [temp EXCEPT ![w] = Written(Torn)]
                    /\ UNCHANGED last
                 \/ /\ Goto(w, "idle")
                    /\ last' = [last EXCEPT ![w] = "failed"]
                    /\ UNCHANGED temp
              /\ UNCHANGED <<target, backup, durable, new, moved, err>>

\* tempFile.Chmod and tempFile.Write.
Fill(w) == /\ pc[w] = "fill"
           /\ \/ /\ Goto(w, "sync")
                 /\ temp' = [temp EXCEPT ![w] = Written(new[w])]
                 /\ UNCHANGED err
              \/ /\ Abandon(w)
                 /\ UNCHANGED temp
           /\ UNCHANGED <<target, backup, durable, new, moved, last>>

\* A slip: no sync before the rename.
SyncForgotten(w) == /\ pc[w] = "sync"
                    /\ Goto(w, IF Windows THEN "dropStale" ELSE "install")
                    /\ UNCHANGED <<target, backup, durable, temp, new, moved, err, last>>

\* tempFile.Sync and tempFile.Close.
Sync(w) == /\ pc[w] = "sync"
           /\ \/ /\ Goto(w, IF Windows THEN "dropStale" ELSE "install")
                 /\ temp' = [temp EXCEPT ![w] = Stored(temp[w].data)]
                 /\ UNCHANGED err
              \/ /\ Abandon(w)
                 /\ UNCHANGED temp
           /\ UNCHANGED <<target, backup, durable, new, moved, last>>

\* replaceFileWindows: cleanupTempFile(backupPath), whose error is ignored.
DropStale(w) == /\ pc[w] = "dropStale"
                /\ Goto(w, "inspect")
                /\ backup' \in {Absent, backup}
                /\ UNCHANGED <<target, durable, temp, new, moved, err, last>>

Inspect(w) == /\ pc[w] = "inspect"
              /\ \/ /\ Goto(w, IF target = Absent THEN "install" ELSE "moveAside")
                    /\ moved' = [moved EXCEPT ![w] = target # Absent]
                    /\ UNCHANGED err
                 \/ /\ Abandon(w)
                    /\ UNCHANGED moved
              /\ UNCHANGED <<target, backup, durable, temp, new, last>>

MoveAside(w) == /\ pc[w] = "moveAside"
                /\ \/ /\ target # Absent
                      /\ Goto(w, "install")
                      /\ target' = Absent
                      /\ backup' = target
                      /\ UNCHANGED err
                   \/ /\ Abandon(w)
                      /\ UNCHANGED <<target, backup>>
                /\ UNCHANGED <<durable, temp, new, moved, last>>

\* renamePath(tempPath, path), the step that makes the new contents visible.
Install(w) == /\ pc[w] = "install"
              /\ \/ /\ Goto(w, IF moved[w] THEN "dropMoved" ELSE "chmod")
                    /\ target' = temp[w]
                    /\ temp' = [temp EXCEPT ![w] = Absent]
                    /\ UNCHANGED err
                 \/ /\ IF moved[w]
                       THEN Goto(w, "restore") /\ UNCHANGED err
                       ELSE Abandon(w)
                    /\ UNCHANGED <<target, temp>>
              /\ UNCHANGED <<backup, durable, new, moved, last>>

\* A slip: the backup is cleaned up where it should be put back.
RestoreDrops(w) == /\ pc[w] = "restore"
                   /\ Abandon(w)
                   /\ backup' = Absent
                   /\ UNCHANGED <<target, durable, temp, new, moved, last>>

\* renamePath(backupPath, path) after a failed install; its error is ignored.
Restore(w) == /\ pc[w] = "restore"
              /\ Abandon(w)
              /\ \/ /\ backup # Absent
                    /\ target' = backup
                    /\ backup' = Absent
                 \/ UNCHANGED <<target, backup>>
              /\ UNCHANGED <<durable, temp, new, moved, last>>

DropMoved(w) == /\ pc[w] = "dropMoved"
                /\ Goto(w, "chmod")
                /\ backup' \in {Absent, backup}
                /\ UNCHANGED <<target, durable, temp, new, moved, err, last>>

\* applyPathMode(path): the file is already in place when this fails.
Chmod(w) == /\ pc[w] = "chmod"
            /\ Goto(w, "cleanup")
            /\ err' \in {err, [err EXCEPT ![w] = ~Windows]}
            /\ UNCHANGED <<target, backup, durable, temp, new, moved, last>>

\* Slips: a call that failed returns what its callers do not know, and the error of an
\* earlier step is dropped by the deferred cleanup.
CleanupReturnsUnknown(w) == /\ pc[w] = "cleanup"
                            /\ Goto(w, "idle")
                            /\ temp' = [temp EXCEPT ![w] = Absent]
                            /\ last' = [last EXCEPT ![w] = IF err[w] THEN "unknown" ELSE "ok"]
                            /\ UNCHANGED <<target, backup, durable, new, moved, err>>
CleanupSwallows(w) == /\ pc[w] = "cleanup"
                      /\ Goto(w, "idle")
                      /\ temp' = [temp EXCEPT ![w] = Absent]
                      /\ last' = [last EXCEPT ![w] = "ok"]
                      /\ UNCHANGED <<target, backup, durable, new, moved, err>>

\* The deferred cleanupTempFile(tempPath), then the return.
Cleanup(w) == /\ pc[w] = "cleanup"
              /\ Goto(w, "idle")
              /\ temp' = [temp EXCEPT ![w] = Absent]
              /\ last' = [last EXCEPT ![w] = IF err[w] THEN "failed" ELSE "ok"]
              /\ UNCHANGED <<target, backup, durable, new, moved, err>>

-----------------------------------------------------------------------------
\* The process running w is killed: an orphan temporary file keeps a name no reader looks for.
Die(w) == /\ pc[w] # "idle"
          /\ Goto(w, "idle")
          /\ temp' = [temp EXCEPT ![w] = Absent]
          /\ UNCHANGED <<target, backup, durable, new, moved, err, last>>

\* The directory reaches the disk.
Flush == /\ durable' = [target |-> target, backup |-> backup]
         /\ UNCHANGED <<target, backup, temp, pc, new, moved, err, last>>

\* What a power loss leaves of a file: data never synced may be gone.
Survivor(f) == IF f = Absent \/ f.synced THEN f ELSE Stored(Torn)

PowerLoss == /\ target' = Survivor(durable.target)
             /\ backup' = Survivor(durable.backup)
             /\ durable' = [target |-> target', backup |-> backup']
             /\ temp' = [w \in Writers |-> Absent]
             /\ pc' = [w \in Writers |-> "idle"]
             /\ UNCHANGED <<new, moved, err, last>>

Step(w) == \/ Prepare(w) \/ Fill(w) \/ Sync(w)
           \/ DropStale(w) \/ Inspect(w) \/ MoveAside(w)
           \/ Install(w) \/ Restore(w) \/ DropMoved(w)
           \/ Chmod(w) \/ Cleanup(w)

Next == \/ \E w \in Writers : \/ \E c \in Contents : Begin(w, c)
                              \/ Step(w)
                              \/ Die(w)
        \/ Flush
        \/ PowerLoss

Spec == Init /\ [][Next]_vars

-----------------------------------------------------------------------------
(* Whatever call fails, dies or loses power, no reader ever finds bytes that
   no caller asked to store: the temporary file is synced before it is renamed. *)
Whole(f) == f # Absent => f.data \in Contents
NeverTorn == Whole(target) /\ Whole(backup) /\ Whole(durable.target) /\ Whole(durable.backup)

(* The comment of ReplaceFileAtomically: the previous readable file is preserved
   until the replacement is in place.  Once a file has reached the disk under the
   path, every later reader finds a file there. *)
PreviousFilePreserved == durable.target # Absent => target # Absent

(* The same promise where it matters most, when no call is running: what a restarted
   process finds.  An interrupted Windows replacement breaks it. *)
PreviousFileFound == (\A w \in Writers : pc[w] = "idle") => PreviousFilePreserved

(* The Windows replacement has two instants without a file under the path; between
   them, and until the call that moved the file aside returns, the old file is kept
   under the backup name or the new one is in place. *)
CopyHeld == \A w \in Writers : pc[w] # "idle" /\ moved[w] => target # Absent \/ backup # Absent

(* On POSIX the steps implement AtomicReplace: a call takes effect at one instant,
   success means it did, and a power loss brings back a value the path once held. *)
Content(f) == IF f = Absent THEN Absent ELSE f.data
Call(w) == IF pc[w] = "idle" THEN "idle"
           ELSE IF pc[w] \in {"dropMoved", "chmod", "cleanup"} /\ temp[w] = Absent
                THEN "installed" ELSE "pending"

Abstract == INSTANCE AtomicReplace WITH
              value <- Content(target), stable <- Content(durable.target),
              call <- [w \in Writers |-> Call(w)], new <- new, last <- last

ImplementsAtomicReplace == Abstract!Spec
=============================================================================
