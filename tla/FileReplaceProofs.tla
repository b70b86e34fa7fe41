-------------------------- MODULE FileReplaceProofs --------------------------
(***************************************************************************)
(* Theorems of FileReplace for any number of concurrent calls and any      *)
(* contents.  The inductive invariant says what a temporary file holds at  *)
(* each step of its call, so that the rename can only make synced,         *)
(* complete bytes visible; on POSIX it adds that no step of the Windows    *)
(* replacement is ever reached.                                            *)
(***************************************************************************)
EXTENDS FileReplace, TLAPS

SoundEntries == [data : Contents, synced : {TRUE}] \cup {Absent}

\* Steps that own a complete temporary file, and steps whose file is installed.
Ready == {"dropStale", "inspect", "moveAside", "install", "restore"}
Done == {"dropMoved", "chmod"}

TempInv(w) == /\ pc[w] = "fill" => temp[w] = Written(Torn)
              /\ pc[w] = "sync" => temp[w] = Written(new[w])
              /\ pc[w] \in Ready => temp[w] = Stored(new[w])
              /\ pc[w] \in Done => temp[w] = Absent
              /\ pc[w] = "cleanup" /\ ~err[w] => temp[w] = Absent

DiskInv == /\ target \in SoundEntries
           /\ backup \in SoundEntries
           /\ durable.target \in SoundEntries
           /\ durable.backup \in SoundEntries

IInv == TypeOK /\ DiskInv /\ \A w \in Writers : TempInv(w)

PosixSteps == {"idle", "prepare", "fill", "sync", "install", "chmod", "cleanup"}

PosixInv == /\ PreviousFilePreserved
            /\ \A w \in Writers : pc[w] \in PosixSteps /\ moved[w] = FALSE

-----------------------------------------------------------------------------
(* The entries the steps write, as facts about Entries and SoundEntries. *)
LEMMA EntryFacts ==
  /\ Absent \in SoundEntries
  /\ SoundEntries \subseteq Entries
  /\ \A f \in SoundEntries : Survivor(f) = f
  /\ \A c \in Contents : /\ Stored(c) \in SoundEntries
                         /\ Stored(c) # Absent
                         /\ Written(c) \in Entries
                         /\ Written(c) # Absent
                         /\ Written(c).data = c
                         /\ Content(Stored(c)) = c
  /\ Written(Torn) \in Entries
  /\ Written(Torn) # Absent
<1>1. Absent \in SoundEntries /\ SoundEntries \subseteq Entries
  BY DEF SoundEntries, Entries, Files
<1>2. \A f \in SoundEntries : Survivor(f) = f
  BY DEF SoundEntries, Survivor
<1>3. ASSUME NEW c \in Contents
      PROVE  /\ Stored(c) \in SoundEntries
             /\ Stored(c) # Absent
             /\ Written(c) \in Entries
             /\ Written(c) # Absent
             /\ Written(c).data = c
             /\ Content(Stored(c)) = c
  <2>1. Stored(c) \in Files /\ Written(c) \in Files
    BY DEF Stored, Written, Files
  <2>2. Stored(c) # Absent /\ Written(c) # Absent
    BY <2>1, ReplaceAssumption DEF Files
  <2>3. Stored(c) \in SoundEntries
    BY DEF Stored, SoundEntries
  <2>4. Written(c).data = c
    BY DEF Written
  <2>5. Content(Stored(c)) = c
    BY <2>2 DEF Content, Stored
  <2>6. QED
    BY <2>1, <2>2, <2>3, <2>4, <2>5 DEF Entries
<1>4. Written(Torn) \in Entries /\ Written(Torn) # Absent
  <2>1. Written(Torn) \in Files
    BY DEF Written, Files
  <2>2. QED
    BY <2>1, ReplaceAssumption DEF Entries, Files
<1>5. QED
  BY <1>1, <1>2, <1>3, <1>4

(* Every initial state satisfies the inductive invariant. *)
LEMMA InitInv == Init => IInv
<1> SUFFICES ASSUME Init PROVE IInv
    OBVIOUS
<1>1. target \in SoundEntries /\ backup \in SoundEntries
  BY EntryFacts DEF Init
<1>2. target \in Entries /\ backup \in Entries /\ Absent \in Entries
  BY <1>1, EntryFacts
<1>3. TypeOK
  BY <1>2 DEF Init, TypeOK, Steps
<1>4. DiskInv
  BY <1>1 DEF Init, DiskInv
<1>5. ASSUME NEW w \in Writers PROVE TempInv(w)
  BY DEF Init, TempInv, Ready, Done
<1>6. QED
  BY <1>3, <1>4, <1>5 DEF IInv

(* Every step of a call, a kill, a flush and a power loss preserve it. *)
LEMMA StepInv == IInv /\ [Next]_vars => IInv'
<1> SUFFICES ASSUME IInv, [Next]_vars PROVE IInv'
    OBVIOUS
<1> USE EntryFacts DEF IInv, TypeOK, DiskInv, TempInv, Steps, Ready, Done, Goto
<1>1. ASSUME NEW w \in Writers, NEW c \in Contents, Begin(w, c) PROVE IInv'
  BY <1>1 DEF Begin
<1>2. ASSUME NEW w \in Writers, Prepare(w) PROVE IInv'
  <2>1. new[w] \in Contents
    OBVIOUS
  <2>2. TypeOK'
    BY <1>2, <2>1 DEF Prepare
  <2>3. DiskInv'
    BY <1>2, <2>1 DEF Prepare
  <2>4. ASSUME NEW v \in Writers PROVE TempInv(v)'
    BY <1>2, <2>1 DEF Prepare
  <2>5. QED
    BY <2>2, <2>3, <2>4
<1>3. ASSUME NEW w \in Writers, Fill(w) PROVE IInv'
  <2>1. new[w] \in Contents
    OBVIOUS
  <2>2. TypeOK'
    <3>1. temp' \in [Writers -> Entries]
      BY <1>3, <2>1 DEF Fill
    <3>2. pc' \in [Writers -> Steps]
      BY <1>3 DEF Fill, Abandon
    <3>3. err' \in [Writers -> BOOLEAN]
      BY <1>3 DEF Fill, Abandon
    <3>5. QED
      BY <1>3, <3>1, <3>2, <3>3 DEF Fill
  <2>3. DiskInv'
    BY <1>3, <2>1 DEF Fill, Abandon
  <2>4. ASSUME NEW v \in Writers PROVE TempInv(v)'
    BY <1>3, <2>1 DEF Fill, Abandon
  <2>5. QED
    BY <2>2, <2>3, <2>4
<1>4. ASSUME NEW w \in Writers, Sync(w) PROVE IInv'
  <2>1. new[w] \in Contents
    OBVIOUS
  <2>2. TypeOK'
    <3>1. temp' \in [Writers -> Entries]
      BY <1>4, <2>1 DEF Sync
    <3>2. pc' \in [Writers -> Steps]
      BY <1>4 DEF Sync, Abandon
    <3>3. err' \in [Writers -> BOOLEAN]
      BY <1>4 DEF Sync, Abandon
    <3>5. QED
      BY <1>4, <3>1, <3>2, <3>3 DEF Sync
  <2>3. DiskInv'
    BY <1>4, <2>1 DEF Sync, Abandon
  <2>4. ASSUME NEW v \in Writers PROVE TempInv(v)'
    BY <1>4, <2>1 DEF Sync, Abandon
  <2>5. QED
    BY <2>2, <2>3, <2>4
<1>5. ASSUME NEW w \in Writers, DropStale(w) PROVE IInv'
  BY <1>5 DEF DropStale
<1>6. ASSUME NEW w \in Writers, Inspect(w) PROVE IInv'
  <2>1. TypeOK'
    <3>1. moved' \in [Writers -> BOOLEAN]
      BY <1>6 DEF Inspect
    <3>2. pc' \in [Writers -> Steps]
      BY <1>6 DEF Inspect, Abandon
    <3>3. err' \in [Writers -> BOOLEAN]
      BY <1>6 DEF Inspect, Abandon
    <3>4. QED
      BY <1>6, <3>1, <3>2, <3>3 DEF Inspect
  <2>2. DiskInv'
    BY <1>6 DEF Inspect
  <2>3. ASSUME NEW v \in Writers PROVE TempInv(v)'
    BY <1>6 DEF Inspect, Abandon
  <2>4. QED
    BY <2>1, <2>2, <2>3
<1>7. ASSUME NEW w \in Writers, MoveAside(w) PROVE IInv'
  <2>1. TypeOK'
    <3>1. pc' \in [Writers -> Steps]
      BY <1>7 DEF MoveAside, Abandon
    <3>2. err' \in [Writers -> BOOLEAN]
      BY <1>7 DEF MoveAside, Abandon
    <3>3. target' \in Entries /\ backup' \in Entries
      BY <1>7 DEF MoveAside
    <3>4. QED
      BY <1>7, <3>1, <3>2, <3>3 DEF MoveAside
  <2>2. DiskInv'
    BY <1>7 DEF MoveAside
  <2>3. ASSUME NEW v \in Writers PROVE TempInv(v)'
    BY <1>7 DEF MoveAside, Abandon
  <2>4. QED
    BY <2>1, <2>2, <2>3
<1>8. ASSUME NEW w \in Writers, Install(w) PROVE IInv'
  <2>1. new[w] \in Contents
    OBVIOUS
  <2>2. TypeOK'
    <3>1. temp' \in [Writers -> Entries]
      BY <1>8, <2>1 DEF Install
    <3>2. pc' \in [Writers -> Steps]
      BY <1>8 DEF Install, Abandon
    <3>3. err' \in [Writers -> BOOLEAN]
      BY <1>8 DEF Install, Abandon
    <3>4. target' \in Entries
      BY <1>8 DEF Install
    <3>5. QED
      BY <1>8, <3>1, <3>2, <3>3, <3>4 DEF Install
  <2>3. DiskInv'
    BY <1>8, <2>1 DEF Install, Abandon
  <2>4. ASSUME NEW v \in Writers PROVE TempInv(v)'
    BY <1>8, <2>1 DEF Install, Abandon
  <2>5. QED
    BY <2>2, <2>3, <2>4
<1>9. ASSUME NEW w \in Writers, Restore(w) PROVE IInv'
  BY <1>9 DEF Restore, Abandon
<1>10. ASSUME NEW w \in Writers, DropMoved(w) PROVE IInv'
  BY <1>10 DEF DropMoved
<1>11. ASSUME NEW w \in Writers, Chmod(w) PROVE IInv'
  BY <1>11 DEF Chmod
<1>12. ASSUME NEW w \in Writers, Cleanup(w) PROVE IInv'
  BY <1>12 DEF Cleanup
<1>13. ASSUME NEW w \in Writers, Die(w) PROVE IInv'
  BY <1>13 DEF Die
<1>14. CASE Flush
  BY <1>14 DEF Flush
<1>15. CASE PowerLoss
  BY <1>15 DEF PowerLoss
<1>16. CASE UNCHANGED vars
  BY <1>16 DEF vars
<1>17. QED
  BY <1>1, <1>2, <1>3, <1>4, <1>5, <1>6, <1>7, <1>8, <1>9, <1>10, <1>11, <1>12, <1>13,
     <1>14, <1>15, <1>16 DEF Next, Step

(* The inductive invariant holds in every reachable state. *)
THEOREM Invariance == Spec => []IInv
BY InitInv, StepInv, PTL DEF Spec

(* Type correctness of ReplaceFileAtomically's state. *)
THEOREM TypeCorrect == Spec => []TypeOK
<1>1. IInv => TypeOK
  BY DEF IInv
<1>2. QED
  BY <1>1, Invariance, PTL

(* No failure, kill or power loss ever leaves a torn file under a name readers use. *)
THEOREM NoTornFile == Spec => []NeverTorn
<1>1. IInv => NeverTorn
  BY DEF IInv, DiskInv, SoundEntries, NeverTorn, Whole
<1>2. QED
  BY <1>1, Invariance, PTL

-----------------------------------------------------------------------------
(* POSIX.  No step of the Windows replacement is reachable, so the only step that
   changes the name readers use is the rename, which never leaves it empty. *)
LEMMA PosixInit == Init => PosixInv
BY DEF Init, PosixInv, PosixSteps, PreviousFilePreserved

LEMMA PosixStep == ~Windows /\ IInv /\ PosixInv /\ [Next]_vars => PosixInv'
<1> SUFFICES ASSUME ~Windows, IInv, PosixInv, [Next]_vars PROVE PosixInv'
    OBVIOUS
<1> USE DEF PosixInv, PosixSteps, PreviousFilePreserved, Goto
<1>1. ASSUME NEW w \in Writers, NEW c \in Contents, Begin(w, c) PROVE PosixInv'
  BY <1>1 DEF Begin, IInv, TypeOK
<1>2. ASSUME NEW w \in Writers, Prepare(w) \/ Fill(w) \/ Sync(w) PROVE PosixInv'
  BY <1>2 DEF Prepare, Fill, Sync, Abandon, IInv, TypeOK
<1>3. ASSUME NEW w \in Writers, Install(w) PROVE PosixInv'
  <2>1. temp[w] # Absent
    BY <1>3, EntryFacts DEF Install, IInv, TempInv, Ready, TypeOK
  <2>2. QED
    BY <1>3, <2>1 DEF Install, Abandon, IInv, TypeOK
<1>4. ASSUME NEW w \in Writers, Chmod(w) \/ Cleanup(w) \/ Die(w) PROVE PosixInv'
  BY <1>4 DEF Chmod, Cleanup, Die, IInv, TypeOK
<1>5. ASSUME NEW w \in Writers,
             DropStale(w) \/ Inspect(w) \/ MoveAside(w) \/ Restore(w) \/ DropMoved(w)
      PROVE  FALSE
  BY <1>5 DEF DropStale, Inspect, MoveAside, Restore, DropMoved
<1>6. CASE Flush
  BY <1>6 DEF Flush
<1>7. CASE PowerLoss
  BY <1>7 DEF PowerLoss
<1>8. CASE UNCHANGED vars
  BY <1>8 DEF vars
<1>9. QED
  BY <1>1, <1>2, <1>3, <1>4, <1>5, <1>6, <1>7, <1>8 DEF Next, Step

(* On POSIX a file that reached the disk under the path stays readable there. *)
THEOREM PosixPreserves == ~Windows => (Spec => []PreviousFilePreserved)
<1> SUFFICES ASSUME ~Windows PROVE Spec => []PreviousFilePreserved
    OBVIOUS
<1>1. Init => PosixInv
  BY PosixInit
<1>2. IInv /\ PosixInv /\ [Next]_vars => PosixInv'
  BY PosixStep
<1>3. PosixInv => PreviousFilePreserved
  BY DEF PosixInv
<1>4. QED
  BY <1>1, <1>2, <1>3, Invariance, PTL DEF Spec

-----------------------------------------------------------------------------
(* POSIX, the refinement: initial states map to initial states, and every step of
   ReplaceFileAtomically maps to one step of AtomicReplace or to none. *)
LEMMA RefineInit == Init => Abstract!Init
<1> SUFFICES ASSUME Init PROVE Abstract!Init
    OBVIOUS
<1>1. Content(target) \in Contents \cup {Absent}
  BY EntryFacts DEF Init, Content, Stored
<1>2. \A w \in Writers : Call(w) = "idle"
  BY DEF Init, Call
<1>3. QED
  BY <1>1, <1>2 DEF Init, Abstract!Init

LEMMA RefineStep == ~Windows /\ IInv /\ PosixInv /\ [Next]_vars
                      => [Abstract!Next]_(Abstract!vars)
<1> SUFFICES ASSUME ~Windows, IInv, PosixInv, [Next]_vars
             PROVE  Abstract!Next \/ UNCHANGED Abstract!vars
    OBVIOUS
<1>0. /\ pc \in [Writers -> Steps] /\ temp \in [Writers -> Entries]
      /\ err \in [Writers -> BOOLEAN] /\ new \in [Writers -> Contents]
      /\ last \in [Writers -> {"none", "ok", "failed"}]
      /\ \A w \in Writers : moved[w] = FALSE /\ TempInv(w)
  BY DEF IInv, TypeOK, PosixInv
<1>1. ASSUME NEW w \in Writers, NEW c \in Contents, Begin(w, c) PROVE Abstract!Begin(w, c)
  BY <1>0, <1>1 DEF Begin, Abstract!Begin, Call, Goto
<1>2. ASSUME NEW w \in Writers, Prepare(w) PROVE Abstract!Fail(w) \/ UNCHANGED Abstract!vars
  BY <1>0, <1>2 DEF Prepare, Abstract!Fail, Abstract!vars, Call, Goto
<1>3. ASSUME NEW w \in Writers, Fill(w) \/ Sync(w) PROVE UNCHANGED Abstract!vars
  <2>1. temp'[w] # Absent
    BY <1>0, <1>3, EntryFacts DEF Fill, Sync, TempInv
  <2>2. QED
    BY <1>0, <1>3, <2>1 DEF Fill, Sync, Abandon, Abstract!vars, Call, Goto
<1>4. ASSUME NEW w \in Writers, Install(w) PROVE Abstract!Install(w) \/ UNCHANGED Abstract!vars
  <2>1. temp[w] = Stored(new[w]) /\ temp[w] # Absent /\ Content(temp[w]) = new[w]
    BY <1>0, <1>4, EntryFacts DEF Install, TempInv, Ready
  <2>2. CASE target' = temp[w] /\ temp' = [temp EXCEPT ![w] = Absent] /\ pc' = [pc EXCEPT ![w] = "chmod"]
    BY <1>0, <1>4, <2>1, <2>2 DEF Install, Abstract!Install, Call
  <2>3. CASE pc' = [pc EXCEPT ![w] = "cleanup"] /\ UNCHANGED <<target, temp>>
    BY <1>0, <1>4, <2>1, <2>3 DEF Install, Abstract!vars, Call
  <2>4. QED
    BY <1>0, <1>4, <2>2, <2>3 DEF Install, Abandon, Goto
<1>5. ASSUME NEW w \in Writers, Chmod(w) PROVE UNCHANGED Abstract!vars
  BY <1>0, <1>5 DEF Chmod, TempInv, Done, Abstract!vars, Call, Goto
<1>6. ASSUME NEW w \in Writers, Cleanup(w) PROVE Abstract!Succeed(w) \/ Abstract!Fail(w)
  BY <1>0, <1>6 DEF Cleanup, TempInv, Abstract!Succeed, Abstract!Fail, Call, Goto
<1>7. ASSUME NEW w \in Writers, Die(w) PROVE Abstract!Die(w)
  BY <1>0, <1>7 DEF Die, Abstract!Die, Call, Goto
<1>8. ASSUME NEW w \in Writers,
             DropStale(w) \/ Inspect(w) \/ MoveAside(w) \/ Restore(w) \/ DropMoved(w)
      PROVE  FALSE
  BY <1>8 DEF DropStale, Inspect, MoveAside, Restore, DropMoved, PosixInv, PosixSteps
<1>9. CASE Flush
  BY <1>9 DEF Flush, Abstract!Flush, Abstract!Next, Call
<1>10. CASE PowerLoss
  <2>1. target' = durable.target /\ durable'.target = durable.target
    BY <1>10, EntryFacts DEF PowerLoss, IInv, DiskInv
  <2>2. \A w \in Writers : Call(w)' = "idle"
    BY <1>10 DEF PowerLoss, Call
  <2>3. Abstract!PowerLoss
    BY <1>10, <2>1, <2>2 DEF PowerLoss, Abstract!PowerLoss
  <2>4. QED
    BY <2>3 DEF Abstract!Next
<1>11. CASE UNCHANGED vars
  BY <1>11 DEF vars, Abstract!vars, Call
<1>12. QED
  BY <1>1, <1>2, <1>3, <1>4, <1>5, <1>6, <1>7, <1>8, <1>9, <1>10, <1>11
     DEF Next, Step, Abstract!Next

(* On POSIX, ReplaceFileAtomically is an atomic replacement of one path. *)
THEOREM PosixImplements == ~Windows => (Spec => ImplementsAtomicReplace)
<1> SUFFICES ASSUME ~Windows PROVE Spec => Abstract!Spec
    BY DEF ImplementsAtomicReplace
<1>1. IInv /\ PosixInv /\ [Next]_vars => [Abstract!Next]_(Abstract!vars)
  BY RefineStep
<1>2. IInv /\ PosixInv /\ [Next]_vars => PosixInv'
  BY PosixStep
<1>3. QED
  BY <1>1, <1>2, RefineInit, PosixInit, Invariance, PTL DEF Spec, Abstract!Spec

-----------------------------------------------------------------------------
(* Windows, one call at a time.  With a second call for the same path the file moved
   aside can be dropped as a stale backup, so the claim is about a lone writer. *)
LoneWriter == \A v, w \in Writers : v = w

\* Where the previous file is at each step, once Inspect has seen it.
AsideInv(w) == /\ pc[w] \in {"prepare", "fill", "sync", "dropStale", "inspect"} => ~moved[w]
               /\ pc[w] \in {"moveAside", "restore"} => moved[w]
               /\ pc[w] \in {"moveAside", "dropMoved", "chmod"} /\ moved[w] => target # Absent
               /\ pc[w] \in {"install", "restore"} /\ moved[w] => backup # Absent
               /\ pc[w] = "cleanup" /\ moved[w] => target # Absent \/ backup # Absent
HeldInv == \A w \in Writers : AsideInv(w)

LEMMA HeldInit == Init => HeldInv
BY DEF Init, HeldInv, AsideInv

LEMMA HeldStep == ASSUME LoneWriter, IInv, HeldInv, [Next]_vars PROVE HeldInv'
<1> USE DEF HeldInv, AsideInv, Goto
<1>0. /\ pc \in [Writers -> Steps] /\ moved \in [Writers -> BOOLEAN]
      /\ \A w \in Writers : TempInv(w)
  BY DEF IInv, TypeOK
<1>1. ASSUME NEW w \in Writers, AsideInv(w)' PROVE HeldInv'
  BY <1>1 DEF LoneWriter
<1>2. ASSUME NEW w \in Writers, NEW c \in Contents, Begin(w, c) PROVE HeldInv'
  BY <1>0, <1>1, <1>2 DEF Begin
<1>3. ASSUME NEW w \in Writers, Prepare(w) \/ Fill(w) PROVE HeldInv'
  BY <1>0, <1>1, <1>3 DEF Prepare, Fill, Abandon
<1>4. ASSUME NEW w \in Writers, Sync(w) PROVE HeldInv'
  BY <1>0, <1>1, <1>4 DEF Sync, Abandon
<1>5. ASSUME NEW w \in Writers, DropStale(w) PROVE HeldInv'
  BY <1>0, <1>1, <1>5 DEF DropStale
<1>6. ASSUME NEW w \in Writers, Inspect(w) PROVE HeldInv'
  BY <1>0, <1>1, <1>6 DEF Inspect, Abandon
<1>7. ASSUME NEW w \in Writers, MoveAside(w) PROVE HeldInv'
  BY <1>0, <1>1, <1>7 DEF MoveAside, Abandon
<1>8. ASSUME NEW w \in Writers, Install(w) PROVE HeldInv'
  <2>1. temp[w] # Absent
    BY <1>0, <1>8, EntryFacts DEF Install, TempInv, Ready, IInv, TypeOK
  <2>2. QED
    BY <1>0, <1>1, <1>8, <2>1 DEF Install, Abandon
<1>9. ASSUME NEW w \in Writers, Restore(w) PROVE HeldInv'
  BY <1>0, <1>1, <1>9 DEF Restore, Abandon
<1>10. ASSUME NEW w \in Writers, DropMoved(w) \/ Chmod(w) \/ Cleanup(w) \/ Die(w) PROVE HeldInv'
  BY <1>0, <1>1, <1>10 DEF DropMoved, Chmod, Cleanup, Die
<1>11. CASE Flush \/ UNCHANGED vars
  BY <1>11 DEF Flush, vars
<1>12. CASE PowerLoss
  BY <1>12 DEF PowerLoss
<1>13. QED
  BY <1>2, <1>3, <1>4, <1>5, <1>6, <1>7, <1>8, <1>9, <1>10, <1>11, <1>12 DEF Next, Step

(* From the moment a lone Windows call moves the previous file aside until it returns,
   that file is kept under one of the two names, or the new one is in place, whichever
   of its steps fail. *)
THEOREM CopyAlwaysHeld == ASSUME LoneWriter PROVE Spec => []CopyHeld
<1>1. HeldInv /\ IInv => CopyHeld
  BY DEF HeldInv, AsideInv, IInv, TypeOK, Steps, CopyHeld
<1>2. IInv /\ HeldInv /\ [Next]_vars => HeldInv'
  BY HeldStep
<1>3. QED
  BY <1>1, <1>2, HeldInit, Invariance, PTL DEF Spec
=============================================================================
