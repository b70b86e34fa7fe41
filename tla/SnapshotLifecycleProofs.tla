----------------------- MODULE SnapshotLifecycleProofs -----------------------
(***************************************************************************)
(* Theorems of SnapshotLifecycle for any number of processes, files,       *)
(* servers and tokens, with or without failing reads.  A process decides   *)
(* which file it will replace long before it does; the inductive invariant *)
(* says that whatever other processes did in between, that file still      *)
(* belongs to the server, token and local user it was unlocked for.        *)
(***************************************************************************)
EXTENDS SnapshotLifecycle, TLAPS

\* What a running call relies on about the files it has seen.
CandInv(a) == call[a] # None => \A i \in call[a].cands : files[i] \in Snapshots
FoundInv(a) == call[a] # None /\ call[a].found # None =>
                 /\ Readable(files[call[a].found.id])
                 /\ files[call[a].found.id].owner = call[a].owner
                 /\ files[call[a].found.id].user = call[a].found.user
ServerInv(a) == call[a] # None => \A i \in call[a].cands :
                                    files[i].owner.server = call[a].owner.server
ActiveInv(a) == active[a] # None =>
                  /\ Readable(files[active[a].id])
                  /\ files[active[a].id].owner = active[a].owner
                  /\ files[active[a].id].user = active[a].user

IInv == /\ TypeOK
        /\ \A a \in Apps : CandInv(a) /\ FoundInv(a) /\ ServerInv(a) /\ ActiveInv(a)

FilesKept == \A i \in Ids : files[i] # None => Keeps(files[i], files'[i])

-----------------------------------------------------------------------------
(* None and Damaged differ from every record the variables hold. *)
LEMMA Distinct == /\ None \notin Snapshots /\ Damaged \notin Snapshots
                  /\ None # Damaged
                  /\ \A f : Readable(f) => f \in Snapshots /\ f # None
BY LifecycleAssumption DEF Readable

(* The initial states. *)
LEMMA InitInv == Init => IInv
<1> SUFFICES ASSUME Init PROVE IInv
    OBVIOUS
<1>1. TypeOK
  <2>1. files \in [Ids -> Files]
    BY LifecycleAssumption DEF Init, Files
  <2>2. clock \in Stamps
    BY LifecycleAssumption DEF Init, Stamps
  <2>3. QED
    BY <2>1, <2>2 DEF Init, TypeOK
<1>2. ASSUME NEW a \in Apps PROVE CandInv(a) /\ FoundInv(a) /\ ServerInv(a) /\ ActiveInv(a)
  BY DEF Init, CandInv, FoundInv, ServerInv, ActiveInv
<1>3. QED
  BY <1>1, <1>2 DEF IInv

(* A payload is a readable snapshot of the owner the call works for. *)
LEMMA PayloadFacts ==
  ASSUME NEW c \in Calls
  PROVE  /\ Payload(c) \in Snapshots
         /\ Readable(Payload(c))
         /\ Payload(c).owner = c.owner
         /\ c.found # None => Payload(c).user = c.found.user
<1>1. c.found # None => c.found.user \in Stamps
  BY DEF Calls, Found
<1>2. (IF c.found # None THEN c.found.user ELSE c.synced) \in Stamps
  BY <1>1 DEF Calls
<1>3. c.owner \in Owners /\ c.synced \in Stamps
  BY DEF Calls
<1>4. Payload(c) \in Snapshots
  BY <1>2, <1>3 DEF Payload, Sealed, Snapshots
<1>5. QED
  BY <1>4 DEF Payload, Sealed, Readable

(* A write replaces nothing but a readable file of the same owner and user. *)
LEMMA PersistKeeps == ASSUME IInv, NEW a \in Apps, Persist(a) PROVE FilesKept
<1>1. call[a] \in Calls
  BY DEF IInv, TypeOK, Persist, At
<1>2. CASE UNCHANGED files
  BY <1>2 DEF FilesKept, Keeps
<1>3. ASSUME NEW i \in Target(call[a]), files' = [files EXCEPT ![i] = Payload(call[a])]
      PROVE  FilesKept
  <2>1. CASE call[a].found # None
    <3>1. i = call[a].found.id
      BY <2>1, <1>3 DEF Target
    <3>2. FoundInv(a) /\ call[a] # None
      BY DEF IInv, Persist, At
    <3>3. Keeps(files[i], Payload(call[a]))
      BY <2>1, <3>1, <3>2, <1>1, PayloadFacts DEF FoundInv, Keeps
    <3>4. QED
      BY <1>3, <3>3 DEF FilesKept, Keeps, IInv, TypeOK
  <2>2. CASE call[a].found = None
    <3>1. files[i] = None
      BY <2>2, <1>3 DEF Target
    <3>2. QED
      BY <1>3, <3>1 DEF FilesKept, Keeps, IInv, TypeOK
  <2>3. QED
    BY <2>1, <2>2
<1>4. QED
  BY <1>2, <1>3 DEF Persist

(* What a call or an active snapshot relies on survives any write that keeps files. *)
LEMMA KeepsReadable ==
  ASSUME NEW f, NEW g, f # None, Keeps(f, g)
  PROVE  /\ f \in Snapshots => g \in Snapshots /\ g.owner = f.owner
         /\ Readable(f) => Readable(g) /\ g.user = f.user
BY DEF Keeps, Readable

LEMMA OthersKept ==
  ASSUME IInv, FilesKept, NEW b \in Apps
  PROVE  /\ call'[b] = call[b] => CandInv(b)' /\ FoundInv(b)' /\ ServerInv(b)'
         /\ active'[b] = active[b] => ActiveInv(b)'
<1>1. ASSUME NEW i \in Ids, files[i] \in Snapshots
      PROVE  /\ files'[i] \in Snapshots
             /\ files'[i].owner = files[i].owner
             /\ Readable(files[i]) => Readable(files'[i]) /\ files'[i].user = files[i].user
  <2>1. files[i] # None /\ Keeps(files[i], files'[i])
    BY <1>1, Distinct DEF FilesKept
  <2>2. QED
    BY <1>1, <2>1, KeepsReadable
<1>2. ASSUME call'[b] = call[b] PROVE CandInv(b)' /\ FoundInv(b)' /\ ServerInv(b)'
  <2>1. call[b] # None => call[b] \in Calls
    BY DEF IInv, TypeOK
  <2>2. CandInv(b) /\ FoundInv(b) /\ ServerInv(b)
    BY DEF IInv
  <2>3. call[b] # None => call[b].cands \subseteq Ids /\ (call[b].found # None => call[b].found.id \in Ids)
    BY <2>1 DEF Calls, Found
  <2>4. CandInv(b)' /\ ServerInv(b)'
    BY <1>1, <1>2, <2>2, <2>3 DEF CandInv, ServerInv
  <2>5. FoundInv(b)'
    BY <1>1, <1>2, <2>2, <2>3, Distinct DEF FoundInv
  <2>6. QED
    BY <2>4, <2>5
<1>3. ASSUME active'[b] = active[b] PROVE ActiveInv(b)'
  <2>1. active[b] # None => active[b].id \in Ids
    BY DEF IInv, TypeOK, Active
  <2>2. ActiveInv(b)
    BY DEF IInv
  <2>3. QED
    BY <1>1, <1>3, <2>1, <2>2, Distinct DEF ActiveInv
<1>4. QED
  BY <1>2, <1>3

(* The acting process: what a step must establish for its own call. *)
Own(a) == CandInv(a)' /\ FoundInv(a)' /\ ServerInv(a)' /\ ActiveInv(a)'

LEMMA Frame ==
  ASSUME IInv, FilesKept, TypeOK', NEW a \in Apps, Own(a),
         \A b \in Apps \ {a} : call'[b] = call[b] /\ active'[b] = active[b]
  PROVE  IInv'
<1>1. ASSUME NEW b \in Apps
      PROVE  CandInv(b)' /\ FoundInv(b)' /\ ServerInv(b)' /\ ActiveInv(b)'
  <2>1. CASE b = a
    BY <2>1 DEF Own
  <2>2. CASE b # a
    BY <2>2, OthersKept
  <2>3. QED
    BY <2>1, <2>2
<1>2. QED
  BY <1>1 DEF IInv

LEMMA SameFilesKept == UNCHANGED files => FilesKept
BY DEF FilesKept, Keeps

LEMMA StartStep ==
  ASSUME IInv, NEW a \in Apps, NEW u \in {"unlock", "sync"}, NEW o \in Owners, Start(a, u, o)
  PROVE  IInv' /\ FilesKept
<1>1. FilesKept
  BY SameFilesKept DEF Start
<1>2. [step |-> "list", use |-> u, owner |-> o, cands |-> {}, found |-> None, synced |-> 0]
        \in Calls
  BY LifecycleAssumption DEF Calls, Stamps
<1>3. TypeOK'
  BY <1>2 DEF Start, Become, IInv, TypeOK
<1>4. Own(a)
  BY <1>1, OthersKept DEF Start, Become, IInv, TypeOK, Own, CandInv, FoundInv, ServerInv
<1>5. QED
  BY <1>1, <1>3, <1>4, Frame DEF Start, Become, IInv, TypeOK

LEMMA ListStep == ASSUME IInv, NEW a \in Apps, List(a) PROVE IInv' /\ FilesKept
<1> DEFINE s == call[a].owner.server
           c == [call[a] EXCEPT !.step = "read", !.cands = OfServer(s)]
<1>1. FilesKept
  BY SameFilesKept DEF List
<1>2. call[a] \in Calls /\ call[a] # None
  BY DEF List, At, IInv, TypeOK
<1>3. OfServer(s) \in SUBSET Ids
  BY DEF OfServer
<1>4. c \in Calls /\ c.cands = OfServer(s) /\ c.found = call[a].found /\ c.owner = call[a].owner
  BY <1>2, <1>3 DEF Calls
<1>5. call' \in [Apps -> Calls \cup {None}]
  BY <1>4 DEF List, Become, Return, IInv, TypeOK
<1>6. TypeOK'
  BY <1>5 DEF List, IInv, TypeOK
<1>7. ActiveInv(a)'
  BY <1>1, OthersKept DEF List
<1>8. CandInv(a)' /\ FoundInv(a)' /\ ServerInv(a)'
  <2>1. CASE Return(a)
    BY <2>1 DEF Return, Become, IInv, TypeOK, CandInv, FoundInv, ServerInv
  <2>2. CASE Become(a, c)
    <3>1. call'[a] = c
      BY <2>2 DEF Become, IInv, TypeOK
    <3>2. FoundInv(a)
      BY DEF IInv
    <3>3. UNCHANGED files
      BY DEF List
    <3>4. QED
      BY <1>2, <1>4, <3>1, <3>2, <3>3 DEF OfServer, CandInv, FoundInv, ServerInv
  <2>3. QED
    BY <2>1, <2>2 DEF List
<1>9. QED
  BY <1>1, <1>6, <1>7, <1>8, Frame DEF Own, List, Become, Return, IInv, TypeOK

LEMMA UnlockStep ==
  ASSUME IInv, NEW a \in Apps, At(a, "read"), NEW i \in call[a].cands, Unlock(a, i),
         UNCHANGED <<files, clock>>
  PROVE  IInv' /\ FilesKept
<1> DEFINE f == files[i]
           c == [call[a] EXCEPT !.step = "fetch", !.cands = {},
                                !.found = [id |-> i, user |-> f.user]]
<1>1. FilesKept
  BY SameFilesKept
<1>2. call[a] \in Calls /\ call[a] # None /\ i \in Ids
  BY DEF At, IInv, TypeOK, Calls
<1>3. Readable(f) /\ f \in Snapshots /\ f.user \in Stamps /\ f.stamp \in Stamps /\ f.owner \in Owners
  BY Distinct DEF Unlock, Opens, Decrypts, Snapshots
<1>4. f.owner = call[a].owner
  <2>1. f.owner.server = call[a].owner.server /\ f.owner.token = call[a].owner.token
    BY <1>2 DEF IInv, ServerInv, Unlock, Opens, Decrypts
  <2>2. call[a].owner \in Owners
    BY <1>2 DEF Calls
  <2>3. QED
    BY <1>3, <2>1, <2>2 DEF Owners
<1>5. [id |-> i, user |-> f.user] \in Found
  BY <1>2, <1>3 DEF Found
<1>6. c \in Calls /\ c.cands = {} /\ c.found = [id |-> i, user |-> f.user] /\ c.owner = call[a].owner
  BY <1>2, <1>5 DEF Calls
<1>7. Loaded(i, f) \in Active
  BY <1>2, <1>3 DEF Loaded, Active
<1>8. TypeOK'
  <2>1. call' \in [Apps -> Calls \cup {None}]
    BY <1>6 DEF Unlock, Become, Return, IInv, TypeOK
  <2>2. active' \in [Apps -> Active \cup {None}]
    BY <1>7 DEF Unlock, IInv, TypeOK
  <2>3. QED
    BY <2>1, <2>2 DEF IInv, TypeOK
<1>9. Own(a)
  <2>1. CASE call[a].use = "sync"
    <3>1. call'[a] = c /\ UNCHANGED active
      BY <2>1 DEF Unlock, Become, IInv, TypeOK
    <3>2. ActiveInv(a)'
      BY <1>1, <3>1, OthersKept
    <3>3. CandInv(a)' /\ ServerInv(a)'
      BY <1>6, <3>1 DEF CandInv, ServerInv
    <3>4. FoundInv(a)'
      BY <1>3, <1>4, <1>6, <3>1 DEF FoundInv, Readable
    <3>5. QED
      BY <3>2, <3>3, <3>4 DEF Own
  <2>2. CASE call[a].use = "unlock"
    <3>1. call'[a] = None /\ active'[a] = Loaded(i, f)
      BY <2>2 DEF Unlock, Become, Return, IInv, TypeOK
    <3>2. ActiveInv(a)'
      BY <1>3, <3>1 DEF ActiveInv, Loaded, Readable
    <3>3. QED
      BY <3>1, <3>2 DEF Own, CandInv, FoundInv, ServerInv
  <2>3. QED
    BY <2>1, <2>2 DEF Unlock
<1>10. \A b \in Apps \ {a} : call'[b] = call[b] /\ active'[b] = active[b]
  BY DEF Unlock, Become, Return, IInv, TypeOK
<1>11. QED
  BY <1>1, <1>8, <1>9, <1>10, Frame

LEMMA ReadStep == ASSUME IInv, NEW a \in Apps, Read(a) PROVE IInv' /\ FilesKept
<1>1. FilesKept
  BY SameFilesKept DEF Read
<1>2. call[a] \in Calls /\ call[a] # None
  BY DEF Read, At, IInv, TypeOK
<1>3. ASSUME NEW i \in call[a].cands, Unlock(a, i) PROVE IInv'
  BY <1>3, UnlockStep DEF Read
<1>4. ASSUME NEW i \in call[a].cands, Refuse(a, i) PROVE IInv'
  <2>1. TypeOK'
    BY <1>4 DEF Read, Refuse, Become, Return, IInv, TypeOK
  <2>2. Own(a)
    BY <1>1, <1>4, OthersKept
    DEF Refuse, Become, Return, IInv, TypeOK, Own, CandInv, FoundInv, ServerInv
  <2>3. QED
    BY <1>1, <1>4, <2>1, <2>2, Frame DEF Refuse, Become, Return, IInv, TypeOK
<1>5. ASSUME NEW i \in call[a].cands, PassOver(a, i) PROVE IInv'
  <2> DEFINE c == [call[a] EXCEPT !.cands = @ \ {i}]
  <2>1. c \in Calls /\ c.cands = call[a].cands \ {i} /\ c.found = call[a].found
        /\ c.owner = call[a].owner
    BY <1>2 DEF Calls
  <2>2. call'[a] = c /\ UNCHANGED <<files, active>>
    BY <1>5 DEF Read, PassOver, Become, IInv, TypeOK
  <2>3. TypeOK'
    BY <1>5, <2>1 DEF Read, PassOver, Become, IInv, TypeOK
  <2>4. CandInv(a) /\ FoundInv(a) /\ ServerInv(a) /\ ActiveInv(a)
    BY DEF IInv
  <2>5. Own(a)
    BY <1>2, <2>1, <2>2, <2>4 DEF Own, CandInv, FoundInv, ServerInv, ActiveInv
  <2>6. QED
    BY <1>1, <1>5, <2>3, <2>5, Frame DEF PassOver, Become, IInv, TypeOK
<1>6. QED
  BY <1>1, <1>3, <1>4, <1>5 DEF Read

(* The steps that leave the files alone and only move a call along, or end it. *)
LEMMA MoveStep ==
  ASSUME IInv, NEW a \in Apps, NothingFound(a) \/ Fetch(a) \/ Quit(a)
  PROVE  IInv' /\ FilesKept
<1>1. FilesKept
  BY SameFilesKept DEF NothingFound, Fetch, Quit
<1>2. CASE Quit(a)
  <2>1. TypeOK'
    BY <1>2 DEF Quit, Become, Return, IInv, TypeOK
  <2>2. Own(a)
    BY <1>2 DEF Quit, Become, Return, IInv, TypeOK, Own, CandInv, FoundInv, ServerInv, ActiveInv
  <2>3. QED
    BY <1>1, <1>2, <2>1, <2>2, Frame DEF Quit, Become, Return, IInv, TypeOK
<1>3. CASE NothingFound(a) \/ Fetch(a)
  <2>1. call[a] \in Calls /\ call[a] # None /\ UNCHANGED active
    BY <1>3 DEF NothingFound, Fetch, At, IInv, TypeOK
  <2>2. clock' \in Stamps
    BY <1>3, LifecycleAssumption DEF NothingFound, Fetch, IInv, TypeOK, Stamps
  <2>3. \/ call'[a] = None
        \/ /\ call'[a] \in Calls
           /\ call'[a].cands = call[a].cands
           /\ call'[a].found = call[a].found
           /\ call'[a].owner = call[a].owner
    <3>1. CASE NothingFound(a)
      BY <2>1, <3>1 DEF NothingFound, Become, Return, IInv, TypeOK, Calls
    <3>2. CASE Fetch(a)
      <4>1. CASE Return(a)
        BY <4>1 DEF Return, Become, IInv, TypeOK
      <4>2. CASE Become(a, [call[a] EXCEPT !.step = "persist", !.synced = clock + 1])
                 /\ clock' = clock + 1
        BY <2>1, <2>2, <4>2 DEF Become, IInv, TypeOK, Calls
      <4>3. QED
        BY <3>2, <4>1, <4>2 DEF Fetch
    <3>3. QED
      BY <1>3, <3>1, <3>2
  <2>4. \A b \in Apps \ {a} : call'[b] = call[b] /\ active'[b] = active[b]
    BY <1>3, <2>1 DEF NothingFound, Fetch, Become, Return, IInv, TypeOK
  <2>5. call' \in [Apps -> Calls \cup {None}]
    <3>1. call' = [call EXCEPT ![a] = call'[a]]
      BY <1>3 DEF NothingFound, Fetch, Become, Return, IInv, TypeOK
    <3>2. call'[a] \in Calls \cup {None}
      BY <2>3
    <3>3. QED
      BY <3>1, <3>2 DEF IInv, TypeOK
  <2>6. TypeOK'
    BY <1>3, <2>1, <2>2, <2>5 DEF NothingFound, Fetch, IInv, TypeOK
  <2>7. UNCHANGED files
    BY <1>3 DEF NothingFound, Fetch
  <2>8. CandInv(a) /\ FoundInv(a) /\ ServerInv(a) /\ ActiveInv(a)
    BY DEF IInv
  <2>9. Own(a)
    BY <2>1, <2>3, <2>7, <2>8 DEF Own, CandInv, FoundInv, ServerInv, ActiveInv
  <2>10. QED
    BY <1>1, <2>4, <2>6, <2>9, Frame
<1>4. QED
  BY <1>1, <1>2, <1>3

LEMMA PersistStep == ASSUME IInv, NEW a \in Apps, Persist(a) PROVE IInv' /\ FilesKept
<1> DEFINE g == Payload(call[a])
<1>1. FilesKept
  BY PersistKeeps
<1>2. call[a] \in Calls /\ call[a] # None
  BY DEF Persist, At, IInv, TypeOK
<1>3. g \in Snapshots /\ Readable(g) /\ g.owner = call[a].owner
  BY <1>2, PayloadFacts
<1>4. call'[a] = None /\ call' \in [Apps -> Calls \cup {None}] /\ clock' = clock
  BY DEF Persist, Return, Become, IInv, TypeOK
<1>5. \A b \in Apps \ {a} : call'[b] = call[b] /\ active'[b] = active[b]
  BY DEF Persist, Return, Become, IInv, TypeOK
<1>6. CASE UNCHANGED <<files, active>>
  <2>1. TypeOK'
    BY <1>4, <1>6 DEF IInv, TypeOK
  <2>2. Own(a)
    BY <1>1, <1>4, <1>6, OthersKept DEF Own, CandInv, FoundInv, ServerInv
  <2>3. QED
    BY <1>1, <1>5, <2>1, <2>2, Frame
<1>7. ASSUME NEW i \in Target(call[a]), files' = [files EXCEPT ![i] = g],
             \/ active' = [active EXCEPT ![a] = Loaded(i, g)]
             \/ UNCHANGED active
      PROVE  IInv'
  <2>1. i \in Ids
    BY <1>2, <1>7 DEF Target, Calls, Found
  <2>2. Loaded(i, g) \in Active
    BY <1>3, <2>1 DEF Loaded, Active, Snapshots
  <2>3. files' \in [Ids -> Files]
    BY <1>3, <1>7 DEF IInv, TypeOK, Files
  <2>4. active' \in [Apps -> Active \cup {None}]
    BY <1>7, <2>2 DEF IInv, TypeOK
  <2>5. TypeOK'
    BY <1>4, <2>3, <2>4 DEF IInv, TypeOK
  <2>6. ActiveInv(a)'
    <3>1. CASE active' = [active EXCEPT ![a] = Loaded(i, g)]
      <4>1. active'[a] = Loaded(i, g) /\ files'[i] = g
        BY <1>7, <2>1, <3>1 DEF IInv, TypeOK
      <4>2. QED
        BY <1>3, <4>1 DEF ActiveInv, Loaded
    <3>2. CASE UNCHANGED active
      BY <1>1, <3>2, OthersKept
    <3>3. QED
      BY <1>7, <3>1, <3>2
  <2>7. Own(a)
    BY <1>4, <2>6 DEF Own, CandInv, FoundInv, ServerInv
  <2>8. QED
    BY <1>1, <1>5, <2>5, <2>7, Frame
<1>8. QED
  BY <1>1, <1>6, <1>7 DEF Persist

LEMMA StepInv == IInv /\ [Next]_vars => IInv' /\ [FilesKept]_vars
<1> SUFFICES ASSUME IInv, [Next]_vars PROVE IInv' /\ [FilesKept]_vars
    OBVIOUS
<1>1. CASE UNCHANGED vars
  BY <1>1 DEF vars, IInv, TypeOK, CandInv, FoundInv, ServerInv, ActiveInv, Readable
<1>2. ASSUME NEW a \in Apps,
             \/ \E u \in {"unlock", "sync"}, o \in Owners : Start(a, u, o)
             \/ List(a) \/ Read(a) \/ NothingFound(a) \/ Fetch(a) \/ Persist(a) \/ Quit(a)
      PROVE  IInv' /\ FilesKept
  BY <1>2, StartStep, ListStep, ReadStep, MoveStep, PersistStep
<1>3. QED
  BY <1>1, <1>2 DEF Next

-----------------------------------------------------------------------------
(* Type correctness. *)
THEOREM TypeCorrect == Spec => []TypeOK
<1>1. IInv => TypeOK
  BY DEF IInv
<1>2. QED
  BY <1>1, InitInv, StepInv, PTL DEF Spec

(* No interleaving of processes makes a refresh replace a file of another owner or
   local user, or one it could not read. *)
THEOREM ForeignFilesSafe == Spec => NoForeignOverwrite
<1>1. [FilesKept]_vars => [\A i \in Ids : files[i] # None => Keeps(files[i], files'[i])]_vars
  BY DEF FilesKept
<1>2. QED
  BY <1>1, InitInv, StepInv, PTL DEF Spec, NoForeignOverwrite

(* What a process shows from memory is always a file of the same owner on the disk. *)
THEOREM ActiveBacked == Spec => []ActiveHasFile
<1>1. IInv => ActiveHasFile
  BY DEF IInv, ActiveInv, ActiveHasFile
<1>2. QED
  BY <1>1, InitInv, StepInv, PTL DEF Spec

-----------------------------------------------------------------------------
(* One process whose reads do not fail: a call that has found nothing so far has its
   owner's snapshot, if there is one, among the candidates still to try. *)
LoneReader == ~FlakyReads /\ \A a, b \in Apps : a = b

OfOwner(o) == {i \in Ids : files[i] \in Snapshots /\ files[i].owner = o}
SearchInv(a) == /\ call[a] # None /\ call[a].found = None
                => /\ call[a].step = "read" => OfOwner(call[a].owner) \subseteq call[a].cands
                   /\ call[a].step \in {"fetch", "persist"} => OfOwner(call[a].owner) = {}

LoneInv == OneSnapshotPerOwner /\ \A a \in Apps : SearchInv(a)

(* A reliable search passes over no snapshot of the owner it searches for. *)
LEMMA OwnOpensOrRefuses ==
  ASSUME NEW f \in Snapshots
  PROVE  Opens(f, f.owner.token) \/ Unsupported(f, f.owner.token)
BY DEF Opens, Unsupported, Decrypts, Readable

LEMMA LoneSearch ==
  ASSUME LoneReader, IInv, LoneInv, NEW a \in Apps, UNCHANGED files,
         \/ \E u \in {"unlock", "sync"}, o \in Owners : Start(a, u, o)
         \/ List(a) \/ Read(a) \/ NothingFound(a) \/ Fetch(a) \/ Quit(a)
  PROVE  SearchInv(a)'
<1>1. SearchInv(a) /\ call \in [Apps -> Calls \cup {None}]
  BY DEF LoneInv, IInv, TypeOK
<1>2. (\A o : OfOwner(o)' = OfOwner(o))
  BY DEF OfOwner
<1>3. CASE call'[a] = None
  BY <1>3 DEF SearchInv
<1>4. ASSUME NEW u \in {"unlock", "sync"}, NEW o \in Owners, Start(a, u, o) PROVE SearchInv(a)'
  BY <1>1, <1>4 DEF Start, Become, SearchInv
<1>5. CASE List(a)
  <2>1. CASE Return(a)
    BY <1>1, <1>3, <2>1 DEF Return, Become
  <2>2. CASE Become(a, [call[a] EXCEPT !.step = "read",
                                       !.cands = OfServer(call[a].owner.server)])
    <3>1. call[a] \in Calls
      BY <1>1, <1>5 DEF List, At
    <3>2. call'[a].step = "read" /\ call'[a].cands = OfServer(call[a].owner.server)
          /\ call'[a].owner = call[a].owner
      BY <1>1, <2>2, <3>1 DEF Become, Calls
    <3>3. OfOwner(call[a].owner) \subseteq OfServer(call[a].owner.server)
      BY DEF OfOwner, OfServer
    <3>4. QED
      BY <1>2, <3>2, <3>3 DEF SearchInv
  <2>3. QED
    BY <1>5, <2>1, <2>2 DEF List
<1>6. CASE Read(a)
  <2>1. PICK i \in call[a].cands : Unlock(a, i) \/ Refuse(a, i) \/ PassOver(a, i)
    BY <1>6 DEF Read
  <2>2. call[a] \in Calls /\ call[a] # None /\ call[a].step = "read" /\ i \in Ids
    BY <1>1, <1>6 DEF Read, At, Calls
  <2>3. CASE Refuse(a, i) \/ (Unlock(a, i) /\ call[a].use = "unlock")
    BY <1>1, <1>3, <2>3 DEF Refuse, Unlock, Return, Become
  <2>4. CASE Unlock(a, i) /\ call[a].use = "sync"
    <3>1. Opens(files[i], call[a].owner.token)
      BY <2>4 DEF Unlock
    <3>2. [id |-> i, user |-> files[i].user] \in Found
      BY <2>2, <3>1 DEF Opens, Readable, Snapshots, Found
    <3>3. call'[a].found = [id |-> i, user |-> files[i].user]
      BY <1>1, <2>2, <2>4 DEF Unlock, Become, Calls
    <3>4. QED
      BY <3>2, <3>3, LifecycleAssumption DEF SearchInv
  <2>5. CASE PassOver(a, i)
    <3>1. /\ ~Opens(files[i], call[a].owner.token)
          /\ ~Unsupported(files[i], call[a].owner.token)
      BY <2>5 DEF PassOver, LoneReader
    <3>2. i \notin OfOwner(call[a].owner)
      BY <3>1, OwnOpensOrRefuses DEF OfOwner
    <3>3. /\ call'[a].step = "read" /\ call'[a].cands = call[a].cands \ {i}
          /\ call'[a].owner = call[a].owner /\ call'[a].found = call[a].found
      BY <1>1, <2>2, <2>5 DEF PassOver, Become, Calls
    <3>4. QED
      BY <1>1, <1>2, <2>2, <3>2, <3>3 DEF SearchInv
  <2>6. QED
    BY <2>1, <2>3, <2>4, <2>5 DEF Unlock
<1>7. CASE NothingFound(a)
  <2>1. CASE Return(a)
    BY <1>1, <1>3, <2>1 DEF Return, Become
  <2>2. CASE Become(a, [call[a] EXCEPT !.step = "fetch"])
    <3>1. call[a] \in Calls /\ call[a] # None /\ call[a].step = "read" /\ call[a].cands = {}
      BY <1>1, <1>7 DEF NothingFound, At
    <3>2. /\ call'[a].step = "fetch" /\ call'[a].owner = call[a].owner
          /\ call'[a].found = call[a].found
      BY <1>1, <2>2, <3>1 DEF Become, Calls
    <3>3. QED
      BY <1>1, <1>2, <3>1, <3>2 DEF SearchInv
  <2>3. QED
    BY <1>7, <2>1, <2>2 DEF NothingFound
<1>8. CASE Fetch(a)
  <2>1. CASE Return(a)
    BY <1>1, <1>3, <2>1 DEF Return, Become
  <2>2. CASE Become(a, [call[a] EXCEPT !.step = "persist", !.synced = clock + 1])
    <3>1. call[a] \in Calls /\ call[a] # None /\ call[a].step = "fetch"
      BY <1>1, <1>8 DEF Fetch, At
    <3>2. /\ call'[a].step = "persist" /\ call'[a].owner = call[a].owner
          /\ call'[a].found = call[a].found
      BY <1>1, <2>2, <3>1 DEF Become, Calls
    <3>3. QED
      BY <1>1, <1>2, <3>1, <3>2 DEF SearchInv
  <2>3. QED
    BY <1>8, <2>1, <2>2 DEF Fetch
<1>9. CASE Quit(a)
  BY <1>1, <1>3, <1>9 DEF Quit, Return, Become
<1>10. QED
  BY <1>4, <1>5, <1>6, <1>7, <1>8, <1>9

(* What a refresh writes is then the only snapshot of its owner. *)
LEMMA PersistTarget ==
  ASSUME IInv, LoneInv, NEW a \in Apps, At(a, "persist"), NEW i \in Target(call[a])
  PROVE  /\ call[a] \in Calls /\ i \in Ids
         /\ OfOwner(call[a].owner) \subseteq {i}
         /\ files[i] = None \/ (Readable(files[i]) /\ files[i].owner = call[a].owner)
<1>1. call[a] \in Calls /\ call[a] # None /\ call[a].step = "persist"
  BY DEF IInv, TypeOK, At
<1>2. CASE call[a].found # None
  <2>1. i = call[a].found.id /\ i \in Ids
    BY <1>1, <1>2 DEF Target, Calls, Found
  <2>2. Readable(files[i]) /\ files[i].owner = call[a].owner
    BY <1>1, <1>2, <2>1 DEF IInv, FoundInv
  <2>3. QED
    BY <1>1, <2>1, <2>2, Distinct DEF LoneInv, OneSnapshotPerOwner, OfOwner
<1>3. CASE call[a].found = None
  BY <1>1, <1>3 DEF LoneInv, SearchInv, Target
<1>4. QED
  BY <1>2, <1>3

LEMMA LoneStep == ASSUME LoneReader, IInv, LoneInv, [Next]_vars PROVE LoneInv'
<1>1. CASE UNCHANGED vars
  BY <1>1 DEF vars, LoneInv, OneSnapshotPerOwner, SearchInv, OfOwner
<1>2. ASSUME NEW a \in Apps, UNCHANGED files,
             \/ \E u \in {"unlock", "sync"}, o \in Owners : Start(a, u, o)
             \/ List(a) \/ Read(a) \/ NothingFound(a) \/ Fetch(a) \/ Quit(a)
      PROVE  LoneInv'
  <2>1. OneSnapshotPerOwner'
    BY <1>2 DEF LoneInv, OneSnapshotPerOwner
  <2>2. SearchInv(a)'
    BY <1>2, LoneSearch
  <2>3. QED
    BY <2>1, <2>2 DEF LoneInv, LoneReader
<1>3. ASSUME NEW a \in Apps, Persist(a) PROVE LoneInv'
  <2>1. call'[a] = None
    BY <1>3 DEF Persist, Return, Become, IInv, TypeOK
  <2>2. \A b \in Apps : SearchInv(b)'
    BY <2>1 DEF SearchInv, LoneReader
  <2>3. OneSnapshotPerOwner'
    <3>1. CASE UNCHANGED files
      BY <3>1 DEF LoneInv, OneSnapshotPerOwner
    <3>2. ASSUME NEW i \in Target(call[a]), files' = [files EXCEPT ![i] = Payload(call[a])]
          PROVE  OneSnapshotPerOwner'
      <4>1. call[a] \in Calls /\ i \in Ids /\ OfOwner(call[a].owner) \subseteq {i}
        BY <1>3, PersistTarget DEF Persist
      <4>2. Payload(call[a]).owner = call[a].owner
        BY <4>1, PayloadFacts
      <4>3. QED
        BY <3>2, <4>1, <4>2 DEF LoneInv, OneSnapshotPerOwner, OfOwner, IInv, TypeOK
    <3>3. QED
      BY <1>3, <3>1, <3>2 DEF Persist
  <2>4. QED
    BY <2>2, <2>3 DEF LoneInv
<1>4. QED
  BY <1>1, <1>2, <1>3 DEF Next, Start, List, Read, NothingFound, Fetch, Quit

LEMMA LoneInit == ASSUME Init PROVE LoneInv
BY DEF Init, LoneInv, OneSnapshotPerOwner, SearchInv

(* With one process and reads that do not fail, a refresh never leaves an owner with a
   second snapshot, however many servers, tokens and files the directory holds. *)
THEOREM OneSnapshotEach == ASSUME LoneReader PROVE Spec => []OneSnapshotPerOwner
<1>1. Init => IInv /\ LoneInv
  BY InitInv, LoneInit
<1>2. IInv /\ LoneInv /\ [Next]_vars => IInv' /\ LoneInv'
  BY StepInv, LoneStep
<1>3. LoneInv => OneSnapshotPerOwner
  BY DEF LoneInv
<1>4. QED
  BY <1>1, <1>2, <1>3, PTL DEF Spec

-----------------------------------------------------------------------------
(* The refinement: the files of an owner as one register.  Stamps count the retrievals
   of a behaviour, so what was retrieved before it bears the stamp 0. *)
SeedsAreOld == \A f \in Seeds \ {Damaged} : f.stamp = 0

StampInv == /\ \A i \in Ids : files[i] \in Snapshots => files[i].stamp <= clock
            /\ \A a \in Apps : call[a] # None /\ call[a].step = "persist" =>
                 /\ call[a].synced <= clock
                 /\ \A i \in Ids : files[i] \in Snapshots => files[i].stamp < call[a].synced

LEMMA StampInit == ASSUME SeedsAreOld, Init PROVE StampInv
BY LifecycleAssumption DEF SeedsAreOld, Init, StampInv

LEMMA StampStep == ASSUME LoneReader, IInv, StampInv, [Next]_vars PROVE StampInv'
<1>1. CASE UNCHANGED vars
  BY <1>1 DEF vars, StampInv
<1>2. call \in [Apps -> Calls \cup {None}] /\ clock \in Int
  BY LifecycleAssumption DEF IInv, TypeOK, Stamps
<1>3. ASSUME NEW a \in Apps, UNCHANGED <<files, clock>>,
             call'[a] = None \/ call'[a].step # "persist"
      PROVE  StampInv'
  BY <1>3 DEF StampInv, LoneReader
<1>4. ASSUME NEW a \in Apps, NEW u \in {"unlock", "sync"}, NEW o \in Owners, Start(a, u, o)
      PROVE  StampInv'
  BY <1>2, <1>3, <1>4 DEF Start, Become
<1>5. ASSUME NEW a \in Apps, List(a) \/ Read(a) \/ NothingFound(a) PROVE StampInv'
  <2>1. call[a] \in Calls /\ UNCHANGED <<files, clock>> /\ call[a].step # "persist"
    BY <1>2, <1>5 DEF List, Read, NothingFound, At
  <2>2. call'[a] = None \/ call'[a].step \in {"read", "fetch"}
    <3>1. CASE List(a)
      BY <1>2, <2>1, <3>1 DEF List, Return, Become, Calls
    <3>2. CASE Read(a)
      BY <1>2, <2>1, <3>2 DEF Read, At, Unlock, Refuse, PassOver, Return, Become, Calls
    <3>3. CASE NothingFound(a)
      BY <1>2, <2>1, <3>3 DEF NothingFound, Return, Become, Calls
    <3>4. QED
      BY <1>5, <3>1, <3>2, <3>3
  <2>3. QED
    BY <1>3, <2>1, <2>2
<1>6. ASSUME NEW a \in Apps, Fetch(a) PROVE StampInv'
  <2>1. CASE Return(a) /\ UNCHANGED <<files, clock>>
    BY <1>2, <1>3, <2>1 DEF Return, Become
  <2>2. CASE /\ clock' = clock + 1 /\ UNCHANGED files
             /\ Become(a, [call[a] EXCEPT !.step = "persist", !.synced = clock + 1])
    <3>1. call[a] \in Calls
      BY <1>2, <1>6 DEF Fetch, At
    <3>2. call'[a].synced = clock + 1
      BY <1>2, <2>2, <3>1 DEF Become, Calls
    <3>3. \A i \in Ids : files[i] \in Snapshots => files[i].stamp \in Int
      BY LifecycleAssumption DEF Snapshots, Stamps
    <3>4. QED
      BY <1>2, <2>2, <3>2, <3>3 DEF StampInv, LoneReader
  <2>3. QED
    BY <1>6, <2>1, <2>2 DEF Fetch
<1>7. ASSUME NEW a \in Apps, Persist(a) PROVE StampInv'
  <2>1. call'[a] = None /\ call[a] \in Calls /\ call[a] # None /\ call[a].step = "persist"
        /\ clock' = clock
    BY <1>2, <1>7 DEF Persist, Return, Become, At
  <2>2. Payload(call[a]).stamp = call[a].synced /\ call[a].synced <= clock
    BY <2>1 DEF Payload, Sealed, StampInv
  <2>3. \A i \in Ids : files'[i] = files[i] \/ files'[i] = Payload(call[a])
    BY <1>7 DEF Persist, IInv, TypeOK
  <2>4. QED
    BY <2>1, <2>2, <2>3 DEF StampInv, LoneReader
<1>8. ASSUME NEW a \in Apps, Quit(a) PROVE StampInv'
  BY <1>2, <1>3, <1>8 DEF Quit, Return, Become
<1>9. QED
  BY <1>1, <1>4, <1>5, <1>6, <1>7, <1>8 DEF Next

LEMMA NewestFacts == /\ Newest({}) = None
                     /\ \A s \in Int : Newest({s}) = s
BY DEF Newest

(* The register of an owner with no readable file, and with one. *)
LEMMA RegisterFacts ==
  ASSUME IInv, LoneInv, NEW o \in Owners
  PROVE  /\ OfOwner(o) = {} => Newest(Stored(o)) = None
         /\ \A i \in Ids : Readable(files[i]) /\ files[i].owner = o
                           => Newest(Stored(o)) = files[i].stamp /\ files[i].stamp \in Stamps
<1>1. CASE OfOwner(o) = {}
  <2>1. Stored(o) = {}
    BY <1>1 DEF OfOwner, Stored, Readable
  <2>2. QED
    BY <1>1, <2>1, NewestFacts DEF OfOwner, Readable
<1>2. ASSUME NEW i \in Ids, Readable(files[i]), files[i].owner = o
      PROVE  Newest(Stored(o)) = files[i].stamp /\ files[i].stamp \in Stamps
  <2>1. Stored(o) = {files[i].stamp}
    BY <1>2 DEF Stored, Readable, LoneInv, OneSnapshotPerOwner
  <2>2. files[i].stamp \in Stamps /\ files[i].stamp \in Int
    BY <1>2, LifecycleAssumption DEF Readable, Snapshots, Stamps
  <2>3. QED
    BY <2>1, <2>2, NewestFacts
<1>3. QED
  BY <1>1, <1>2 DEF OfOwner, Readable

LEMMA VaultInit == ASSUME Init PROVE Vault!Init
<1>1. IInv /\ LoneInv
  BY InitInv, LoneInit
<1>2. ASSUME NEW o \in Owners PROVE Newest(Stored(o)) \in Stamps \cup {None}
  <2>1. CASE \E i \in Ids : Readable(files[i]) /\ files[i].owner = o
    BY <1>1, <2>1, RegisterFacts
  <2>2. CASE \A i \in Ids : ~(Readable(files[i]) /\ files[i].owner = o)
    <3>1. Stored(o) = {}
      BY <2>2 DEF Stored
    <3>2. QED
      BY <3>1, NewestFacts
  <2>3. QED
    BY <2>1, <2>2
<1>3. [a \in Apps |-> ShownBy(a)] = [a \in Apps |-> None]
  BY DEF Init, ShownBy
<1>4. QED
  BY <1>2, <1>3 DEF Vault!Init

(* A refresh moves its owner's register to newer data, and no other register. *)
LEMMA PersistStores ==
  ASSUME IInv, LoneInv, StampInv, NEW a \in Apps, Persist(a),
         ~UNCHANGED <<files, active>>
  PROVE  \E o \in Owners, s \in Stamps : Vault!Store(a, o, s)
<1>0. call[a] \in Calls /\ call[a] # None /\ call[a].step = "persist"
  BY DEF Persist, At, IInv, TypeOK
<1> PICK o \in Owners, s \in Stamps, g \in Snapshots :
         o = call[a].owner /\ s = call[a].synced /\ g = Payload(call[a])
  BY <1>0, PayloadFacts DEF Calls
<1>1. PICK i \in Target(call[a]) :
        /\ files' = [files EXCEPT ![i] = g]
        /\ active' = [active EXCEPT ![a] = Loaded(i, g)] \/ UNCHANGED active
  BY DEF Persist
<1>2. /\ i \in Ids /\ OfOwner(o) \subseteq {i}
      /\ files[i] = None \/ (Readable(files[i]) /\ files[i].owner = o)
  BY PersistTarget DEF Persist
<1>3. Readable(g) /\ g.owner = o /\ g.stamp = s /\ s \in Int
  BY <1>0, PayloadFacts, LifecycleAssumption DEF Payload, Sealed, Stamps
<1>4. Newest(Stored(o)) = None \/ Newest(Stored(o)) < s
  <2>1. CASE files[i] = None
    BY <1>2, <1>3, <2>1, RegisterFacts, Distinct DEF OfOwner
  <2>2. CASE Readable(files[i]) /\ files[i].owner = o
    BY <1>0, <1>2, <1>3, <2>2, RegisterFacts, Distinct DEF StampInv
  <2>3. QED
    BY <1>2, <2>1, <2>2
<1>5. Newest(Stored(o))' = s
  <2>1. Stored(o)' = {s}
    <3>1. \A j \in Ids : Readable(files'[j]) /\ files'[j].owner = o <=> j = i
      BY <1>1, <1>2, <1>3 DEF OfOwner, IInv, TypeOK, Readable
    <3>2. files'[i].stamp = s
      BY <1>1, <1>2, <1>3 DEF IInv, TypeOK
    <3>3. {j \in Ids : Readable(files'[j]) /\ files'[j].owner = o} = {i}
      BY <1>2, <3>1
    <3>4. Stored(o)' = {files'[j].stamp : j \in {i}}
      BY <3>3 DEF Stored
    <3>5. QED
      BY <3>2, <3>4
  <2>2. QED
    BY <1>3, <2>1, NewestFacts
<1>6. ASSUME NEW p \in Owners, p # o PROVE Newest(Stored(p))' = Newest(Stored(p))
  <2>1. \A j \in Ids : Readable(files'[j]) /\ files'[j].owner = p
                       <=> Readable(files[j]) /\ files[j].owner = p
    BY <1>1, <1>2, <1>3, <1>6, Distinct DEF IInv, TypeOK
  <2>2. \A j \in Ids : Readable(files[j]) /\ files[j].owner = p => files'[j] = files[j]
    BY <1>1, <1>2, <1>6, Distinct DEF IInv, TypeOK
  <2>3. Stored(p)' = Stored(p)
    BY <2>1, <2>2 DEF Stored
  <2>4. QED
    BY <2>3
<1>7. [p \in Owners |-> Newest(Stored(p))]' =
        [[p \in Owners |-> Newest(Stored(p))] EXCEPT ![o] = s]
  <2>1. \A p \in Owners : Newest(Stored(p))' = IF p = o THEN s
                                                        ELSE Newest(Stored(p))
    BY <1>5, <1>6
  <2>2. QED
    BY <2>1
<1>8. \/ [b \in Apps |-> ShownBy(b)]' =
           [[b \in Apps |-> ShownBy(b)] EXCEPT ![a] = [owner |-> o, stamp |-> s]]
      \/ UNCHANGED [b \in Apps |-> ShownBy(b)]
  <2>1. CASE UNCHANGED active
    BY <2>1 DEF ShownBy
  <2>2. CASE active' = [active EXCEPT ![a] = Loaded(i, g)]
    <3>1. Loaded(i, g) \in Active
      BY <1>2, <1>3 DEF Loaded, Active, Snapshots
    <3>2. Loaded(i, g) # None /\ Loaded(i, g).owner = o /\ Loaded(i, g).stamp = s
      BY <1>3, <3>1, LifecycleAssumption DEF Loaded
    <3>3. \A b \in Apps : active'[b] = IF b = a THEN Loaded(i, g) ELSE active[b]
      BY <2>2 DEF IInv, TypeOK
    <3>4. \A b \in Apps : ShownBy(b)' = IF b = a THEN [owner |-> o, stamp |-> s]
                                                 ELSE ShownBy(b)
      BY <3>2, <3>3 DEF ShownBy
    <3>5. QED
      BY <3>4
  <2>3. QED
    BY <1>1, <2>1, <2>2
<1>9. QED
  BY <1>3, <1>4, <1>7, <1>8 DEF Vault!Store

(* A process that opens a snapshot shows its owner's register as it stands. *)
LEMMA UnlockOpens ==
  ASSUME IInv, LoneInv, NEW a \in Apps, Read(a), ~UNCHANGED active
  PROVE  \E o \in Owners : Vault!Open(a, o)
<1>1. PICK i \in call[a].cands : Unlock(a, i) /\ call[a].use = "unlock"
  BY DEF Read, Unlock, Refuse, PassOver
<1>2. call[a] \in Calls /\ call[a] # None /\ i \in Ids
  BY DEF IInv, TypeOK, Read, At, Calls
<1> DEFINE f == files[i]
<1>3. /\ Readable(f) /\ f.owner \in Owners /\ f \in Snapshots
      /\ active' = [active EXCEPT ![a] = Loaded(i, f)]
  BY <1>1 DEF Unlock, Opens, Readable, Snapshots
<1>4. Newest(Stored(f.owner)) = f.stamp /\ f.stamp \in Stamps
  BY <1>2, <1>3, RegisterFacts
<1>5. Loaded(i, f) # None /\ Loaded(i, f).owner = f.owner /\ Loaded(i, f).stamp = f.stamp
  <2>1. Loaded(i, f) \in Active
    BY <1>2, <1>3 DEF Loaded, Active, Snapshots
  <2>2. QED
    BY <2>1, LifecycleAssumption DEF Loaded
<1>6. \A b \in Apps : ShownBy(b)' = IF b = a THEN [owner |-> f.owner, stamp |-> f.stamp]
                                             ELSE ShownBy(b)
  <2>1. \A b \in Apps : active'[b] = IF b = a THEN Loaded(i, f) ELSE active[b]
    BY <1>3 DEF IInv, TypeOK
  <2>2. QED
    BY <1>5, <2>1 DEF ShownBy
<1>7. UNCHANGED [o \in Owners |-> Newest(Stored(o))]
  BY DEF Read, Stored
<1>8. f.stamp # None
  BY <1>4, LifecycleAssumption
<1> HIDE DEF f
<1>9. Vault!Open(a, f.owner)
  BY <1>3, <1>4, <1>6, <1>7, <1>8 DEF Vault!Open
<1>10. QED
  BY <1>3, <1>9

LEMMA VaultStep ==
  ASSUME LoneReader, IInv, LoneInv, StampInv, [Next]_vars
  PROVE  [Vault!Next]_(Vault!vars)
<1>1. ASSUME UNCHANGED <<files, active>> PROVE UNCHANGED Vault!vars
  <2>1. \A o : Newest(Stored(o))' = Newest(Stored(o))
    BY <1>1 DEF Stored
  <2>2. \A a : ShownBy(a)' = ShownBy(a)
    BY <1>1 DEF ShownBy
  <2>3. QED
    BY <2>1, <2>2 DEF Vault!vars
<1>2. ASSUME NEW a \in Apps, Read(a) PROVE Vault!Next \/ UNCHANGED Vault!vars
  <2>1. CASE UNCHANGED active
    BY <1>1, <1>2, <2>1 DEF Read
  <2>2. CASE ~UNCHANGED active
    BY <1>2, <2>2, UnlockOpens DEF Vault!Next
  <2>3. QED
    BY <2>1, <2>2
<1>3. ASSUME NEW a \in Apps, Persist(a) PROVE Vault!Next \/ UNCHANGED Vault!vars
  <2>1. CASE ~UNCHANGED <<files, active>>
    BY <1>3, <2>1, PersistStores DEF Vault!Next
  <2>2. CASE UNCHANGED <<files, active>>
    BY <1>1, <2>2
  <2>3. QED
    BY <1>3, <2>1, <2>2
<1>4. ASSUME NEW a \in Apps, Quit(a) PROVE Vault!Next
  <2>1. \A b \in Apps : ShownBy(b)' = IF b = a THEN None ELSE ShownBy(b)
    BY <1>4 DEF Quit, ShownBy, IInv, TypeOK
  <2>2. UNCHANGED [o \in Owners |-> Newest(Stored(o))]
    BY <1>4 DEF Quit, Stored
  <2>3. Vault!Close(a)
    BY <2>1, <2>2 DEF Vault!Close
  <2>4. QED
    BY <2>3 DEF Vault!Next
<1>5. QED
  BY <1>1, <1>2, <1>3, <1>4 DEF Next, vars, Start, List, NothingFound, Fetch

(* With one process and reads that do not fail, the directory is one register for each
   owner: a refresh moves it to newer data, what is opened is what it holds, and no
   refresh touches another owner's. *)
THEOREM FilesImplementVault == ASSUME LoneReader, SeedsAreOld PROVE Spec => ImplementsVault
<1>1. Init => IInv /\ LoneInv /\ StampInv
  BY InitInv, LoneInit, StampInit
<1>2. IInv /\ LoneInv /\ StampInv /\ [Next]_vars => IInv' /\ LoneInv' /\ StampInv'
  BY StepInv, LoneStep, StampStep
<1>3. Init => Vault!Init
  BY VaultInit
<1>4. IInv /\ LoneInv /\ StampInv /\ [Next]_vars => [Vault!Next]_(Vault!vars)
  BY VaultStep
<1>5. QED
  BY <1>1, <1>2, <1>3, <1>4, PTL DEF Spec, ImplementsVault, Vault!Spec
=============================================================================
