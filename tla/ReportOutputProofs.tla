------------------------- MODULE ReportOutputProofs -------------------------
(***************************************************************************)
(* Theorems of ReportOutput for any number of attempts, suffixes and older *)
(* files: what an attempt may touch, what a saved bundle is and what a     *)
(* failed attempt names.  The inductive invariant relates the locals of an *)
(* attempt to the files that are its own on the disk.                      *)
(***************************************************************************)
EXTENDS ReportOutput, TLAPS

Mine(a) == {p \in Paths : folder[p] # None /\ folder[p].by = a}

\* What is reserved and not yet gone through by the clean-up.
Open(a) == {Path(a, i) : i \in (job[a].removed + 1)..job[a].reserved}

Counts(a) ==
  /\ At(a, "new") => job[a] = NewJob(job[a].format)
  /\ At(a, "reserve") => /\ job[a].reserved < Size(a) /\ job[a].written = 0
                         /\ job[a].removed = 0 /\ ~job[a].dirty
  /\ At(a, "write") => /\ job[a].reserved = Size(a) /\ job[a].written < Size(a)
                       /\ job[a].removed = 0 /\ ~job[a].dirty
  /\ job[a].removed <= job[a].reserved /\ job[a].reserved <= Size(a)
  /\ At(a, "saved") => job[a].written = Size(a)
  /\ At(a, "failed") => job[a].removed = job[a].reserved
  /\ ~job[a].dirty => job[a].residual = {}

Owns(a) == /\ ~At(a, "dead") /\ ~At(a, "saved") => Mine(a) = Open(a) \cup job[a].residual
           /\ job[a].residual \subseteq {Path(a, i) : i \in 1..job[a].removed}

Whole(a) == At(a, "write") \/ At(a, "saved") =>
  \A i \in 1..job[a].written : folder[Path(a, i)] = [by |-> a, data |-> "whole"]

IInv == TypeOK /\ \A a \in Attempts : Counts(a) /\ Owns(a) /\ Whole(a)

-----------------------------------------------------------------------------
(* A bundle has one or two documents, of different roles. *)
LEMMA BundleFacts ==
  ASSUME NEW f \in Formats
  PROVE  /\ Len(Bundle(f)) \in 1..2
         /\ \A i \in 1..Len(Bundle(f)) : Bundle(f)[i] \in Roles
         /\ \A i, j \in 1..Len(Bundle(f)) : Bundle(f)[i] = Bundle(f)[j] => i = j
BY DEF Formats, Bundle, Roles

(* The paths of a bundle are paths, and differ. *)
LEMMA PathFacts ==
  ASSUME TypeOK, NEW a \in Attempts
  PROVE  /\ Size(a) \in 1..2
         /\ \A i \in 1..Size(a) : Path(a, i) \in Paths
         /\ \A i, j \in 1..Size(a) : Path(a, i) = Path(a, j) => i = j
BY BundleFacts DEF TypeOK, Jobs, Size, Path, Paths

(* Before any attempt runs nothing on the disk is an attempt's own. *)
LEMMA InitInv == Init => IInv
<1> SUFFICES ASSUME Init PROVE IInv
    OBVIOUS
<1>1. PICK f \in [Attempts -> Formats] : job = [a \in Attempts |-> NewJob(f[a])]
  BY DEF Init
<1>2. TypeOK
  <2>1. folder \in [Paths -> Files \cup {None}]
    BY DEF Init, OldFile, Files
  <2>2. job \in [Attempts -> Jobs]
    BY <1>1, OutputAssumption DEF NewJob, Fresh, Jobs, Suffixes
  <2>3. QED
    BY <2>1, <2>2 DEF TypeOK
<1>3. ASSUME NEW a \in Attempts PROVE Counts(a) /\ Owns(a) /\ Whole(a)
  <2>1. job[a] = NewJob(f[a])
    BY <1>1
  <2>2. Counts(a)
    BY <2>1, <1>2, PathFacts DEF Counts, At, NewJob, Fresh
  <2>3. Mine(a) = {}
    BY OutputAssumption DEF Init, Mine, OldFile
  <2>4. Owns(a)
    BY <2>1, <2>3 DEF Owns, At, Open, NewJob, Fresh
  <2>5. Whole(a)
    BY <2>1 DEF Whole, At, NewJob, Fresh
  <2>6. QED
    BY <2>2, <2>4, <2>5
<1>4. QED
  BY <1>2, <1>3 DEF IInv

-----------------------------------------------------------------------------
\* A step of a puts only files of its own where there was none or one of its own.
OwnOnly(a) == \A p \in Paths :
  \/ folder'[p] = folder[p]
  \/ /\ folder[p] = None \/ folder[p].by = a
     /\ folder'[p] = None \/ folder'[p].by = a

Alone(a) == \A b \in Attempts \ {a} : job'[b] = job[b]

(* What the other attempts rely on is not disturbed by such a step. *)
LEMMA OthersUndisturbed ==
  ASSUME IInv, NEW a \in Attempts, OwnOnly(a), Alone(a)
  PROVE  \A b \in Attempts \ {a} : (Counts(b) /\ Owns(b) /\ Whole(b))'
<1> SUFFICES ASSUME NEW b \in Attempts \ {a} PROVE (Counts(b) /\ Owns(b) /\ Whole(b))'
    OBVIOUS
<1>1. job'[b] = job[b]
  BY DEF Alone
<1>2. TypeOK /\ Counts(b) /\ Owns(b) /\ Whole(b)
  BY DEF IInv
<1>3. \A i : Path(b, i)' = Path(b, i)
  BY <1>1 DEF Path
<1>4. Counts(b)'
  BY <1>1, <1>2 DEF Counts, At, Size
<1>5. Mine(b)' = Mine(b)
  BY DEF OwnOnly, Mine
<1>6. Owns(b)'
  BY <1>1, <1>2, <1>3, <1>5 DEF Owns, Open, At
<1>7. Whole(b)'
  <2>1. At(b, "write") \/ At(b, "saved") =>
          \A i \in 1..job[b].written : Path(b, i) \in Paths
    <3>1. At(b, "write") \/ At(b, "saved") => job[b].written <= Size(b)
      BY <1>2, PathFacts DEF Counts, TypeOK, Jobs
    <3>2. job[b].written \in 0..2
      BY <1>2 DEF TypeOK, Jobs
    <3>3. QED
      BY <1>2, <3>1, <3>2, PathFacts
  <2>2. \A p \in Paths : folder[p] = [by |-> b, data |-> "whole"] => folder'[p] = folder[p]
    <3>1. [by |-> b, data |-> "whole"] # None
      BY NoneAssumption DEF Files
    <3>2. QED
      BY <3>1 DEF OwnOnly
  <2>3. QED
    BY <1>1, <1>2, <1>3, <2>1, <2>2 DEF Whole, At
<1>8. QED
  BY <1>4, <1>6, <1>7

(* A step that leaves the directory alone and changes only a is one. *)
LEMMA SameFolder ==
  ASSUME NEW a \in Attempts, UNCHANGED folder PROVE OwnOnly(a)
BY DEF OwnOnly

\* What each action of an attempt keeps: the types, what is not its own, its own invariant.
Kept(a) == /\ TypeOK' /\ OwnOnly(a) /\ Alone(a)
           /\ (Counts(a) /\ Owns(a) /\ Whole(a))'

(* Nothing is reserved when an attempt begins. *)
LEMMA BeginKept == ASSUME IInv, NEW a \in Attempts, Begin(a) PROVE Kept(a)
<1>1. PICK s \in {"reserve", "failed"} : job' = [job EXCEPT ![a].step = s]
  BY DEF Begin
<1>2. job[a] \in Jobs /\ job \in [Attempts -> Jobs]
  BY DEF IInv, TypeOK
<1>3. /\ job' \in [Attempts -> Jobs] /\ Alone(a)
      /\ job'[a] = [job[a] EXCEPT !.step = s]
  BY <1>1, <1>2 DEF Jobs, Alone
<1>4. job[a] = NewJob(job[a].format)
  BY DEF IInv, Counts, Begin
<1>5. TypeOK' /\ OwnOnly(a)
  BY <1>3, SameFolder DEF IInv, TypeOK, Begin
<1>6. \A i : Path(a, i)' = Path(a, i)
  BY <1>2, <1>3 DEF Path, Jobs
<1>7. Counts(a)'
  <2>1. Size(a)' = Size(a) /\ Size(a) \in 1..2
    BY <1>2, <1>3, PathFacts DEF Size, Jobs, IInv
  <2>2. QED
    BY <1>3, <1>4, <2>1 DEF Counts, At, NewJob, Fresh
<1>8. Mine(a)' = Mine(a) /\ Owns(a)
  BY DEF Begin, Mine, IInv
<1>9. Owns(a)'
  BY <1>3, <1>4, <1>6, <1>8 DEF Owns, Open, At, NewJob, Fresh, Begin
<1>10. Whole(a)'
  BY <1>3, <1>4 DEF Whole, At, NewJob, Fresh
<1>11. QED
  BY <1>3, <1>5, <1>7, <1>9, <1>10 DEF Kept

(* A reserved name becomes a file of the attempt, the last one open. *)
LEMMA ReserveKept == ASSUME IInv, NEW a \in Attempts, ReserveName(a) PROVE Kept(a)
<1> DEFINE n == job[a].reserved + 1
           f == [by |-> a, data |-> "empty"]
           st == IF n = Size(a) THEN "write" ELSE "reserve"
<1>1. TypeOK /\ Counts(a) /\ Owns(a) /\ job[a] \in Jobs /\ job \in [Attempts -> Jobs]
  BY DEF IInv, TypeOK
<1>2. /\ Size(a) \in 1..2 /\ n \in 1..Size(a) /\ job[a].removed = 0 /\ job[a].written = 0
      /\ ~job[a].dirty /\ job[a].residual = {}
  BY <1>1, PathFacts DEF Counts, ReserveName, Jobs
<1>3. Path(a, n) \in Paths /\ folder[Path(a, n)] = None
  BY <1>1, <1>2, PathFacts DEF ReserveName
<1>4. folder' = [folder EXCEPT ![Path(a, n)] = f] /\ f \in Files /\ f # None
  BY NoneAssumption DEF ReserveName, Put, Files
<1>5. /\ job'[a] = [job[a] EXCEPT !.reserved = n, !.step = st]
      /\ job' \in [Attempts -> Jobs] /\ Alone(a)
  <2>1. job' = [job EXCEPT ![a].reserved = n, ![a].step = st]
    BY DEF ReserveName
  <2>2. n \in 0..2 /\ st \in {"write", "reserve"}
    BY <1>2
  <2>3. QED
    BY <1>1, <2>1, <2>2 DEF Jobs, Alone
<1>6. TypeOK' /\ OwnOnly(a)
  BY <1>1, <1>3, <1>4, <1>5 DEF TypeOK, OwnOnly
<1>7. (\A i : Path(a, i)' = Path(a, i)) /\ Size(a)' = Size(a)
  BY <1>1, <1>5 DEF Path, Size, Jobs
<1>8. Counts(a)'
  BY <1>1, <1>2, <1>5, <1>7 DEF Counts, At, Jobs
<1>9. Mine(a)' = Mine(a) \cup {Path(a, n)}
  BY <1>1, <1>3, <1>4 DEF Mine, TypeOK
<1>10. Open(a)' = Open(a) \cup {Path(a, n)}
  <2>1. (job[a].removed + 1)..n = ((job[a].removed + 1)..job[a].reserved) \cup {n}
    BY <1>1, <1>2 DEF Jobs
  <2>2. job'[a].removed = job[a].removed /\ job'[a].reserved = n
    BY <1>1, <1>5 DEF Jobs
  <2>3. QED
    BY <1>7, <2>1, <2>2 DEF Open
<1>11. Owns(a)'
  <2>1. job'[a].residual = {}
    BY <1>1, <1>2, <1>5 DEF Jobs
  <2>2. Mine(a) = Open(a)
    BY <1>1, <1>2 DEF Owns, At, ReserveName
  <2>3. QED
    BY <1>9, <1>10, <2>1, <2>2 DEF Owns
<1>12. Whole(a)'
  <2>1. job'[a].written = 0
    BY <1>1, <1>2, <1>5 DEF Jobs
  <2>2. QED
    BY <2>1 DEF Whole
<1>13. QED
  BY <1>5, <1>6, <1>8, <1>11, <1>12 DEF Kept

(* What was reserved so far is what the clean-up will go through. *)
LEMMA GiveUpKept == ASSUME IInv, NEW a \in Attempts, GiveUpName(a) PROVE Kept(a)
<1>1. TypeOK /\ Counts(a) /\ Owns(a) /\ job[a] \in Jobs /\ job \in [Attempts -> Jobs]
  BY DEF IInv, TypeOK
<1>2. PICK retry \in BOOLEAN :
        job' = [job EXCEPT ![a].step = "cleanup", ![a].retry = retry]
  BY DEF GiveUpName
<1>3. /\ job'[a] = [job[a] EXCEPT !.step = "cleanup", !.retry = retry]
      /\ job' \in [Attempts -> Jobs] /\ Alone(a)
  BY <1>1, <1>2 DEF Jobs, Alone
<1>4. TypeOK' /\ OwnOnly(a)
  BY <1>1, <1>3, SameFolder DEF TypeOK, GiveUpName
<1>5. (\A i : Path(a, i)' = Path(a, i)) /\ Size(a)' = Size(a)
  BY <1>1, <1>3 DEF Path, Size, Jobs
<1>6. Counts(a)'
  BY <1>1, <1>3, <1>5 DEF Counts, At, Jobs, GiveUpName
<1>7. Mine(a)' = Mine(a)
  BY DEF GiveUpName, Mine
<1>8. Owns(a)'
  BY <1>1, <1>3, <1>5, <1>7 DEF Owns, Open, At, Jobs, GiveUpName
<1>9. Whole(a)'
  BY <1>1, <1>3 DEF Whole, At, Jobs
<1>10. QED
  BY <1>3, <1>4, <1>6, <1>8, <1>9 DEF Kept

(* A write changes the contents of a file that is the attempt's own, and of no other document of
   the bundle. *)
LEMMA WriteKept == ASSUME IInv, NEW a \in Attempts, Write(a) PROVE Kept(a)
<1> DEFINE n == job[a].written + 1
           whole == [by |-> a, data |-> "whole"]
<1>1. /\ TypeOK /\ Counts(a) /\ Owns(a) /\ Whole(a)
      /\ job[a] \in Jobs /\ job \in [Attempts -> Jobs]
  BY DEF IInv, TypeOK
<1>2. /\ Size(a) \in 1..2 /\ n \in 1..Size(a) /\ job[a].removed = 0
      /\ job[a].reserved = Size(a) /\ ~job[a].dirty /\ job[a].residual = {}
  BY <1>1, PathFacts DEF Counts, Write, Jobs
<1>3. Path(a, n) \in Paths /\ Path(a, n) \in Mine(a)
  <2>1. Mine(a) = Open(a)
    BY <1>1, <1>2 DEF Owns, At, Write
  <2>2. n \in (job[a].removed + 1)..job[a].reserved
    BY <1>2
  <2>3. QED
    BY <1>1, <1>2, <2>1, <2>2, PathFacts DEF Open
<1>4. ASSUME NEW d \in {"empty", "partial", "whole"}, Put(Path(a, n), [by |-> a, data |-> d]),
             NEW st \in {"saved", "write", "cleanup"}, NEW w \in 0..2,
             job' = [job EXCEPT ![a].written = w, ![a].step = st],
             st = "cleanup" \/ (d = "whole" /\ w = n /\ st = IF n = Size(a) THEN "saved" ELSE "write")
      PROVE  Kept(a)
  <2> DEFINE g == [by |-> a, data |-> d]
  <2>1. folder' = [folder EXCEPT ![Path(a, n)] = g] /\ g \in Files /\ g # None
    BY <1>4, NoneAssumption DEF Put, Files
  <2>2. /\ job'[a] = [job[a] EXCEPT !.written = w, !.step = st]
        /\ job' \in [Attempts -> Jobs] /\ Alone(a)
    BY <1>1, <1>4 DEF Jobs, Alone
  <2>3. TypeOK' /\ OwnOnly(a)
    BY <1>1, <1>3, <2>1, <2>2 DEF TypeOK, OwnOnly, Mine
  <2>4. (\A i : Path(a, i)' = Path(a, i)) /\ Size(a)' = Size(a)
    BY <1>1, <2>2 DEF Path, Size, Jobs
  <2>5. Counts(a)'
    BY <1>1, <1>2, <1>4, <2>2, <2>4 DEF Counts, At, Jobs
  <2>6. Mine(a)' = Mine(a)
    BY <1>1, <1>3, <2>1 DEF Mine, TypeOK
  <2>7. Owns(a)'
    BY <1>1, <2>2, <2>4, <2>6 DEF Owns, Open, At, Jobs, Write
  <2>8. Whole(a)'
    <3>1. CASE st = "cleanup"
      BY <1>1, <2>2, <3>1 DEF Whole, At, Jobs
    <3>2. CASE st # "cleanup"
      <4>1. job'[a].written = n /\ g = whole
        BY <1>1, <1>4, <2>2, <3>2 DEF Jobs
      <4>2. ASSUME NEW i \in 1..n PROVE folder'[Path(a, i)] = whole
        <5>1. CASE i = n
          BY <1>1, <1>3, <2>1, <4>1, <5>1 DEF TypeOK
        <5>2. CASE i # n
          <6>1. i \in 1..job[a].written /\ i \in 1..Size(a)
            BY <1>1, <1>2, <5>2 DEF Jobs
          <6>2. Path(a, i) # Path(a, n) /\ Path(a, i) \in Paths
            BY <1>1, <1>2, <5>2, <6>1, PathFacts
          <6>3. folder[Path(a, i)] = whole
            BY <1>1, <6>1 DEF Whole, At, Write
          <6>4. QED
            BY <1>1, <2>1, <6>2, <6>3 DEF TypeOK
        <5>3. QED
          BY <5>1, <5>2
      <4>3. QED
        BY <2>4, <4>1, <4>2 DEF Whole
    <3>3. QED
      BY <3>1, <3>2
  <2>9. QED
    BY <2>2, <2>3, <2>5, <2>7, <2>8 DEF Kept
<1>5. CASE /\ Put(Path(a, n), whole)
           /\ job' = [job EXCEPT ![a].written = n,
                                 ![a].step = IF n = Size(a) THEN "saved" ELSE "write"]
  <2>1. n \in 0..2 /\ (IF n = Size(a) THEN "saved" ELSE "write") \in {"saved", "write", "cleanup"}
    BY <1>2
  <2>2. QED
    BY <1>4, <1>5, <2>1
<1>6. CASE \E d \in {"empty", "partial", "whole"} :
             /\ Put(Path(a, n), [by |-> a, data |-> d])
             /\ job' = [job EXCEPT ![a].step = "cleanup"]
  <2>1. [job EXCEPT ![a].step = "cleanup"]
          = [job EXCEPT ![a].written = job[a].written, ![a].step = "cleanup"]
    BY <1>1 DEF Jobs
  <2>2. job[a].written \in 0..2
    BY <1>1 DEF Jobs
  <2>3. QED
    BY <1>4, <1>6, <2>1, <2>2
<1>7. QED
  BY <1>5, <1>6 DEF Write

(* A file the clean-up went through is gone or among the residual paths. *)
LEMMA CleanupKept == ASSUME IInv, NEW a \in Attempts, CleanupFile(a) PROVE Kept(a)
<1> DEFINE n == job[a].removed + 1
<1>1. /\ TypeOK /\ Counts(a) /\ Owns(a) /\ At(a, "cleanup")
      /\ job[a] \in Jobs /\ job \in [Attempts -> Jobs]
  BY DEF IInv, TypeOK, CleanupFile
<1>2. /\ Size(a) \in 1..2 /\ n \in 1..Size(a) /\ n \in 1..job[a].reserved
      /\ job[a].reserved <= Size(a)
  BY <1>1, PathFacts DEF Counts, CleanupFile, Jobs
<1>3. Path(a, n) \in Paths /\ Path(a, n) \notin job[a].residual
  <2>1. \A i \in 1..job[a].removed : i \in 1..Size(a) /\ i # n
    BY <1>1, <1>2 DEF Jobs
  <2>2. QED
    BY <1>1, <1>2, <2>1, PathFacts DEF Owns
<1>4. Mine(a) = Open(a) \cup job[a].residual
  BY <1>1 DEF Owns, At
<1>5. ASSUME NEW dirty \in BOOLEAN, NEW residual \in SUBSET Paths,
             job'[a] = [job[a] EXCEPT !.removed = n, !.dirty = dirty, !.residual = residual],
             job' \in [Attempts -> Jobs], Alone(a), TypeOK', OwnOnly(a),
             ~dirty => residual = {},
             residual \subseteq job[a].residual \cup {Path(a, n)},
             Mine(a)' = (Open(a) \ {Path(a, n)}) \cup residual
      PROVE  Kept(a)
  <2>1. (\A i : Path(a, i)' = Path(a, i)) /\ Size(a)' = Size(a)
    BY <1>1, <1>5 DEF Path, Size, Jobs
  <2>2. Counts(a)'
    BY <1>1, <1>2, <1>5, <2>1 DEF Counts, At, Jobs
  <2>3. Open(a)' = Open(a) \ {Path(a, n)}
    <3>1. (n + 1)..job[a].reserved = (n..job[a].reserved) \ {n}
      BY <1>1, <1>2 DEF Jobs
    <3>2. job'[a].removed = n /\ job'[a].reserved = job[a].reserved
      BY <1>1, <1>5 DEF Jobs
    <3>3. \A i \in n..job[a].reserved : i # n => Path(a, i) # Path(a, n)
      <4>1. \A i \in n..job[a].reserved : i \in 1..Size(a)
        BY <1>1, <1>2 DEF Jobs
      <4>2. QED
        BY <1>1, <1>2, <4>1, PathFacts
    <3>4. QED
      BY <2>1, <3>1, <3>2, <3>3 DEF Open
  <2>4. job'[a].residual = residual /\ job'[a].removed = n
    BY <1>1, <1>5 DEF Jobs
  <2>5. residual \subseteq {Path(a, i) : i \in 1..n}
    <3>1. 1..job[a].removed \subseteq 1..n /\ n \in 1..n
      BY <1>1, <1>2 DEF Jobs
    <3>2. QED
      BY <1>1, <1>5, <3>1 DEF Owns
  <2>6. Owns(a)'
    BY <1>5, <2>1, <2>3, <2>4, <2>5 DEF Owns
  <2>7. Whole(a)'
    BY <1>1, <1>5 DEF Whole, At, Jobs
  <2>8. QED
    BY <1>5, <2>2, <2>6, <2>7 DEF Kept
<1>6. ASSUME Put(Path(a, n), None), NEW closeFailed \in {FALSE, n > job[a].written},
             job' = [job EXCEPT ![a].removed = n, ![a].dirty = @ \/ closeFailed]
      PROVE  Kept(a)
  <2> DEFINE d == job[a].dirty \/ closeFailed
  <2>1. d \in BOOLEAN /\ n \in 0..2
    BY <1>1, <1>2 DEF Jobs
  <2>2. /\ job'[a] = [job[a] EXCEPT !.removed = n, !.dirty = d]
        /\ job' \in [Attempts -> Jobs] /\ Alone(a)
    BY <1>1, <1>6, <2>1 DEF Jobs, Alone
  <2>3. folder' = [folder EXCEPT ![Path(a, n)] = None]
    BY <1>6 DEF Put
  <2>4. Path(a, n) \in Mine(a)
    <3>1. n \in n..job[a].reserved
      BY <1>1, <1>2 DEF Jobs
    <3>2. QED
      BY <1>4, <3>1 DEF Open
  <2>5. TypeOK' /\ OwnOnly(a)
    BY <1>1, <1>3, <2>2, <2>3, <2>4 DEF TypeOK, OwnOnly, Mine
  <2>6. Mine(a)' = Mine(a) \ {Path(a, n)}
    BY <1>1, <1>3, <2>3 DEF Mine, TypeOK
  <2>7. Mine(a)' = (Open(a) \ {Path(a, n)}) \cup job[a].residual
    BY <1>3, <1>4, <2>6
  <2>8. job'[a] = [job[a] EXCEPT !.removed = n, !.dirty = d, !.residual = job[a].residual]
    BY <1>1, <2>2 DEF Jobs
  <2>9. job[a].residual \in SUBSET Paths /\ (~d => job[a].residual = {})
    BY <1>1 DEF Jobs, Counts
  <2> HIDE DEF d
  <2>10. QED
    BY <1>5, <2>1, <2>2, <2>5, <2>7, <2>8, <2>9
<1>7. ASSUME job' = [job EXCEPT ![a].removed = n, ![a].dirty = TRUE,
                                ![a].residual = @ \cup {Path(a, n)}],
             UNCHANGED folder
      PROVE  Kept(a)
  <2> DEFINE r == job[a].residual \cup {Path(a, n)}
  <2>1. r \in SUBSET Paths /\ n \in 0..2
    BY <1>1, <1>2, <1>3 DEF Jobs
  <2>2. /\ job'[a] = [job[a] EXCEPT !.removed = n, !.dirty = TRUE, !.residual = r]
        /\ job' \in [Attempts -> Jobs] /\ Alone(a)
    BY <1>1, <1>7, <2>1 DEF Jobs, Alone
  <2>3. TypeOK' /\ OwnOnly(a)
    BY <1>1, <1>7, <2>2, SameFolder DEF TypeOK
  <2>4. Path(a, n) \in Open(a)
    <3>1. n \in n..job[a].reserved
      BY <1>1, <1>2 DEF Jobs
    <3>2. QED
      BY <3>1 DEF Open
  <2>5. Mine(a)' = Mine(a)
    BY <1>7 DEF Mine
  <2>6. Mine(a)' = (Open(a) \ {Path(a, n)}) \cup r
    BY <1>4, <2>4, <2>5
  <2>7. QED
    BY <1>5, <2>1, <2>2, <2>3, <2>6
<1>8. QED
  BY <1>6, <1>7 DEF CleanupFile

(* A failed attempt keeps what its clean-up left. *)
LEMMA FailKept == ASSUME IInv, NEW a \in Attempts, Fail(a) PROVE Kept(a)
<1>1. /\ TypeOK /\ Counts(a) /\ Owns(a) /\ At(a, "cleanup")
      /\ job[a] \in Jobs /\ job \in [Attempts -> Jobs]
  BY DEF IInv, TypeOK, Fail
<1>2. /\ job'[a] = [job[a] EXCEPT !.step = "failed"]
      /\ job' \in [Attempts -> Jobs] /\ Alone(a)
  BY <1>1 DEF Jobs, Alone, Fail
<1>3. TypeOK' /\ OwnOnly(a)
  BY <1>1, <1>2, SameFolder DEF TypeOK, Fail
<1>4. (\A i : Path(a, i)' = Path(a, i)) /\ Size(a)' = Size(a)
  BY <1>1, <1>2 DEF Path, Size, Jobs
<1>5. Counts(a)'
  BY <1>1, <1>2, <1>4 DEF Counts, At, Jobs, Fail, ToRemove
<1>6. Mine(a)' = Mine(a)
  BY DEF Fail, Mine
<1>7. Owns(a)'
  BY <1>1, <1>2, <1>4, <1>6 DEF Owns, Open, At, Jobs
<1>8. Whole(a)'
  BY <1>1, <1>2 DEF Whole, At, Jobs
<1>9. QED
  BY <1>2, <1>3, <1>5, <1>7, <1>8 DEF Kept

(* A killed attempt leaves everything as it was. *)
LEMMA KillKept == ASSUME IInv, NEW a \in Attempts, Kill(a) PROVE Kept(a)
<1>1. TypeOK /\ Counts(a) /\ Owns(a) /\ job[a] \in Jobs /\ job \in [Attempts -> Jobs]
  BY DEF IInv, TypeOK
<1>2. /\ job'[a] = [job[a] EXCEPT !.step = "dead"]
      /\ job' \in [Attempts -> Jobs] /\ Alone(a)
  BY <1>1 DEF Jobs, Alone, Kill
<1>3. TypeOK' /\ OwnOnly(a)
  BY <1>1, <1>2, SameFolder DEF TypeOK, Kill
<1>4. (\A i : Path(a, i)' = Path(a, i)) /\ Size(a)' = Size(a)
  BY <1>1, <1>2 DEF Path, Size, Jobs
<1>5. Counts(a)'
  BY <1>1, <1>2, <1>4 DEF Counts, At, Jobs
<1>6. Owns(a)'
  BY <1>1, <1>2, <1>4 DEF Owns, At, Jobs
<1>7. Whole(a)'
  BY <1>1, <1>2 DEF Whole, At, Jobs
<1>8. QED
  BY <1>2, <1>3, <1>5, <1>6, <1>7 DEF Kept

(* A clean-up without an error left nothing behind, so the next suffix starts from nothing. *)
LEMMA TryNextSuffixKept == ASSUME IInv, NEW a \in Attempts, TryNextSuffix(a) PROVE Kept(a)
<1> DEFINE next == Fresh("reserve", job[a].format, NextSuffix(a))
<1>1. /\ TypeOK /\ Counts(a) /\ Owns(a) /\ At(a, "cleanup")
      /\ job[a] \in Jobs /\ job \in [Attempts -> Jobs]
  BY DEF IInv, TypeOK, TryNextSuffix
<1>2. NextSuffix(a) \in Suffixes
  BY <1>1, OutputAssumption DEF TryNextSuffix, NextSuffix, Suffixes, Jobs
<1>3. job' = [job EXCEPT ![a] = next] /\ next \in Jobs
  <2>1. job[a].format \in Formats
    BY <1>1 DEF Jobs
  <2>2. next \in Jobs
    BY <1>2, <2>1 DEF Fresh, Jobs
  <2>3. QED
    BY <2>2 DEF TryNextSuffix
<1>4. job'[a] = next /\ job' \in [Attempts -> Jobs] /\ Alone(a)
  BY <1>1, <1>3 DEF Alone
<1>5. TypeOK' /\ OwnOnly(a)
  BY <1>1, <1>4, SameFolder DEF TypeOK, TryNextSuffix
<1>6. Mine(a)' = {}
  <2>1. job[a].residual = {} /\ job[a].removed = job[a].reserved /\ job[a].reserved \in 0..2
    BY <1>1 DEF Counts, TryNextSuffix, ToRemove, Jobs
  <2>2. (job[a].removed + 1)..job[a].reserved = {}
    BY <2>1
  <2>3. Mine(a) = {}
    BY <1>1, <2>1, <2>2 DEF Owns, Open, At
  <2>4. QED
    BY <2>3 DEF Mine, TryNextSuffix
<1>7. Size(a)' = Size(a) /\ Size(a) \in 1..2
  BY <1>1, <1>4, PathFacts DEF Size, NewJob, Fresh
<1>8. Counts(a)'
  BY <1>4, <1>7 DEF Counts, At, NewJob, Fresh
<1>9. Owns(a)'
  BY <1>4, <1>6 DEF Owns, Open, At, NewJob, Fresh
<1>10. Whole(a)'
  BY <1>4 DEF Whole, At, NewJob, Fresh
<1>11. QED
  BY <1>4, <1>5, <1>8, <1>9, <1>10 DEF Kept

(* The invariant is inductive. *)
LEMMA StepInv == ASSUME IInv, [Next]_vars PROVE IInv'
<1>1. ASSUME NEW a \in Attempts, Step(a) \/ Kill(a) PROVE IInv'
  <2>1. Kept(a)
    BY <1>1, BeginKept, ReserveKept, GiveUpKept, WriteKept, CleanupKept,
       TryNextSuffixKept, FailKept, KillKept DEF Step
  <2>2. QED
    BY <2>1, OthersUndisturbed DEF Kept, IInv
<1>2. CASE UNCHANGED vars
  BY <1>2 DEF vars, IInv, TypeOK, Counts, Owns, Whole, At, Size, Path, Mine, Open
<1>3. QED
  BY <1>1, <1>2 DEF Next

(* The invariant holds in every reachable state. *)
LEMMA Invariant == Spec => []IInv
<1>1. QED
  BY InitInv, StepInv, PTL DEF Spec

-----------------------------------------------------------------------------
(* The variables of the report folder and of the attempts keep their types. *)
THEOREM TypeCorrect == Spec => []TypeOK
<1>1. IInv => TypeOK
  BY DEF IInv
<1>2. QED
  BY Invariant, <1>1, PTL

(* A bundle WriteReportOutputBundle reported as saved is whole on disk from then on, whatever
   other attempts, of any number, do. *)
THEOREM SavedBundleWhole == Spec => []SavedWhole
<1>1. IInv => SavedWhole
  <2> SUFFICES ASSUME IInv, NEW a \in Attempts, At(a, "saved"), NEW i \in 1..Size(a)
               PROVE  folder[Path(a, i)] = [by |-> a, data |-> "whole"]
      BY DEF SavedWhole
  <2>1. Counts(a) /\ Whole(a)
    BY DEF IInv
  <2>2. QED
    BY <2>1 DEF Counts, Whole
<1>2. QED
  BY Invariant, <1>1, PTL

(* The residual paths of a failed attempt are exactly the files it left. *)
THEOREM FailedNamesLeftovers == Spec => []LeftoversNamed
<1>1. IInv => LeftoversNamed
  <2> SUFFICES ASSUME IInv, NEW a \in Attempts, At(a, "failed")
               PROVE  Mine(a) = job[a].residual
      BY DEF LeftoversNamed, Mine
  <2>1. TypeOK /\ Counts(a) /\ Owns(a) /\ job[a] \in Jobs
    BY DEF IInv, TypeOK
  <2>2. job[a].removed = job[a].reserved /\ job[a].reserved \in 0..2
    BY <2>1 DEF Counts, Jobs
  <2>3. (job[a].removed + 1)..job[a].reserved = {}
    BY <2>2
  <2>4. QED
    BY <2>1, <2>3 DEF Owns, Open, At
<1>2. QED
  BY Invariant, <1>1, PTL

(* Whatever an attempt reports, the folder holds it, and what the user reads of the files
   of a failed one is so. *)
THEOREM FolderTold == Spec => []FolderAsTold
<1>1. SavedWhole /\ LeftoversNamed => FolderAsTold
  <2> SUFFICES ASSUME SavedWhole, LeftoversNamed PROVE MessageTrue
      BY DEF FolderAsTold
  <2> SUFFICES ASSUME NEW a \in Attempts, At(a, "failed")
               PROVE  Told(a) = "something_left" <=> \E p \in Paths : folder[p] # None /\ folder[p].by = a
      BY DEF MessageTrue
  <2>1. {p \in Paths : folder[p] # None /\ folder[p].by = a} = job[a].residual
    BY DEF LeftoversNamed
  <2>2. Told(a) = "something_left" <=> job[a].residual # {}
    BY DEF Told
  <2>3. QED
    BY <2>1, <2>2
<1>2. QED
  BY SavedBundleWhole, FailedNamesLeftovers, <1>1, PTL

(* No step touches a file but those of the attempt that takes it: O_EXCL keeps an attempt off
   the files of every other one, also of failed, killed and earlier ones. *)
THEOREM OthersFilesKept == Spec => OthersKept
<1> DEFINE Touched == \A p \in Paths : folder[p] # None /\ folder'[p] # folder[p]
             => \E a \in Attempts : folder[p].by = a /\ Running(a) /\ job'[a] # job[a]
<1>1. ASSUME IInv, [Next]_vars PROVE [Touched]_vars
  <2> SUFFICES ASSUME NEW p \in Paths, folder[p] # None, folder'[p] # folder[p]
               PROVE  \E a \in Attempts : folder[p].by = a /\ Running(a) /\ job'[a] # job[a]
      OBVIOUS
  <2>1. PICK a \in Attempts : Step(a) \/ Kill(a)
    BY <1>1 DEF Next, vars
  <2>2. Kept(a)
    BY <1>1, <2>1, BeginKept, ReserveKept, GiveUpKept, WriteKept, CleanupKept,
       TryNextSuffixKept, FailKept, KillKept DEF Step
  <2>3. folder[p].by = a
    BY <2>2 DEF Kept, OwnOnly
  <2>4. ReserveName(a) \/ Write(a) \/ CleanupFile(a)
    BY <2>1 DEF Step, Begin, GiveUpName, TryNextSuffix, Fail, Kill
  <2>5. Running(a)
    BY <2>4 DEF ReserveName, Write, CleanupFile, Running, At
  <2>6. job'[a] # job[a]
    <3>1. job[a] \in Jobs /\ job \in [Attempts -> Jobs]
      BY <1>1 DEF IInv, TypeOK
    <3>2. CASE ReserveName(a)
      <4>1. job'[a].reserved = job[a].reserved + 1
        BY <3>1, <3>2 DEF ReserveName, Jobs
      <4>2. QED
        BY <3>1, <4>1 DEF Jobs
    <3>3. CASE Write(a)
      BY <3>1, <3>3 DEF Write, At, Jobs
    <3>4. CASE CleanupFile(a)
      BY <3>1, <3>4 DEF CleanupFile, Jobs
    <3>5. QED
      BY <2>4, <3>2, <3>3, <3>4
  <2>7. QED
    BY <2>3, <2>5, <2>6
<1>2. QED
  BY Invariant, <1>1, PTL DEF Spec, OthersKept
=============================================================================
