-------------------------- MODULE SnapshotLifecycle --------------------------
(***************************************************************************)
(* The protected snapshots of one machine: the directory that application  *)
(* processes share, and what each of them does with it when it unlocks a   *)
(* context or runs a sync (snapshotLifecycle, syncService.Run and the      *)
(* encrypted store under them).  A file carries a random identifier; who   *)
(* owns it is found out by listing the directory, keeping the files of the *)
(* selected server and trying the token on each in the order of their      *)
(* identifiers.  Reading, the network and writing are separate steps, so   *)
(* processes interleave; a process may quit or be killed between any two.  *)
(*                                                                         *)
(* A write is one step here: FileReplace shows that on POSIX it is.        *)
(* External: the random source, whose identifiers are fresh, and the       *)
(* cipher, under which a payload opens for the token that sealed it only.  *)
(***************************************************************************)
EXTENDS Integers

CONSTANTS Apps,         \* application processes
          Ids,          \* snapshot identifiers, in the order the file names sort
          Servers, Tokens,
          MaxStamp,     \* bound: successful retrievals in a behaviour
          None,         \* no file, nothing found, nothing active
          Damaged,      \* a file whose envelope does not decode
          Seeds,        \* files earlier runs and other versions may have left
          FlakyReads    \* an I/O error may fail a read that would succeed

Owners == [server : Servers, token : Tokens]
Stamps == 0..MaxStamp

\* A snapshot file: who can open it, the two version checks, the registered local
\* user it was created for (named by the stamp of its creation) and the data's stamp.
Snapshots == [owner : Owners, envelopeOK : BOOLEAN, payloadOK : BOOLEAN,
              user : Stamps, stamp : Stamps]
Files == Snapshots \cup {None, Damaged}

VARIABLES files,    \* files[i]: the file with identifier i
          clock,    \* time.Now, as the number of retrievals so far
          call,     \* call[a]: the unlock or sync a runs, or None
          active    \* active[a]: activeSnapshotState of a

vars == <<files, clock, call, active>>

\* The candidate that opened, and the local user of its payload.
Found == [id : Ids, user : Stamps]

\* The locals of one call: candidates still to try, what opened, the new cache's stamp.
Calls == [step : {"list", "read", "fetch", "persist"}, use : {"unlock", "sync"},
          owner : Owners, cands : SUBSET Ids, found : Found \cup {None}, synced : Stamps]
Active == [id : Ids, owner : Owners, user : Stamps, stamp : Stamps]

ASSUME LifecycleAssumption == /\ Ids \subseteq Int
                              /\ MaxStamp \in Nat
                              /\ None \notin Snapshots \cup {Damaged} \cup Found \cup Active \cup Stamps
                              /\ Damaged \notin Snapshots
                              /\ Seeds \subseteq Snapshots \cup {Damaged}
                              /\ FlakyReads \in BOOLEAN

TypeOK == /\ files \in [Ids -> Files]
          /\ clock \in Stamps
          /\ call \in [Apps -> Calls \cup {None}]
          /\ active \in [Apps -> Active \cup {None}]

Readable(f) == f \in Snapshots /\ f.envelopeOK /\ f.payloadOK

\* Earlier runs left at most one snapshot for each owner.
Init == /\ files \in [Ids -> Seeds \cup {None}]
        /\ \A i, j \in Ids : files[i] \in Snapshots /\ files[j] \in Snapshots /\ i # j
                             => files[i].owner # files[j].owner
        /\ clock = 0
        /\ call = [a \in Apps |-> None]
        /\ active = [a \in Apps |-> None]

-----------------------------------------------------------------------------
At(a, step) == call[a] # None /\ call[a].step = step
Become(a, c) == call' = [call EXCEPT ![a] = c]
Return(a) == Become(a, None)

\* UnlockSelectedServerSnapshot or Run: nothing of an earlier attempt is kept.
Start(a, u, o) ==
  /\ call[a] = None
  /\ Become(a, [step |-> "list", use |-> u, owner |-> o, cands |-> {},
                found |-> None, synced |-> 0])
  /\ UNCHANGED <<files, clock, active>>

\* A slip: the server filter forgotten.
OfAnyServer(s) == {i \in Ids : files[i] \in Snapshots}

\* DiscoverServerCandidates: the files of the selected server.
OfServer(s) == {i \in Ids : files[i] \in Snapshots /\ files[i].owner.server = s}

\* One file that cannot be read or decoded fails the whole listing, and so does a
\* candidate with an unknown envelope version.
Decodes(f) == f # Damaged
Listable(s) == /\ \A i \in Ids : Decodes(files[i])
               /\ \A i \in OfServer(s) : files[i].envelopeOK

List(a) == /\ At(a, "list")
           /\ LET s == call[a].owner.server IN
              \/ /\ FlakyReads \/ ~Listable(s)
                 /\ Return(a)
              \/ /\ Listable(s)
                 /\ Become(a, [call[a] EXCEPT !.step = "read", !.cands = OfServer(s)])
           /\ UNCHANGED <<files, clock, active>>

-----------------------------------------------------------------------------
\* The key is derived from the token: another one opens nothing.
Decrypts(f, t) == f.owner.token = t

\* A slip: the stored-data version of the payload is not looked at.
OpensUnchecked(f, t) == f \in Snapshots /\ Decrypts(f, t)

\* EncryptedStore.Read of the file f with token t.
Opens(f, t) == Readable(f) /\ Decrypts(f, t)
Unsupported(f, t) == f \in Snapshots /\ (~f.envelopeOK \/ (Decrypts(f, t) /\ ~f.payloadOK))

\* What activeSnapshotState.Set records of file i holding f.
Loaded(i, f) == [id |-> i, owner |-> f.owner, user |-> f.user, stamp |-> f.stamp]

\* The first candidate that opens ends the search.
Unlock(a, i) ==
  /\ Opens(files[i], call[a].owner.token)
  /\ \/ /\ call[a].use = "sync"
        /\ Become(a, [call[a] EXCEPT !.step = "fetch", !.cands = {},
                                     !.found = [id |-> i, user |-> files[i].user]])
        /\ UNCHANGED active
     \/ /\ call[a].use = "unlock"
        /\ Return(a)
        /\ active' = [active EXCEPT ![a] = Loaded(i, files[i])]

\* An unsupported version ends it with an error; any other error is passed over.
Refuse(a, i) == /\ Unsupported(files[i], call[a].owner.token)
                /\ Return(a)
                /\ UNCHANGED active

PassOver(a, i) == /\ LET t == call[a].owner.token IN
                       FlakyReads \/ (~Opens(files[i], t) /\ ~Unsupported(files[i], t))
                  /\ Become(a, [call[a] EXCEPT !.cands = @ \ {i}])
                  /\ UNCHANGED active

Read(a) == /\ At(a, "read")
           /\ \E i \in call[a].cands :
                /\ \A j \in call[a].cands : i <= j
                /\ Unlock(a, i) \/ Refuse(a, i) \/ PassOver(a, i)
           /\ UNCHANGED <<files, clock>>

\* No candidate opened: a new context.
NothingFound(a) == /\ At(a, "read")
                   /\ call[a].cands = {}
                   /\ IF call[a].use = "sync"
                      THEN Become(a, [call[a] EXCEPT !.step = "fetch"])
                      ELSE Return(a)
                   /\ UNCHANGED <<files, clock, active>>

-----------------------------------------------------------------------------
\* Authenticate, retrieve, map, normalise and validate; any of them may fail.
Fetch(a) == /\ At(a, "fetch")
            /\ \/ /\ Return(a)
                  /\ UNCHANGED clock
               \/ /\ clock < MaxStamp
                  /\ clock' = clock + 1
                  /\ Become(a, [call[a] EXCEPT !.step = "persist", !.synced = clock + 1])
            /\ UNCHANGED <<files, active>>

\* A slip: every refresh is stored under a new identifier.
FreshTarget(c) == {i \in Ids : files[i] = None}

\* The file Write replaces: the one that was unlocked, or a new random identifier.
Target(c) == IF c.found # None THEN {c.found.id} ELSE {i \in Ids : files[i] = None}

\* EncryptedStore.Write: the payload in an envelope of the current versions, found by
\* its server and opened by its token.
Sealed(owner, user, stamp) == [owner |-> owner, envelopeOK |-> TRUE, payloadOK |-> TRUE,
                               user |-> user, stamp |-> stamp]

\* A slip: a new context registers no local user.
NamelessPayload(c) == Sealed(c.owner, IF c.found # None THEN c.found.user ELSE None, c.synced)

\* protectedPayloadBuilder.Build and the envelope around it.
Payload(c) == Sealed(c.owner, IF c.found # None THEN c.found.user ELSE c.synced, c.synced)

\* A slip: the new payload becomes active before its write is known to have succeeded.
PersistActiveFirst(a) == /\ At(a, "persist")
                         /\ Return(a)
                         /\ \E i \in Target(call[a]) :
                              /\ active' = [active EXCEPT ![a] = Loaded(i, Payload(call[a]))]
                              /\ files' \in {files, [files EXCEPT ![i] = Payload(call[a])]}
                         /\ UNCHANGED clock

\* ReplaceFileAtomically may fail before the rename, or after it, in applyPathMode.
Persist(a) == /\ At(a, "persist")
              /\ Return(a)
              /\ \/ UNCHANGED <<files, active>>
                 \/ \E i \in Target(call[a]) :
                      /\ files' = [files EXCEPT ![i] = Payload(call[a])]
                      /\ \/ active' = [active EXCEPT ![a] = Loaded(i, Payload(call[a]))]
                         \/ UNCHANGED active
              /\ UNCHANGED clock

\* ctrl+c, a crash or a kill, and the next start: what is in memory is gone.
Quit(a) == /\ Return(a)
           /\ active' = [active EXCEPT ![a] = None]
           /\ UNCHANGED <<files, clock>>

Next == \E a \in Apps : \/ \E u \in {"unlock", "sync"}, o \in Owners : Start(a, u, o)
                        \/ List(a) \/ Read(a) \/ NothingFound(a)
                        \/ Fetch(a) \/ Persist(a) \/ Quit(a)

Spec == Init /\ [][Next]_vars

-----------------------------------------------------------------------------
(* Whatever the processes interleave, a refresh replaces the snapshot of the server
   and token it ran for, keeps its registered local user, and leaves alone the files
   it could not read: other owners', newer versions', damaged ones. *)
Keeps(f, g) == \/ g = f
               \/ Readable(f) /\ Readable(g) /\ g.owner = f.owner /\ g.user = f.user
NoForeignOverwrite == [][\A i \in Ids : files[i] # None => Keeps(files[i], files'[i])]_vars

(* The snapshot an application has in memory names a file that is on the disk, and
   that belongs to the same server, token and local user. *)
ActiveHasFile ==
  \A a \in Apps : active[a] # None =>
    LET f == files[active[a].id] IN
      Readable(f) /\ f.owner = active[a].owner /\ f.user = active[a].user

(* README: a refresh with the same token replaces its selected-server snapshot, so no
   owner ever has two. *)
OneSnapshotPerOwner ==
  \A i, j \in Ids : files[i] \in Snapshots /\ files[j] \in Snapshots /\ i # j
                    => files[i].owner # files[j].owner

(* One process with reliable reads gives every owner a register: what it opens is
   what the latest refresh of that owner stored, and refreshes never go back. *)
Stored(o) == {files[i].stamp : i \in {j \in Ids : Readable(files[j]) /\ files[j].owner = o}}
Newest(S) == IF S = {} THEN None ELSE CHOOSE s \in S : \A t \in S : t <= s
ShownBy(a) == IF active[a] = None THEN None
              ELSE [owner |-> active[a].owner, stamp |-> active[a].stamp]
Vault == INSTANCE ProtectedVault WITH vault <- [o \in Owners |-> Newest(Stored(o))],
                                      shown <- [a \in Apps |-> ShownBy(a)]
ImplementsVault == Vault!Spec
=============================================================================
