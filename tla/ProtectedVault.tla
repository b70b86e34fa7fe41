---------------------------- MODULE ProtectedVault ----------------------------
(***************************************************************************)
(* What the protected snapshots promise their users, without files,        *)
(* identifiers or discovery: one register per owner (a Ghostfolio server   *)
(* and a security token), which only ever moves to newer data, and which   *)
(* an application shows exactly as it stands when it opens it.             *)
(***************************************************************************)
EXTENDS Integers

CONSTANTS Apps, Owners, Stamps, None

VARIABLES vault,    \* vault[o]: the stamp of the data stored for o, or None
          shown     \* shown[a]: the owner and stamp app a has in memory, or None

vars == <<vault, shown>>

Init == /\ vault \in [Owners -> Stamps \cup {None}]
        /\ shown = [a \in Apps |-> None]

\* A refresh: it replaces the owner's data and no other's.  The app that ran it may
\* fail to notice that it was stored (a failure reported after the write, or a crash).
Store(a, o, s) == /\ vault[o] = None \/ vault[o] < s
                  /\ vault' = [vault EXCEPT ![o] = s]
                  /\ \/ shown' = [shown EXCEPT ![a] = [owner |-> o, stamp |-> s]]
                     \/ UNCHANGED shown

Open(a, o) == /\ vault[o] # None
              /\ shown' = [shown EXCEPT ![a] = [owner |-> o, stamp |-> vault[o]]]
              /\ UNCHANGED vault

Close(a) == /\ shown' = [shown EXCEPT ![a] = None]
            /\ UNCHANGED vault

Next == \E a \in Apps : \/ Close(a)
                        \/ \E o \in Owners : \/ Open(a, o)
                                             \/ \E s \in Stamps : Store(a, o, s)

Spec == Init /\ [][Next]_vars
=============================================================================
