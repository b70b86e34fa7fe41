---------------------------- MODULE AtomicReplace ----------------------------
(***************************************************************************)
(* What replacing one file atomically promises its callers, with no word   *)
(* about temporary files, renames or permissions.  Writers replace the     *)
(* value of one path.  A call takes effect at a single instant between its *)
(* invocation and its return; a call that reports success has taken        *)
(* effect; a call that fails, or dies with its process, may or may not     *)
(* have.  A power loss brings back a value the path held when the          *)
(* directory last reached the disk, never anything else.                   *)
(***************************************************************************)
CONSTANTS Writers,      \* the calls that may run at the same time
          Contents,     \* what a caller may ask to store
          Absent        \* what a reader finds where there is no file

VARIABLES value,        \* what a reader of the path sees now
          stable,       \* what a reader would see after a power loss
          call,         \* call[w]: "idle", "pending" or "installed"
          new,          \* new[w]: what w's latest call asked to store
          last          \* last[w]: what w's latest call reported

vars == <<value, stable, call, new, last>>

Init == /\ value \in Contents \cup {Absent}
        /\ stable = value
        /\ call = [w \in Writers |-> "idle"]
        /\ new \in [Writers -> Contents]
        /\ last = [w \in Writers |-> "none"]

Begin(w, c) == /\ call[w] = "idle"
               /\ call' = [call EXCEPT ![w] = "pending"]
               /\ new' = [new EXCEPT ![w] = c]
               /\ last' = [last EXCEPT ![w] = "none"]
               /\ UNCHANGED <<value, stable>>

Install(w) == /\ call[w] = "pending"
              /\ call' = [call EXCEPT ![w] = "installed"]
              /\ value' = new[w]
              /\ UNCHANGED <<stable, new, last>>

Succeed(w) == /\ call[w] = "installed"
              /\ call' = [call EXCEPT ![w] = "idle"]
              /\ last' = [last EXCEPT ![w] = "ok"]
              /\ UNCHANGED <<value, stable, new>>

Fail(w) == /\ call[w] # "idle"
           /\ call' = [call EXCEPT ![w] = "idle"]
           /\ last' = [last EXCEPT ![w] = "failed"]
           /\ UNCHANGED <<value, stable, new>>

Die(w) == /\ call[w] # "idle"
          /\ call' = [call EXCEPT ![w] = "idle"]
          /\ UNCHANGED <<value, stable, new, last>>

Flush == /\ stable' = value
         /\ UNCHANGED <<value, call, new, last>>

PowerLoss == /\ value' = stable
             /\ call' = [w \in Writers |-> "idle"]
             /\ UNCHANGED <<stable, new, last>>

Next == \/ \E w \in Writers : \/ \E c \in Contents : Begin(w, c)
                              \/ Install(w) \/ Succeed(w) \/ Fail(w) \/ Die(w)
        \/ Flush
        \/ PowerLoss

Spec == Init /\ [][Next]_vars
=============================================================================
