-------------------------- MODULE MCSyncReportsFlow --------------------------
(* SyncReportsFlow with two servers; the tokens and the attempts are exchangeable. *)
EXTENDS SyncReportsFlow, TLC

FlowSymmetry == Permutations(Tokens) \cup Permutations(Attempts)
=============================================================================
