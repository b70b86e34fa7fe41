--------------------------- MODULE MCReportOutput ---------------------------
(* ReportOutput with a few attempts in a folder that may hold older reports. *)
EXTENDS ReportOutput, TLC

AttemptSymmetry == Permutations(Attempts)
=============================================================================
