--------------------------- MODULE MCFileReplace ---------------------------
(* FileReplace on small instances: see the FileReplace*.cfg files. *)
EXTENDS FileReplace
=============================================================================
