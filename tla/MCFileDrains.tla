---------------------------- MODULE MCFileDrains ----------------------------
(* Model values for FileDrains: those of FileIngestion. *)
EXTENDS FileDrains, MCFileIngestion

=============================================================================
