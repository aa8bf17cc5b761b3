----------------------------- MODULE MCTaskFile -----------------------------
(* Instances of TaskFile for TLC. *)
EXTENDS TaskFile
=============================================================================
