---------------------------- MODULE MCPrivyWorker -----------------------------
(***************************************************************************)
(* Small instances of PrivyWorker for TLC.                                 *)
(***************************************************************************)
EXTENDS PrivyWorker

=============================================================================
