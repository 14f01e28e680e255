---------------------------- MODULE MCOwnerActions ----------------------------
(***************************************************************************)
(* A small instance of OwnerActions for TLC.                               *)
(***************************************************************************)
EXTENDS OwnerActions

=============================================================================
