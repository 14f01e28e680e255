----------------------------- MODULE MCClientView -----------------------------
(***************************************************************************)
(* Small instances of ClientView for TLC.                                  *)
(***************************************************************************)
EXTENDS ClientView, TLC

\* Requests and the places for activity requests differ only by name.
Symmetry == Permutations(Request) \cup Permutations(Fetch)

=============================================================================
