---------------------------- MODULE MCAccountSetup ----------------------------
(***************************************************************************)
(* A small instance of AccountSetup for TLC.                               *)
(***************************************************************************)
EXTENDS AccountSetup, TLC

CONSTANTS o1, o2,   \* owners' wallets
          l1, l2    \* logins

\* One login has two wallets, and shares one of them with the other login.
SharedWallet == l1 :> {o1, o2} @@ l2 :> {o1}

=============================================================================
