----------------------------- MODULE PaymentTypes -----------------------------
(***************************************************************************)
(* What the journal, the worker and the network all speak of: payment      *)
(* requests and the signed transactions made for them.                     *)
(***************************************************************************)
EXTENDS Integers, FiniteSets

CONSTANTS
    Request,        \* request ids, all of accounts that share one agent key
    MaxSignatures,  \* bound on the signatures made for one request
    NoTx            \* no signed transaction

ASSUME RequestAssumption == IsFiniteSet(Request)
ASSUME SignatureAssumption == MaxSignatures \in Nat \ {0}

\* Signing the same payload twice gives two transactions: the KMS picks a fresh
\* ECDSA nonce, so the bytes and the hash differ.
Tx == [req: Request, nonce: Nat, sig: 1..MaxSignatures]

ASSUME NoTxAssumption == NoTx \notin Tx

=============================================================================
