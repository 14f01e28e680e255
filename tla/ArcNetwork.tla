------------------------------ MODULE ArcNetwork ------------------------------
(***************************************************************************)
(* Arc as the payment worker sees it through agent/src/payment/            *)
(* viem-chain.ts: one agent key, its transactions waiting for inclusion,   *)
(* and the included ones in nonce order.  Inclusion is final.              *)
(*                                                                         *)
(* `sent' keeps every transaction a worker ever handed to an RPC node: a   *)
(* signed transaction is a bearer artifact, so once sent it may be         *)
(* included at any later time.                                             *)
(***************************************************************************)
EXTENDS PaymentTypes, Sequences

VARIABLES
    sent,       \* transactions ever handed to a node
    waiting,    \* transactions the nodes currently hold
    mined,      \* included transactions with their receipt status, by nonce
    outcome     \* the account contract's record of each request

arcVars == <<sent, waiting, mined, outcome>>

Receipt == [tx: Tx, status: {"success", "reverted"}]
Outcome == {"UNSEEN", "EXECUTED", "REFUSED"}

ArcInit ==
    /\ sent = {}
    /\ waiting = {}
    /\ mined = <<>>
    /\ outcome = [r \in Request |-> "UNSEEN"]

\* eth_getTransactionCount at "latest".
LatestNonce == Len(mined)

IsMined(tx) == \E i \in 1..Len(mined) : mined[i].tx = tx
Reverted(tx) == \E i \in 1..Len(mined) :
                    mined[i].tx = tx /\ mined[i].status = "reverted"

\* eth_getTransactionCount at "pending": the first nonce after the run of
\* waiting transactions that starts at the latest nonce.  A set of one.
PendingNonces ==
    {n \in {LatestNonce} \cup {tx.nonce + 1 : tx \in waiting} :
        /\ n >= LatestNonce
        /\ \A tx \in waiting : tx.nonce # n
        /\ \A k \in LatestNonce..(n - 1) : \E tx \in waiting : tx.nonce = k}

\* How a node answers eth_sendRawTransaction.  A second transaction under a
\* waiting nonce is "replacement underpriced": fees are capped, never raised.
AlreadyKnown(tx) == tx \in waiting \/ IsMined(tx)
NonceTooLow(tx) == tx.nonce < LatestNonce
Underpriced(tx) == \E other \in waiting : other # tx /\ other.nonce = tx.nonce
Admits(tx) == ~ NonceTooLow(tx) /\ ~ Underpriced(tx)

\* The node takes the transaction, or already has it.
Accept(tx) ==
    /\ AlreadyKnown(tx) \/ Admits(tx)
    /\ sent' = sent \cup {tx}
    /\ waiting' = IF IsMined(tx) THEN waiting ELSE waiting \cup {tx}
    /\ UNCHANGED <<mined, outcome>>

\* The transaction left the worker but no usable answer came back: it may or
\* may not have reached a node.
Lose(tx) ==
    /\ sent' = sent \cup {tx}
    /\ \/ waiting' = waiting
       \/ Admits(tx) /\ waiting' = waiting \cup {tx}
    /\ UNCHANGED <<mined, outcome>>

\* The node refuses the nonce.
RefuseNonce(tx) ==
    /\ NonceTooLow(tx)
    /\ sent' = sent \cup {tx}
    /\ UNCHANGED <<waiting, mined, outcome>>

\* Inclusion of the next nonce.  pay answers a recorded request from its record;
\* otherwise it executes, refuses, or reverts (GolAccount!Pay).
Include(tx) ==
    /\ tx \in waiting
    /\ tx.nonce = LatestNonce
    /\ waiting' = {other \in waiting : other.nonce # tx.nonce}
    /\ \/ /\ outcome[tx.req] # "UNSEEN"
          /\ mined' = Append(mined, [tx |-> tx, status |-> "success"])
          /\ outcome' = outcome
       \/ /\ outcome[tx.req] = "UNSEEN"
          /\ mined' = Append(mined, [tx |-> tx, status |-> "success"])
          /\ \E o \in Outcome \ {"UNSEEN"} : outcome' = [outcome EXCEPT ![tx.req] = o]
       \/ /\ mined' = Append(mined, [tx |-> tx, status |-> "reverted"])
          /\ outcome' = outcome
    /\ UNCHANGED sent

\* A node may drop a waiting transaction.
Drop(tx) ==
    /\ tx \in waiting
    /\ waiting' = waiting \ {tx}
    /\ UNCHANGED <<sent, mined, outcome>>

=============================================================================
