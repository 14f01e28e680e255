----------------------------- MODULE GolEvidence -----------------------------
(***************************************************************************)
(* What the contract's records, its mandates' totals, the token's balances *)
(* and the index of its log must agree on.                                 *)
(***************************************************************************)
EXTENDS Subgraph, FiniteSetsExt

\* A request id is a bytes32.
ASSUME RequestIdAssumption == IsFiniteSet(RequestId)

Attempted(records, K) == MapThenSumSet(LAMBDA k : records[k].attempted, K)

ExecutedOf(records, m) ==
    {k \in {m} \X RequestId : records[k].outcome = "EXECUTED"}

PaidTo(records, a) ==
    {k \in RequestKey : records[k].outcome = "EXECUTED" /\ records[k].recipient = a}

\* The addresses whose USDC comes from the account's payments alone.
Outsider == Addr \ {Owner, Self, Faucet}

SpentIsTotal(ms, records) ==
    \A m \in MandateId : ms[m].spent = Attempted(records, ExecutedOf(records, m))

ValueIsRecorded(held, records) ==
    \A a \in Outsider : held[a] = Attempted(records, PaidTo(records, a))

EntityOf(mandate) ==
    [exists |-> mandate.exists, revoked |-> mandate.revoked, spent |-> mandate.spent]

ActionsOf(store, k) == {i \in DOMAIN store.action : KeyOf(store.action[i]) = k}

IndexAgrees(store, ms, records) ==
    /\ \A m \in MandateId : store.mandate[m] = EntityOf(ms[m])
    /\ \A k \in RequestKey :
          /\ ActionsOf(store, k) = {} <=> records[k].outcome = "UNSEEN"
          /\ \A i \in ActionsOf(store, k) :
                /\ ActionsOf(store, k) = {i}
                /\ store.action[i].record = records[k]
                /\ store.action[i].transferred =
                       IF records[k].outcome = "EXECUTED"
                       THEN records[k].attempted ELSE 0

-----------------------------------------------------------------------------
\* mandate.spent is the total of the mandate's executed payments, also while a
\* transfer is open: a payment is never charged twice nor forgotten.
SpentIsExecutedTotal == SpentIsTotal(mandates, requests)

\* Between transactions every payee holds exactly what the executed records say
\* it was paid (invariant_ExecutedValueEqualsRecipientDelta): no record without
\* its transfer, no transfer without its record.
ValueFollowsEvidence == frames = <<>> => ValueIsRecorded(balance, requests)

\* The index that has caught up agrees with the contract on every mandate, also
\* after replacements and undone transfers, and holds one action per settled
\* record, worth what was transferred for it: replaying each event's own total
\* loses nothing although no handler adds anything up.
IndexMatchesContract ==
    frames = <<>> => IndexAgrees(Index(log), mandates, requests)

=============================================================================
