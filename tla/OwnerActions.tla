----------------------------- MODULE OwnerActions -----------------------------
(***************************************************************************)
(* The owner's transactions as one browser tab carries them out            *)
(* (web/src/components/GolApp.tsx, web/src/wallet/owner-actions.ts,        *)
(* web/src/client/live-backend.ts).                                        *)
(*                                                                         *)
(* runOwnerAction takes one action at a time from the wallet's prompt over *)
(* the receipt to a refreshed account, and tells the owner how far it is.  *)
(* Everything it learns it learns late: receipts are waited for, account   *)
(* snapshots overlap with those of other refreshes, a wallet may fail      *)
(* after it has sent, and a reload forgets what was under way.             *)
(***************************************************************************)
EXTENDS Naturals, Sequences, FiniteSets

CONSTANTS
    Kind,        \* the owner's actions, of OwnerActionKind
    Load,        \* refreshes of the account that other parts of the page run
    NoView,      \* no account loaded yet, or no snapshot
    MaxSent,     \* bound on the owner's transactions
    MaxTries,    \* refreshes after a transaction, four in the code
    MaxReloads   \* bound on page reloads

OwnerActionKind == {"create_account", "provision_agent", "fund_agent_gas", "fund_account",
                    "sign_mandate", "revoke_mandate", "withdraw", "aave_action"}

Snapshot == [account: BOOLEAN, linked: BOOLEAN, funds: Nat, active: Nat]

ASSUME KindAssumption == Kind \subseteq OwnerActionKind
ASSUME NoViewAssumption == NoView \notin Snapshot
ASSUME BoundAssumption == MaxSent \in Nat /\ MaxTries \in Nat \ {0} /\ MaxReloads \in Nat

VARIABLES
    chain,    \* the account contract and the account's link, as the server sees them
    sent,     \* the owner's transactions in nonce order; a hash is its index
    view,     \* account: the snapshot the page shows
    loads,    \* the snapshots on their way to other parts of the page
    tx,       \* tx: what the owner is told of the last action
    run,      \* the call of runOwnerAction under way; busy is its kind
    lapsed,   \* history: the page lost sight of a transaction it had not seen settle
    reloads

world == <<chain, sent>>
page == <<view, loads, tx, run>>
vars == <<world, page, lapsed, reloads>>

\* What classifyOwnerError makes of an error, by the words it finds in it.
FailedPhase == {"rejected", "insufficient_gas", "reverted", "failed"}

Phase == {"idle", "awaiting_signature", "submitted", "confirmed"} \cup FailedPhase

NoHash == 0
Quiet == [kind |-> "none", phase |-> "idle", hash |-> NoHash]
Resting == [pc |-> "resting", kind |-> "none", hash |-> NoHash, before |-> NoView,
            seen |-> NoView, tries |-> 0, budget |-> FALSE, funding |-> NoHash]

Init ==
    /\ chain = [account |-> FALSE, linked |-> FALSE, funds |-> 0, active |-> 0, made |-> 0]
    /\ sent = <<>>
    /\ view = NoView
    /\ loads = [l \in Load |-> NoView]
    /\ tx = Quiet
    /\ run = Resting
    /\ lapsed = FALSE
    /\ reloads = 0

-----------------------------------------------------------------------------
(* The chain and the server *)

LoadAccount == [account |-> chain.account, linked |-> chain.linked,
                funds |-> chain.funds, active |-> chain.active]

Pooled == {h \in DOMAIN sent : sent[h].state = "pool"}

\* One wallet sends them all, so nonces keep them in order.
NextUp(h) == h \in Pooled /\ \A g \in Pooled : h <= g

\* It took effect, as it was sent or sped up in the wallet under another hash.
TookEffect(h) == sent[h].state \in {"mined", "resent"}

\* What a transaction does when the contract accepts it.
Effect(t, c) ==
    [account |-> c.account \/ t.kind = "create_account",
     linked |-> c.linked,
     funds |-> CASE t.kind = "fund_account" -> c.funds + 1
                 [] t.kind = "withdraw" -> c.funds - 1
                 [] OTHER -> c.funds,
     active |-> CASE t.kind = "sign_mandate" -> c.made + 1
                  [] t.kind = "revoke_mandate" /\ t.mandate = c.active -> 0
                  [] OTHER -> c.active,
     made |-> IF t.kind = "sign_mandate" THEN c.made + 1 ELSE c.made]

Settle(h, state) ==
    /\ NextUp(h)
    /\ sent' = [sent EXCEPT ![h].state = state]
    /\ UNCHANGED <<page, lapsed, reloads>>

Mine(h) ==
    /\ sent[h].kind = "withdraw" => chain.funds > 0
    /\ \E state \in {"mined", "resent"} : Settle(h, state)
    /\ chain' = Effect(sent[h], chain)

\* It is included and reverts, or another transaction of its nonce is included
\* instead, with success when the owner cancelled it in the wallet, or not.
ComeToNothing(h) ==
    /\ \E state \in {"reverted", "replaced", "replacement_reverted"} : Settle(h, state)
    /\ UNCHANGED chain

AgentPays ==
    /\ chain.active # 0 /\ chain.funds > 0
    /\ chain' = [chain EXCEPT !.funds = @ - 1]
    /\ UNCHANGED <<sent, page, lapsed, reloads>>

-----------------------------------------------------------------------------
(* Refreshes of the account by polls, effects and the refresh button *)

SnapshotTaken(l) ==
    /\ loads[l] = NoView
    /\ loads' = [loads EXCEPT ![l] = LoadAccount]
    /\ UNCHANGED <<world, view, tx, run, lapsed, reloads>>

RefreshAccount(l) ==
    /\ loads[l] # NoView
    /\ view' = loads[l]
    /\ loads' = [loads EXCEPT ![l] = NoView]
    /\ UNCHANGED <<world, tx, run, lapsed, reloads>>

-----------------------------------------------------------------------------
(* Starting an action *)

\* The early returns of the handlers and the conditions of their buttons.
Offered(kind) ==
    \/ kind = "aave_action"
    \/ /\ view # NoView
       /\ \/ kind = "create_account" /\ ~ view.account
          \/ kind \in {"provision_agent", "fund_account"} /\ view.account
          \/ kind \in {"sign_mandate", "fund_agent_gas"} /\ view.account /\ view.linked
          \/ kind = "revoke_mandate" /\ view.active # 0
          \/ kind = "withdraw" /\ view.funds > 0

\* Fault: the buttons come back once the wallet has answered.
BusyInWallet == run.pc \in {"asking", "wallet"}

Busy == run.pc # "resting"

Started(kind, before, budget, funding) ==
    [pc |-> IF kind = "provision_agent" THEN "asking" ELSE "wallet",
     kind |-> kind, hash |-> NoHash, before |-> before, seen |-> NoView,
     tries |-> 0, budget |-> budget, funding |-> funding]

Awaiting(kind) ==
    IF kind = "provision_agent"
    THEN Quiet ELSE [kind |-> kind, phase |-> "awaiting_signature", hash |-> NoHash]

Press(kind, budget) ==
    /\ ~ Busy
    /\ Len(sent) < MaxSent
    /\ Offered(kind)
    /\ run' = Started(kind, view, budget, NoHash)
    /\ tx' = Awaiting(kind)
    /\ UNCHANGED <<world, view, loads, lapsed, reloads>>

RunOwnerAction == \E kind \in Kind : Press(kind, FALSE)

\* Two approvals: funds first, and rules once the account shows the funds.
OnSetPaymentBudget ==
    /\ {"fund_account", "sign_mandate"} \subseteq Kind
    /\ view # NoView /\ view.linked
    /\ Press("fund_account", TRUE)

-----------------------------------------------------------------------------
(* The wallet *)

\* The nonce the wallet gives next.
NextHash == Len(sent) + 1

InPool == [kind |-> run.kind, state |-> "pool", funding |-> run.funding,
           mandate |-> IF run.kind = "revoke_mandate" THEN run.before.active ELSE 0]

Report(phase, hash) == tx' = [kind |-> run.kind, phase |-> phase, hash |-> hash]

\* Fault: the second approval is asked for whatever became of the first.
FinishRegardless ==
    run' = IF run.budget THEN Started("sign_mandate", view, FALSE, run.hash) ELSE Resting

\* The finally of runOwnerAction; the refresh it starts is one of the loads.
Finish == run' = Resting

WalletSends ==
    /\ run.pc = "wallet" /\ Len(sent) < MaxSent
    /\ sent' = Append(sent, InPool)
    /\ run' = [run EXCEPT !.pc = "receipt", !.hash = NextHash]
    /\ Report("submitted", NextHash)
    /\ UNCHANGED <<chain, view, loads, lapsed, reloads>>

\* The owner declines, the simulation fails, or a check before the prompt does.
WalletRefuses ==
    /\ run.pc = "wallet"
    /\ \E phase \in FailedPhase : Report(phase, NoHash)
    /\ Finish
    /\ UNCHANGED <<world, view, loads, lapsed, reloads>>

\* The wallet sends the transaction and fails to say so.
WalletFailsAfterSending ==
    /\ run.pc = "wallet" /\ Len(sent) < MaxSent
    /\ sent' = Append(sent, InPool)
    /\ \E phase \in FailedPhase : Report(phase, NoHash)
    /\ Finish
    /\ lapsed' = TRUE
    /\ UNCHANGED <<chain, view, loads, reloads>>

-----------------------------------------------------------------------------
(* The receipt *)

\* Fault: any receipt will do, whatever its status.
AnyReceipt(h) == sent[h].state # "pool"

\* viem resolves the wait with the receipt of a replacement too; the loop over
\* eth_getTransactionReceipt of an Aave action sees only its own.
Succeeded(h) ==
    sent[h].state \in IF run.kind = "aave_action" THEN {"mined"}
                      ELSE {"mined", "resent", "replaced"}

Reverted(h) ==
    sent[h].state \in IF run.kind = "aave_action" THEN {"reverted"}
                      ELSE {"reverted", "replacement_reverted"}

ReceiptSucceeds ==
    /\ run.pc = "receipt" /\ Succeeded(run.hash)
    /\ Report("confirmed", run.hash)
    /\ run' = [run EXCEPT !.pc = IF run.kind = "create_account" THEN "account" ELSE "refresh"]
    /\ UNCHANGED <<world, view, loads, lapsed, reloads>>

ReceiptReverts ==
    /\ run.pc = "receipt" /\ Reverted(run.hash)
    /\ Report("reverted", run.hash)
    /\ Finish
    /\ UNCHANGED <<world, view, loads, lapsed, reloads>>

\* The page turns away from a transaction that may still be included.
LeavesPending == run.pc = "receipt" /\ sent[run.hash].state = "pool"

StopWaiting ==
    /\ Finish
    /\ lapsed' = (lapsed \/ LeavesPending)
    /\ UNCHANGED <<world, view, loads, reloads>>

\* The wait runs out or the node does not answer, and the words of the error say what
\* is told of the transaction.
WaitFails ==
    /\ run.pc = "receipt" /\ run.kind # "aave_action"
    /\ \E phase \in FailedPhase : Report(phase, run.hash)
    /\ StopWaiting

\* Sixty attempts found no receipt, or one without a status; an error of the node is
\* let through unreported.
AaveWaitFails ==
    /\ run.pc = "receipt" /\ run.kind = "aave_action"
    /\ Report("failed", run.hash) \/ UNCHANGED tx
    /\ StopWaiting

-----------------------------------------------------------------------------
(* After the receipt *)

\* createAccount reads the account back from the factory.
AccountRead ==
    /\ run.pc = "account"
    /\ chain.account
    /\ run' = [run EXCEPT !.pc = "refresh"]
    /\ UNCHANGED <<world, view, loads, tx, lapsed, reloads>>

\* The catch of runOwnerAction: an error nobody reported.
Unreported ==
    tx' = IF tx.phase \in {"idle", "awaiting_signature"}
          THEN [tx EXCEPT !.kind = run.kind, !.phase = "failed"]
          ELSE [tx EXCEPT !.kind = run.kind]

AccountReadFails ==
    /\ run.pc = "account"
    /\ Unreported
    /\ Finish
    /\ UNCHANGED <<world, view, loads, lapsed, reloads>>

\* POST /api/agent/setup, which AccountSetup models, links the account.
ProvisionAgent ==
    /\ run.pc = "asking"
    /\ chain' = [chain EXCEPT !.linked = TRUE]
    /\ run' = [run EXCEPT !.pc = "refresh"]
    /\ UNCHANGED <<sent, view, loads, tx, lapsed, reloads>>

ProvisionFails ==
    /\ run.pc = "asking"
    /\ \E linked \in {chain.linked, TRUE} : chain' = [chain EXCEPT !.linked = linked]
    /\ Unreported
    /\ Finish
    /\ UNCHANGED <<sent, view, loads, lapsed, reloads>>

SnapshotForRun ==
    /\ run.pc = "refresh" /\ run.seen = NoView
    /\ run' = [run EXCEPT !.seen = LoadAccount]
    /\ UNCHANGED <<world, view, loads, tx, lapsed, reloads>>

\* ownerActionStateConverged.  The agent's fee balance is not modelled: a top-up
\* may show in it or not.
Converged(kind, before, after) ==
    CASE after = NoView -> {FALSE}
      [] kind = "fund_agent_gas" -> BOOLEAN
      [] kind = "provision_agent" -> {after.linked}
      [] kind = "revoke_mandate" -> {after.active = 0}
      [] kind = "aave_action" \/ before = NoView -> {TRUE}
      [] kind = "create_account" -> {after.account # before.account}
      [] kind = "sign_mandate" -> {after.active \notin {0, before.active}}
      [] OTHER -> {after.funds # before.funds}

\* Fault: one refresh too many.
ContinueOnceMore(after) ==
    \E converged \in Converged(run.kind, run.before, after) :
        \/ /\ converged \/ run.tries = MaxTries
           /\ Finish
        \/ /\ ~ converged /\ run.tries < MaxTries
           /\ run' = [run EXCEPT !.tries = @ + 1, !.seen = NoView]
    /\ UNCHANGED tx

\* What follows a refresh: more refreshes, the second approval, or rest.  The
\* account the second approval starts from may not have been rendered yet.
Continue(after) ==
    \E converged \in Converged(run.kind, run.before, after) :
        \/ /\ converged /\ run.budget
           /\ \E before \in {view, after} :
                 run' = Started("sign_mandate", before, FALSE, run.hash)
           /\ tx' = Awaiting("sign_mandate")
        \/ /\ converged \/ run.tries + 1 = MaxTries
           /\ ~ (converged /\ run.budget)
           /\ Finish
           /\ UNCHANGED tx
        \/ /\ ~ converged /\ run.tries + 1 < MaxTries
           /\ run' = [run EXCEPT !.tries = @ + 1, !.seen = NoView]
           /\ UNCHANGED tx

RefreshForRun ==
    /\ run.pc = "refresh" /\ run.seen # NoView
    /\ view' = run.seen
    /\ Continue(run.seen)
    /\ UNCHANGED <<world, loads, lapsed, reloads>>

\* refreshAccount falls back to the account shown.
RefreshForRunFails ==
    /\ run.pc = "refresh"
    /\ Continue(view)
    /\ UNCHANGED <<world, view, loads, lapsed, reloads>>

\* The effect that clears a confirmation after four seconds.
ConfirmationFades ==
    /\ tx.phase = "confirmed"
    /\ tx' = Quiet
    /\ UNCHANGED <<world, view, loads, run, lapsed, reloads>>

\* A prompt left open in the wallet may still be approved.
Reload ==
    /\ reloads < MaxReloads
    /\ reloads' = reloads + 1
    /\ \/ UNCHANGED sent
       \/ run.pc = "wallet" /\ Len(sent) < MaxSent /\ sent' = Append(sent, InPool)
    /\ lapsed' = (lapsed \/ run.pc = "wallet" \/ LeavesPending)
    /\ view' = NoView
    /\ loads' = [l \in Load |-> NoView]
    /\ tx' = Quiet
    /\ Finish
    /\ UNCHANGED chain

-----------------------------------------------------------------------------

Next ==
    \/ \E h \in DOMAIN sent : Mine(h) \/ ComeToNothing(h)
    \/ AgentPays
    \/ \E l \in Load : SnapshotTaken(l) \/ RefreshAccount(l)
    \/ RunOwnerAction \/ OnSetPaymentBudget
    \/ WalletSends \/ WalletRefuses \/ WalletFailsAfterSending
    \/ ReceiptSucceeds \/ ReceiptReverts \/ WaitFails \/ AaveWaitFails
    \/ AccountRead \/ AccountReadFails
    \/ ProvisionAgent \/ ProvisionFails
    \/ SnapshotForRun \/ RefreshForRun \/ RefreshForRunFails
    \/ ConfirmationFades
    \/ Reload

Spec == Init /\ [][Next]_vars

-----------------------------------------------------------------------------
(* Correctness *)

Transaction == [kind: Kind \ {"provision_agent"}, funding: Nat, mandate: Nat,
                state: {"pool", "mined", "resent", "reverted", "replaced",
                        "replacement_reverted"}]
ChainState == [account: BOOLEAN, linked: BOOLEAN, funds: Nat, active: Nat, made: Nat]
Loaded == Snapshot \cup {NoView}
TransactionState == [kind: Kind \cup {"none"}, phase: Phase, hash: Nat]
RunState == [pc: {"resting", "asking", "wallet", "receipt", "account", "refresh"},
             kind: Kind \cup {"none"}, hash: Nat, before: Loaded, seen: Loaded,
             tries: 0..(MaxTries - 1), budget: BOOLEAN, funding: Nat]

\* Every variable has its type; whatever is referred to by hash was sent.
TypeOK ==
    /\ chain \in ChainState
    /\ sent \in Seq(Transaction) /\ Len(sent) <= MaxSent
    /\ view \in Loaded
    /\ loads \in [Load -> Loaded]
    /\ tx \in TransactionState
    /\ run \in RunState
    /\ tx.hash <= Len(sent) /\ run.hash <= Len(sent) /\ run.funding <= Len(sent)
    /\ lapsed \in BOOLEAN
    /\ reloads \in 0..MaxReloads

\* The nonce of a transaction was used with success, by itself or by another one.
NonceUsed(h) == TookEffect(h) \/ sent[h].state = "replaced"

\* A confirmation names a transaction of the action it is shown for, whose nonce
\* was used with success.
ConfirmedIsSettled ==
    tx.phase = "confirmed" =>
        /\ tx.hash # NoHash
        /\ sent[tx.hash].kind = tx.kind
        /\ NonceUsed(tx.hash)

\* No snapshot, shown or on its way, is ahead of the chain: a setup step is never
\* shown complete that was not.
SnapshotsAreOfThePast ==
    \A s \in ({view, run.seen} \cup {loads[l] : l \in Load}) \ {NoView} :
        /\ s.account => chain.account
        /\ s.linked => chain.linked
        /\ s.active <= chain.made

\* Nothing is shown ahead of the chain, whichever receipts, fading confirmations,
\* refreshes and reloads it is shown between: no confirmation of an action that is
\* pending or reverted, no setup step that is not done (stages.ts:119-128).  It does
\* not say that a confirmed action took effect: the owner may have cancelled it in
\* the wallet, and the wait ends with the receipt of what replaced it.  Nor does it
\* speak of failures.
NothingShownAhead == ConfirmedIsSettled /\ SnapshotsAreOfThePast

\* As long as the page lost sight of no pending transaction, none is pending but
\* the one it is waiting for: no two actions of one tab overlap (busy,
\* GolApp.tsx:584).  A wait that ends early frees the page, and the action can then
\* be sent a second time.
LoneSubmission == ~ lapsed => \A h \in Pooled : run.pc = "receipt" /\ h = run.hash

\* The second approval of a budget is asked for only when the nonce of the first
\* was used with success, never on the strength of a transfer that is pending or
\* reverted.  It does not say that the funds were added: a transfer cancelled in the
\* wallet counts, if the account shows another balance for whatever reason.
RulesAwaitFirstApproval ==
    /\ run.funding # NoHash => NonceUsed(run.funding)
    /\ \A h \in DOMAIN sent : sent[h].funding # NoHash =>
          /\ sent[h].kind = "sign_mandate"
          /\ sent[sent[h].funding].kind = "fund_account"
          /\ NonceUsed(sent[h].funding)

=============================================================================
