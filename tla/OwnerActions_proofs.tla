-------------------------- MODULE OwnerActions_proofs --------------------------
(***************************************************************************)
(* Proofs about OwnerActions, for any number of transactions, refreshes    *)
(* and reloads.                                                            *)
(*                                                                         *)
(* What the page knows is carried by run: the transaction it waits for is  *)
(* the one it sent for this action, and from the receipt on its place in   *)
(* the chain is taken.  Settled transactions stay settled, so what was     *)
(* concluded from a receipt remains true however late it is used.          *)
(***************************************************************************)
EXTENDS OwnerActions, TLAPS

Included == {"mined", "resent", "replaced"}

\* The action under way is what the page takes it for.
RunSound ==
    /\ run.pc # "resting" => run.kind \in Kind
    /\ run.kind = "provision_agent" => run.pc \in {"asking", "refresh"}
    /\ run.pc = "asking" => run.kind = "provision_agent" /\ tx = Quiet
    /\ run.pc = "receipt" => /\ run.hash # NoHash
                             /\ sent[run.hash].kind = run.kind
    /\ run.pc \in {"account", "refresh"} /\ run.kind # "provision_agent" =>
           /\ run.hash # NoHash
           /\ sent[run.hash].kind = run.kind
           /\ sent[run.hash].state \in Included
    /\ run.pc = "account" => tx = Quiet \/ (tx.phase = "confirmed" /\ tx.hash = run.hash)
    /\ run.kind = "revoke_mandate" => run.before # NoView
    /\ run.budget => /\ run.kind = "fund_account"
                     /\ "sign_mandate" \in Kind
    /\ run.funding # NoHash => /\ run.kind = "sign_mandate"
                               /\ sent[run.funding].kind = "fund_account"

\* Rules refer to the transfer that was sent before them.
FundingSound == \A h \in DOMAIN sent : sent[h].funding \in {NoHash} \cup DOMAIN sent

SentType == sent \in Seq(Transaction) /\ Len(sent) <= MaxSent
HashesSent == tx.hash <= Len(sent) /\ run.hash <= Len(sent) /\ run.funding <= Len(sent)
LoadsType == view \in Loaded /\ loads \in [Load -> Loaded]
HistoryType == lapsed \in BOOLEAN /\ reloads \in 0..MaxReloads

ChainSound == chain.active <= chain.made

IInv == /\ TypeOK
        /\ ChainSound
        /\ RunSound
        /\ FundingSound
        /\ NothingShownAhead
        /\ LoneSubmission
        /\ RulesAwaitFirstApproval

USE KindAssumption, BoundAssumption, NoViewAssumption

-----------------------------------------------------------------------------
(* The parts of a step *)

LEMMA TypeParts ==
    ASSUME chain \in ChainState, SentType, LoadsType, tx \in TransactionState,
           run \in RunState, HashesSent, HistoryType
    PROVE  TypeOK
PROOF BY DEF TypeOK, SentType, LoadsType, HashesSent, HistoryType

LEMMA SentIsFunction ==
    ASSUME TypeOK
    PROVE  /\ DOMAIN sent = 1..Len(sent)
           /\ Len(sent) \in Nat
           /\ \A h \in DOMAIN sent : sent[h] \in Transaction
PROOF BY DEF TypeOK

LEMMA InitialRecords ==
    /\ Resting \in RunState
    /\ Quiet \in TransactionState
PROOF BY DEF Resting, Quiet, RunState, TransactionState, Phase, FailedPhase, NoHash, Loaded

\* What the wallet sends is added at the end.
LEMMA Sending ==
    ASSUME TypeOK, RunSound, run.pc = "wallet", Len(sent) < MaxSent,
           sent' = Append(sent, InPool)
    PROVE  /\ SentType'
           /\ Len(sent') = Len(sent) + 1
           /\ DOMAIN sent' = 1..(Len(sent) + 1)
           /\ \A h \in DOMAIN sent : sent'[h] = sent[h]
           /\ sent'[NextHash] = InPool
           /\ NextHash = Len(sent) + 1
           /\ InPool.kind = run.kind /\ InPool.state = "pool" /\ InPool.funding = run.funding
PROOF
<1>1. InPool \in Transaction
    <2>1. run.kind \in Kind \ {"provision_agent"}
          BY DEF RunSound
    <2>2. run.funding \in Nat
          BY DEF TypeOK, RunState
    <2>3. run.kind = "revoke_mandate" => run.before.active \in Nat
          BY DEF TypeOK, RunState, RunSound, Loaded, Snapshot
    <2> QED BY <2>1, <2>2, <2>3 DEF InPool, Transaction
<1>2. Len(sent) \in Nat /\ MaxSent \in Nat
      BY SentIsFunction
<1>3. InPool.kind = run.kind /\ InPool.state = "pool" /\ InPool.funding = run.funding
      BY DEF InPool
<1> HIDE DEF InPool
<1>4. /\ sent' \in Seq(Transaction)
      /\ Len(sent') = Len(sent) + 1
      /\ \A h \in DOMAIN sent : sent'[h] = sent[h]
      /\ sent'[Len(sent) + 1] = InPool
      BY <1>1, SentIsFunction DEF TypeOK
<1> QED BY <1>2, <1>3, <1>4 DEF SentType, NextHash

\* A transaction that is added leaves what was known of the others.
LEMMA KnownAfterSending ==
    ASSUME TypeOK, RunSound, FundingSound, RulesAwaitFirstApproval, run.pc = "wallet",
           Len(sent) < MaxSent, sent' = Append(sent, InPool)
    PROVE  /\ FundingSound'
           /\ (run'.funding # NoHash => run'.funding = run.funding) => RulesAwaitFirstApproval'
PROOF
<1>1. /\ DOMAIN sent' = DOMAIN sent \cup {NextHash}
      /\ \A h \in DOMAIN sent : sent'[h] = sent[h]
      /\ sent'[NextHash] = InPool
      /\ InPool.kind = run.kind /\ InPool.funding = run.funding
      BY Sending, SentIsFunction
<1>2. run.funding \in {NoHash} \cup DOMAIN sent
      BY SentIsFunction DEF TypeOK, RunState, NoHash
<1>3. FundingSound'
      BY <1>1, <1>2 DEF FundingSound, NoHash
<1>4. run.funding # NoHash => /\ run.kind = "sign_mandate"
                              /\ sent[run.funding].kind = "fund_account"
      BY DEF RunSound
<1>5. ASSUME run'.funding # NoHash => run'.funding = run.funding
      PROVE  RulesAwaitFirstApproval'
    <2>1. run'.funding # NoHash => sent'[run'.funding].state \in Included
          BY <1>1, <1>2, <1>5 DEF RulesAwaitFirstApproval, NonceUsed, TookEffect, Included
    <2>2. ASSUME NEW h \in DOMAIN sent', sent'[h].funding # NoHash
          PROVE  /\ sent'[h].kind = "sign_mandate"
                 /\ sent'[sent'[h].funding].kind = "fund_account"
                 /\ sent'[sent'[h].funding].state \in Included
        <3>1. CASE h \in DOMAIN sent
              BY <1>1, <2>2, <3>1 DEF RulesAwaitFirstApproval, NonceUsed, TookEffect, FundingSound, Included
        <3>2. CASE h = NextHash
              BY <1>1, <1>2, <1>4, <2>2, <3>2 DEF RulesAwaitFirstApproval, NonceUsed, TookEffect, Included
        <3> QED BY <1>1, <3>1, <3>2
    <2>3. (run.funding # NoHash => NonceUsed(run.funding))'
          BY <2>1 DEF NonceUsed, TookEffect, Included
    <2>4. \A h \in DOMAIN sent' : sent'[h].funding # NoHash =>
             /\ sent'[h].kind = "sign_mandate"
             /\ sent'[sent'[h].funding].kind = "fund_account"
             /\ NonceUsed(sent[h].funding)'
          BY <2>2 DEF NonceUsed, TookEffect, Included
    <2> QED BY <2>3, <2>4 DEF RulesAwaitFirstApproval
<1> QED BY <1>3, <1>5

\* A transaction that settles was pending, so nothing concluded from a receipt changes.
LEMMA Settling ==
    ASSUME IInv, NEW h \in DOMAIN sent, NEW state \in {"mined", "resent", "reverted", "replaced", "replacement_reverted"},
           Settle(h, state)
    PROVE  /\ SentType' /\ DOMAIN sent' = DOMAIN sent /\ Len(sent') = Len(sent)
           /\ \A g \in DOMAIN sent :
                 /\ sent'[g].kind = sent[g].kind
                 /\ sent'[g].funding = sent[g].funding
                 /\ sent[g].state # "pool" => sent'[g].state = sent[g].state
                 /\ sent'[g].state = "pool" => sent[g].state = "pool"
PROOF
<1>1. sent[h] \in Transaction /\ DOMAIN sent = 1..Len(sent)
      BY SentIsFunction DEF IInv
<1>2. sent' = [sent EXCEPT ![h].state = state]
      BY DEF Settle
<1>3. [sent[h] EXCEPT !.state = state] \in Transaction
      BY <1>1 DEF Transaction
<1>4. sent' \in Seq(Transaction) /\ Len(sent') = Len(sent) /\ DOMAIN sent' = DOMAIN sent
      BY <1>1, <1>2, <1>3 DEF IInv, TypeOK
<1>5. sent[h].state = "pool"
      BY DEF Settle, NextUp, Pooled
<1>6. \A g \in DOMAIN sent : sent'[g] = IF g = h THEN [sent[h] EXCEPT !.state = state]
                                                 ELSE sent[g]
      BY <1>2
<1> QED BY <1>1, <1>4, <1>5, <1>6 DEF SentType, IInv, TypeOK, Transaction

\* Whatever a transaction does, mandates are only added and accounts stay.
LEMMA Effects ==
    ASSUME TypeOK, ChainSound, NEW t \in Transaction,
           t.kind = "withdraw" => chain.funds > 0, chain' = Effect(t, chain)
    PROVE  /\ chain' \in ChainState
           /\ ChainSound'
           /\ chain.account => chain'.account
           /\ chain.linked => chain'.linked
           /\ chain'.made >= chain.made
PROOF
<1> USE DEF TypeOK, ChainSound, ChainState, Effect
<1>1. chain'.funds \in Nat
      OBVIOUS
<1>2. chain'.active \in Nat /\ chain'.made \in Nat /\ chain'.active <= chain'.made
      OBVIOUS
<1>3. chain'.account \in BOOLEAN /\ chain'.linked \in BOOLEAN
      OBVIOUS
<1> QED BY <1>1, <1>2, <1>3

\* The world moving on disturbs nothing the page holds.
LEMMA WorldMoves ==
    ASSUME IInv, UNCHANGED <<page, lapsed, reloads>>,
           SentType', DOMAIN sent' = DOMAIN sent, Len(sent') = Len(sent),
           \A g \in DOMAIN sent :
              /\ sent'[g].kind = sent[g].kind
              /\ sent'[g].funding = sent[g].funding
              /\ sent[g].state # "pool" => sent'[g].state = sent[g].state
              /\ sent'[g].state = "pool" => sent[g].state = "pool",
           chain' \in ChainState, ChainSound',
           chain.account => chain'.account, chain.linked => chain'.linked,
           chain'.made >= chain.made
    PROVE  IInv'
PROOF
<1> USE DEF page
<1>1. TypeOK'
      BY DEF IInv, TypeOK, SentType
<1>2. run.hash \in {NoHash} \cup DOMAIN sent /\ run.funding \in {NoHash} \cup DOMAIN sent
      /\ tx.hash \in {NoHash} \cup DOMAIN sent
      BY SentIsFunction DEF IInv, TypeOK, RunState, TransactionState, NoHash
<1>3. RunSound'
      BY <1>2 DEF IInv, RunSound, Included
<1>4. FundingSound'
      BY DEF IInv, FundingSound
<1>5. NothingShownAhead'
    <2>1. ConfirmedIsSettled'
          BY <1>2 DEF IInv, NothingShownAhead, ConfirmedIsSettled, NonceUsed, TookEffect
    <2>3. SnapshotsAreOfThePast'
        <3>1. \A s \in ({view, run.seen} \cup {loads[l] : l \in Load}) \ {NoView} : s \in Snapshot
              BY DEF IInv, TypeOK, RunState, Loaded
        <3> QED BY <3>1 DEF IInv, TypeOK, NothingShownAhead, SnapshotsAreOfThePast, Snapshot,
                            ChainState
    <2> QED BY <2>1, <2>3 DEF NothingShownAhead
<1>6. LoneSubmission'
      BY DEF IInv, LoneSubmission, Pooled
<1>7. RulesAwaitFirstApproval'
    <2>1. (run.funding # NoHash => sent[run.funding].state \in Included)'
          BY <1>2 DEF IInv, RulesAwaitFirstApproval, NonceUsed, TookEffect, Included, NoHash
    <2>2. ASSUME NEW h \in DOMAIN sent, sent'[h].funding # NoHash
          PROVE  /\ sent'[h].kind = "sign_mandate"
                 /\ sent'[sent'[h].funding].kind = "fund_account"
                 /\ sent'[sent'[h].funding].state \in Included
        <3>1. sent[h].funding = sent'[h].funding /\ sent[h].kind = sent'[h].kind
              BY <2>2
        <3>2. sent[h].funding \in DOMAIN sent
              BY <2>2, <3>1 DEF IInv, FundingSound
        <3>3. /\ sent[h].kind = "sign_mandate"
              /\ sent[sent[h].funding].kind = "fund_account"
              /\ sent[sent[h].funding].state \in Included
              BY <2>2, <3>1 DEF IInv, RulesAwaitFirstApproval, NonceUsed, TookEffect, Included
        <3> QED BY <3>1, <3>2, <3>3 DEF Included
    <2> QED BY <2>1, <2>2 DEF RulesAwaitFirstApproval, NonceUsed, TookEffect, Included
<1> QED BY <1>1, <1>3, <1>4, <1>5, <1>6, <1>7 DEF IInv

-----------------------------------------------------------------------------
(* The invariant *)

LEMMA Initially == Init => IInv
PROOF
<1> SUFFICES ASSUME Init PROVE IInv OBVIOUS
<1> USE DEF Init
<1>1. TypeOK
    <2>1. chain \in ChainState
          BY DEF ChainState
    <2>2. SentType /\ HashesSent
          BY DEF SentType, HashesSent, NoHash, Resting, Quiet
    <2>3. NoView \in Loaded
          BY DEF Loaded
    <2>4. LoadsType
          BY <2>3 DEF LoadsType
    <2>5. HistoryType
        <3>1. lapsed \in BOOLEAN
              OBVIOUS
        <3>2. reloads \in 0..MaxReloads
              OBVIOUS
        <3> QED BY <3>1, <3>2 DEF HistoryType
    <2> QED BY <2>1, <2>2, <2>4, <2>5, InitialRecords, TypeParts
<1>2. ChainSound /\ RunSound /\ FundingSound
      BY DEF ChainSound, RunSound, FundingSound, Resting, NoHash
<1>3. NothingShownAhead
      BY DEF NothingShownAhead, ConfirmedIsSettled, NonceUsed, TookEffect,
             SnapshotsAreOfThePast, Quiet, Resting
<1>4. LoneSubmission /\ RulesAwaitFirstApproval
      BY DEF LoneSubmission, Pooled, RulesAwaitFirstApproval, NonceUsed, TookEffect, Resting
<1> QED BY <1>1, <1>2, <1>3, <1>4 DEF IInv

\* What the chain says of the account is no further than the chain.
LEMMA SnapshotNow ==
    ASSUME TypeOK, ChainSound
    PROVE  /\ LoadAccount \in Snapshot
           /\ LoadAccount # NoView
           /\ LoadAccount.account => chain.account
           /\ LoadAccount.linked => chain.linked
           /\ LoadAccount.active <= chain.made
PROOF BY DEF TypeOK, ChainSound, LoadAccount, Snapshot, ChainState

\* The three ways a refresh goes on.
LEMMA Continuing ==
    ASSUME TypeOK, NEW after, Continue(after)
    PROVE  \/ /\ run.budget
              /\ \E before \in {view, after} :
                    run' = Started("sign_mandate", before, FALSE, run.hash)
              /\ tx' = Awaiting("sign_mandate")
           \/ /\ run' = Resting
              /\ tx' = tx
           \/ /\ run.tries + 1 < MaxTries
              /\ run' = [run EXCEPT !.tries = @ + 1, !.seen = NoView]
              /\ tx' = tx
PROOF BY DEF Continue, Finish

\* A page that starts waiting or rests says nothing false about the chain.
LEMMA StartedRecords ==
    ASSUME NEW kind \in Kind, NEW before \in Loaded, NEW budget \in BOOLEAN,
           NEW funding \in Nat
    PROVE  /\ Started(kind, before, budget, funding) \in RunState
           /\ Started(kind, before, budget, funding).pc =
                  (IF kind = "provision_agent" THEN "asking" ELSE "wallet")
           /\ Started(kind, before, budget, funding).kind = kind
           /\ Started(kind, before, budget, funding).hash = NoHash
           /\ Started(kind, before, budget, funding).before = before
           /\ Started(kind, before, budget, funding).seen = NoView
           /\ Started(kind, before, budget, funding).budget = budget
           /\ Started(kind, before, budget, funding).funding = funding
           /\ Awaiting(kind) \in TransactionState
           /\ Awaiting(kind).hash = NoHash
           /\ Awaiting(kind).phase \in {"idle", "awaiting_signature"}
           /\ kind = "provision_agent" => Awaiting(kind) = Quiet
PROOF
<1> NoView \in Loaded
    BY DEF Loaded
<1>2. Started(kind, before, budget, funding) \in RunState
      BY DEF Started, RunState, NoHash
<1>3. /\ Awaiting(kind) \in TransactionState
      /\ Awaiting(kind).hash = NoHash
      /\ Awaiting(kind).phase \in {"idle", "awaiting_signature"}
      /\ kind = "provision_agent" => Awaiting(kind) = Quiet
      BY DEF Awaiting, Quiet, TransactionState, Phase, FailedPhase, NoHash
<1> QED BY <1>2, <1>3 DEF Started

\* The steps that neither send nor go on to another action.
LEMMA PlainSteps ==
    ASSUME IInv,
           \/ \E l \in Load : SnapshotTaken(l) \/ RefreshAccount(l)
           \/ WalletRefuses
           \/ ReceiptSucceeds \/ ReceiptReverts \/ WaitFails \/ AaveWaitFails
           \/ AccountRead \/ AccountReadFails
           \/ ProvisionAgent \/ ProvisionFails
           \/ SnapshotForRun
           \/ ConfirmationFades
    PROVE  IInv'
PROOF
<1> USE DEF IInv, world
<1>1. ASSUME NEW l \in Load, SnapshotTaken(l) PROVE IInv'
  <2>1. TypeOK'
    <3>1. chain' \in ChainState /\ SentType' /\ HistoryType'
          BY <1>1, SnapshotNow DEF SnapshotTaken, TypeOK, ChainState, SentType, HistoryType
    <3>5. LoadsType'
          BY <1>1, SnapshotNow DEF SnapshotTaken, TypeOK, RunState, LoadsType, Loaded
    <3>2. tx' \in TransactionState
          BY <1>1, SnapshotNow, InitialRecords DEF SnapshotTaken, TypeOK, TransactionState, Phase, FailedPhase, NoHash, RunState
    <3>3. run' \in RunState
          BY <1>1, SnapshotNow, InitialRecords DEF SnapshotTaken, TypeOK, RunState
    <3>4. HashesSent'
          BY <1>1, SnapshotNow, SentIsFunction DEF SnapshotTaken, TypeOK, HashesSent, Quiet, Resting, NoHash
    <3> QED BY <3>1, <3>2, <3>3, <3>4, <3>5
            DEF TypeOK, SentType, LoadsType, HistoryType, HashesSent
  <2>2. ChainSound'
        BY <1>1, SnapshotNow DEF SnapshotTaken, ChainSound
  <2>3. RunSound'
        BY <1>1, SnapshotNow DEF SnapshotTaken, TypeOK, RunSound, RunState, NoHash, Quiet, Resting, Included
  <2>4. FundingSound'
        BY <1>1, SnapshotNow DEF SnapshotTaken, FundingSound
  <2>5. NothingShownAhead'
    <3>1. ConfirmedIsSettled'
          BY <1>1, SnapshotNow DEF SnapshotTaken, TypeOK, RunSound, NothingShownAhead, ConfirmedIsSettled, NonceUsed, TookEffect, NoHash, Quiet, Included
    <3>3. SnapshotsAreOfThePast'
          BY <1>1, SnapshotNow DEF SnapshotTaken, TypeOK, ChainState, NothingShownAhead, SnapshotsAreOfThePast, Resting
    <3> QED BY <3>1, <3>3 DEF NothingShownAhead
  <2>6. LoneSubmission'
        BY <1>1, SnapshotNow DEF SnapshotTaken, LoneSubmission, Pooled, Resting
  <2>7. RulesAwaitFirstApproval'
        BY <1>1, SnapshotNow DEF SnapshotTaken, RulesAwaitFirstApproval, NonceUsed, TookEffect, Resting, NoHash
  <2> QED BY <2>1, <2>2, <2>3, <2>4, <2>5, <2>6, <2>7
<1>2. ASSUME NEW l \in Load, RefreshAccount(l) PROVE IInv'
  <2>1. TypeOK'
    <3>1. chain' \in ChainState /\ SentType' /\ HistoryType'
          BY <1>2 DEF RefreshAccount, TypeOK, ChainState, SentType, HistoryType
    <3>5. LoadsType'
          BY <1>2 DEF RefreshAccount, TypeOK, RunState, LoadsType, Loaded
    <3>2. tx' \in TransactionState
          BY <1>2, InitialRecords DEF RefreshAccount, TypeOK, TransactionState, Phase, FailedPhase, NoHash, RunState
    <3>3. run' \in RunState
          BY <1>2, InitialRecords DEF RefreshAccount, TypeOK, RunState
    <3>4. HashesSent'
          BY <1>2, SentIsFunction DEF RefreshAccount, TypeOK, HashesSent, Quiet, Resting, NoHash
    <3> QED BY <3>1, <3>2, <3>3, <3>4, <3>5
            DEF TypeOK, SentType, LoadsType, HistoryType, HashesSent
  <2>2. ChainSound'
        BY <1>2 DEF RefreshAccount, ChainSound
  <2>3. RunSound'
        BY <1>2 DEF RefreshAccount, TypeOK, RunSound, RunState, NoHash, Quiet, Resting, Included
  <2>4. FundingSound'
        BY <1>2 DEF RefreshAccount, FundingSound
  <2>5. NothingShownAhead'
    <3>1. ConfirmedIsSettled'
          BY <1>2 DEF RefreshAccount, TypeOK, RunSound, NothingShownAhead, ConfirmedIsSettled, NonceUsed, TookEffect, NoHash, Quiet, Included
    <3>3. SnapshotsAreOfThePast'
          BY <1>2 DEF RefreshAccount, TypeOK, ChainState, NothingShownAhead, SnapshotsAreOfThePast, Resting
    <3> QED BY <3>1, <3>3 DEF NothingShownAhead
  <2>6. LoneSubmission'
        BY <1>2 DEF RefreshAccount, LoneSubmission, Pooled, Resting
  <2>7. RulesAwaitFirstApproval'
        BY <1>2 DEF RefreshAccount, RulesAwaitFirstApproval, NonceUsed, TookEffect, Resting, NoHash
  <2> QED BY <2>1, <2>2, <2>3, <2>4, <2>5, <2>6, <2>7
<1>3. ASSUME WalletRefuses PROVE IInv'
  <2>1. TypeOK'
    <3>1. chain' \in ChainState /\ SentType' /\ HistoryType'
          BY <1>3 DEF WalletRefuses, FailedPhase, Report, Finish, TypeOK, ChainState, SentType, HistoryType
    <3>5. LoadsType'
          BY <1>3 DEF WalletRefuses, FailedPhase, Report, Finish, TypeOK, RunState, LoadsType
    <3>2. tx' \in TransactionState
          BY <1>3, InitialRecords DEF WalletRefuses, Report, Finish, TypeOK, TransactionState, Phase, FailedPhase, NoHash, RunState
    <3>3. run' \in RunState
          BY <1>3, InitialRecords DEF WalletRefuses, FailedPhase, Report, Finish, TypeOK, RunState
    <3>4. HashesSent'
          BY <1>3, SentIsFunction DEF WalletRefuses, FailedPhase, Report, Finish, TypeOK, HashesSent, Quiet, Resting, NoHash
    <3> QED BY <3>1, <3>2, <3>3, <3>4, <3>5
            DEF TypeOK, SentType, LoadsType, HistoryType, HashesSent
  <2>2. ChainSound'
        BY <1>3 DEF WalletRefuses, FailedPhase, Report, Finish, ChainSound
  <2>3. RunSound'
        BY <1>3 DEF WalletRefuses, FailedPhase, Report, Finish, TypeOK, RunSound, RunState, NoHash, Quiet, Resting, Included
  <2>4. FundingSound'
        BY <1>3 DEF WalletRefuses, FailedPhase, Report, Finish, FundingSound
  <2>5. NothingShownAhead'
    <3>1. ConfirmedIsSettled'
          BY <1>3 DEF WalletRefuses, FailedPhase, Report, Finish, TypeOK, RunSound, NothingShownAhead, ConfirmedIsSettled, NonceUsed, TookEffect, NoHash, Quiet, Included
    <3>3. SnapshotsAreOfThePast'
          BY <1>3 DEF WalletRefuses, FailedPhase, Report, Finish, TypeOK, ChainState, NothingShownAhead, SnapshotsAreOfThePast, Resting
    <3> QED BY <3>1, <3>3 DEF NothingShownAhead
  <2>6. LoneSubmission'
        BY <1>3 DEF WalletRefuses, FailedPhase, Report, Finish, LoneSubmission, Pooled, Resting
  <2>7. RulesAwaitFirstApproval'
        BY <1>3 DEF WalletRefuses, FailedPhase, Report, Finish, RulesAwaitFirstApproval, NonceUsed, TookEffect, Resting, NoHash
  <2> QED BY <2>1, <2>2, <2>3, <2>4, <2>5, <2>6, <2>7
<1>4. ASSUME ReceiptSucceeds PROVE IInv'
  <2>1. TypeOK'
    <3>1. chain' \in ChainState /\ SentType' /\ HistoryType'
          BY <1>4 DEF ReceiptSucceeds, Succeeded, Report, TypeOK, ChainState, SentType, HistoryType
    <3>5. LoadsType'
          BY <1>4 DEF ReceiptSucceeds, Succeeded, Report, TypeOK, RunState, LoadsType
    <3>2. tx' \in TransactionState
          BY <1>4, InitialRecords DEF ReceiptSucceeds, Succeeded, Report, TypeOK, TransactionState, Phase, FailedPhase, NoHash, RunState
    <3>3. run' \in RunState
          BY <1>4, InitialRecords DEF ReceiptSucceeds, Succeeded, Report, TypeOK, RunState
    <3>4. HashesSent'
          BY <1>4, SentIsFunction DEF ReceiptSucceeds, Succeeded, Report, TypeOK, HashesSent, Quiet, Resting, NoHash
    <3> QED BY <3>1, <3>2, <3>3, <3>4, <3>5
            DEF TypeOK, SentType, LoadsType, HistoryType, HashesSent
  <2>2. ChainSound'
        BY <1>4 DEF ReceiptSucceeds, Succeeded, Report, ChainSound
  <2>3. RunSound'
        BY <1>4 DEF ReceiptSucceeds, Succeeded, Report, TypeOK, RunSound, RunState, NoHash, Quiet, Resting, Included
  <2>4. FundingSound'
        BY <1>4 DEF ReceiptSucceeds, Succeeded, Report, FundingSound
  <2>5. NothingShownAhead'
    <3>1. ConfirmedIsSettled'
          BY <1>4 DEF ReceiptSucceeds, Succeeded, Report, TypeOK, RunSound, NothingShownAhead, ConfirmedIsSettled, NonceUsed, TookEffect, NoHash, Quiet, Included
    <3>3. SnapshotsAreOfThePast'
          BY <1>4 DEF ReceiptSucceeds, Succeeded, Report, TypeOK, ChainState, NothingShownAhead, SnapshotsAreOfThePast, Resting
    <3> QED BY <3>1, <3>3 DEF NothingShownAhead
  <2>6. LoneSubmission'
        BY <1>4 DEF ReceiptSucceeds, Succeeded, Report, LoneSubmission, Pooled, Resting
  <2>7. RulesAwaitFirstApproval'
        BY <1>4 DEF ReceiptSucceeds, Succeeded, Report, RulesAwaitFirstApproval, NonceUsed, TookEffect, Resting, NoHash
  <2> QED BY <2>1, <2>2, <2>3, <2>4, <2>5, <2>6, <2>7
<1>5. ASSUME ReceiptReverts PROVE IInv'
  <2>1. TypeOK'
    <3>1. chain' \in ChainState /\ SentType' /\ HistoryType'
          BY <1>5 DEF ReceiptReverts, Reverted, Report, Finish, TypeOK, ChainState, SentType, HistoryType
    <3>5. LoadsType'
          BY <1>5 DEF ReceiptReverts, Reverted, Report, Finish, TypeOK, RunState, LoadsType
    <3>2. tx' \in TransactionState
          BY <1>5, InitialRecords DEF ReceiptReverts, Reverted, Report, Finish, TypeOK, TransactionState, Phase, FailedPhase, NoHash, RunState
    <3>3. run' \in RunState
          BY <1>5, InitialRecords DEF ReceiptReverts, Reverted, Report, Finish, TypeOK, RunState
    <3>4. HashesSent'
          BY <1>5, SentIsFunction DEF ReceiptReverts, Reverted, Report, Finish, TypeOK, HashesSent, Quiet, Resting, NoHash
    <3> QED BY <3>1, <3>2, <3>3, <3>4, <3>5
            DEF TypeOK, SentType, LoadsType, HistoryType, HashesSent
  <2>2. ChainSound'
        BY <1>5 DEF ReceiptReverts, Reverted, Report, Finish, ChainSound
  <2>3. RunSound'
        BY <1>5 DEF ReceiptReverts, Reverted, Report, Finish, TypeOK, RunSound, RunState, NoHash, Quiet, Resting, Included
  <2>4. FundingSound'
        BY <1>5 DEF ReceiptReverts, Reverted, Report, Finish, FundingSound
  <2>5. NothingShownAhead'
    <3>1. ConfirmedIsSettled'
          BY <1>5 DEF ReceiptReverts, Reverted, Report, Finish, TypeOK, RunSound, NothingShownAhead, ConfirmedIsSettled, NonceUsed, TookEffect, NoHash, Quiet, Included
    <3>3. SnapshotsAreOfThePast'
          BY <1>5 DEF ReceiptReverts, Reverted, Report, Finish, TypeOK, ChainState, NothingShownAhead, SnapshotsAreOfThePast, Resting
    <3> QED BY <3>1, <3>3 DEF NothingShownAhead
  <2>6. LoneSubmission'
        BY <1>5 DEF ReceiptReverts, Reverted, Report, Finish, LoneSubmission, Pooled, Resting
  <2>7. RulesAwaitFirstApproval'
        BY <1>5 DEF ReceiptReverts, Reverted, Report, Finish, RulesAwaitFirstApproval, NonceUsed, TookEffect, Resting, NoHash
  <2> QED BY <2>1, <2>2, <2>3, <2>4, <2>5, <2>6, <2>7
<1>6. ASSUME WaitFails PROVE IInv'
  <2>1. TypeOK'
    <3>1. chain' \in ChainState /\ SentType' /\ HistoryType'
          BY <1>6 DEF WaitFails, StopWaiting, FailedPhase, LeavesPending, Report, Finish, TypeOK, ChainState, SentType, HistoryType
    <3>5. LoadsType'
          BY <1>6 DEF WaitFails, StopWaiting, FailedPhase, LeavesPending, Report, Finish, TypeOK, RunState, LoadsType
    <3>2. tx' \in TransactionState
          BY <1>6, InitialRecords DEF WaitFails, StopWaiting, FailedPhase, LeavesPending, Report, Finish, TypeOK, TransactionState, Phase, FailedPhase, NoHash, RunState
    <3>3. run' \in RunState
          BY <1>6, InitialRecords DEF WaitFails, StopWaiting, FailedPhase, LeavesPending, Report, Finish, TypeOK, RunState
    <3>4. HashesSent'
          BY <1>6, SentIsFunction DEF WaitFails, StopWaiting, FailedPhase, LeavesPending, Report, Finish, TypeOK, HashesSent, Quiet, Resting, NoHash
    <3> QED BY <3>1, <3>2, <3>3, <3>4, <3>5
            DEF TypeOK, SentType, LoadsType, HistoryType, HashesSent
  <2>2. ChainSound'
        BY <1>6 DEF WaitFails, StopWaiting, FailedPhase, LeavesPending, Report, Finish, ChainSound
  <2>3. RunSound'
        BY <1>6 DEF WaitFails, StopWaiting, FailedPhase, LeavesPending, Report, Finish, TypeOK, RunSound, RunState, NoHash, Quiet, Resting, Included
  <2>4. FundingSound'
        BY <1>6 DEF WaitFails, StopWaiting, FailedPhase, LeavesPending, Report, Finish, FundingSound
  <2>5. NothingShownAhead'
    <3>1. ConfirmedIsSettled'
          BY <1>6 DEF WaitFails, StopWaiting, FailedPhase, LeavesPending, Report, Finish, TypeOK, RunSound, NothingShownAhead, ConfirmedIsSettled, NonceUsed, TookEffect, NoHash, Quiet, Included
    <3>3. SnapshotsAreOfThePast'
          BY <1>6 DEF WaitFails, StopWaiting, FailedPhase, LeavesPending, Report, Finish, TypeOK, ChainState, NothingShownAhead, SnapshotsAreOfThePast, Resting
    <3> QED BY <3>1, <3>3 DEF NothingShownAhead
  <2>6. LoneSubmission'
        BY <1>6 DEF WaitFails, StopWaiting, FailedPhase, LeavesPending, Report, Finish, LoneSubmission, Pooled, Resting
  <2>7. RulesAwaitFirstApproval'
        BY <1>6 DEF WaitFails, StopWaiting, FailedPhase, LeavesPending, Report, Finish, RulesAwaitFirstApproval, NonceUsed, TookEffect, Resting, NoHash
  <2> QED BY <2>1, <2>2, <2>3, <2>4, <2>5, <2>6, <2>7
<1>7. ASSUME AccountRead PROVE IInv'
  <2>1. TypeOK'
    <3>1. chain' \in ChainState /\ SentType' /\ HistoryType'
          BY <1>7 DEF AccountRead, TypeOK, ChainState, SentType, HistoryType
    <3>5. LoadsType'
          BY <1>7 DEF AccountRead, TypeOK, RunState, LoadsType
    <3>2. tx' \in TransactionState
          BY <1>7, InitialRecords DEF AccountRead, TypeOK, TransactionState, Phase, FailedPhase, NoHash, RunState
    <3>3. run' \in RunState
          BY <1>7, InitialRecords DEF AccountRead, TypeOK, RunState
    <3>4. HashesSent'
          BY <1>7, SentIsFunction DEF AccountRead, TypeOK, HashesSent, Quiet, Resting, NoHash
    <3> QED BY <3>1, <3>2, <3>3, <3>4, <3>5
            DEF TypeOK, SentType, LoadsType, HistoryType, HashesSent
  <2>2. ChainSound'
        BY <1>7 DEF AccountRead, ChainSound
  <2>3. RunSound'
        BY <1>7 DEF AccountRead, TypeOK, RunSound, RunState, NoHash, Quiet, Resting, Included
  <2>4. FundingSound'
        BY <1>7 DEF AccountRead, FundingSound
  <2>5. NothingShownAhead'
    <3>1. ConfirmedIsSettled'
          BY <1>7 DEF AccountRead, TypeOK, RunSound, NothingShownAhead, ConfirmedIsSettled, NonceUsed, TookEffect, NoHash, Quiet, Included
    <3>3. SnapshotsAreOfThePast'
          BY <1>7 DEF AccountRead, TypeOK, ChainState, NothingShownAhead, SnapshotsAreOfThePast, Resting
    <3> QED BY <3>1, <3>3 DEF NothingShownAhead
  <2>6. LoneSubmission'
        BY <1>7 DEF AccountRead, LoneSubmission, Pooled, Resting
  <2>7. RulesAwaitFirstApproval'
        BY <1>7 DEF AccountRead, RulesAwaitFirstApproval, NonceUsed, TookEffect, Resting, NoHash
  <2> QED BY <2>1, <2>2, <2>3, <2>4, <2>5, <2>6, <2>7
<1>8. ASSUME AccountReadFails PROVE IInv'
  <2>1. TypeOK'
    <3>1. chain' \in ChainState /\ SentType' /\ HistoryType'
          BY <1>8 DEF AccountReadFails, Unreported, Finish, TypeOK, ChainState, SentType, HistoryType
    <3>5. LoadsType'
          BY <1>8 DEF AccountReadFails, Unreported, Finish, TypeOK, RunState, LoadsType
    <3>2. tx' \in TransactionState
          BY <1>8, InitialRecords DEF AccountReadFails, Unreported, Finish, TypeOK, TransactionState, Phase, FailedPhase, NoHash, RunState
    <3>3. run' \in RunState
          BY <1>8, InitialRecords DEF AccountReadFails, Unreported, Finish, TypeOK, RunState
    <3>4. HashesSent'
          BY <1>8, SentIsFunction DEF AccountReadFails, Unreported, Finish, TypeOK, HashesSent, Quiet, Resting, NoHash
    <3> QED BY <3>1, <3>2, <3>3, <3>4, <3>5
            DEF TypeOK, SentType, LoadsType, HistoryType, HashesSent
  <2>2. ChainSound'
        BY <1>8 DEF AccountReadFails, Unreported, Finish, ChainSound
  <2>3. RunSound'
        BY <1>8 DEF AccountReadFails, Unreported, Finish, TypeOK, RunSound, RunState, NoHash, Quiet, Resting, Included
  <2>4. FundingSound'
        BY <1>8 DEF AccountReadFails, Unreported, Finish, FundingSound
  <2>5. NothingShownAhead'
    <3>1. ConfirmedIsSettled'
          BY <1>8 DEF AccountReadFails, Unreported, Finish, TypeOK, RunSound, NothingShownAhead, ConfirmedIsSettled, NonceUsed, TookEffect, NoHash, Quiet, Included
    <3>3. SnapshotsAreOfThePast'
          BY <1>8 DEF AccountReadFails, Unreported, Finish, TypeOK, ChainState, NothingShownAhead, SnapshotsAreOfThePast, Resting
    <3> QED BY <3>1, <3>3 DEF NothingShownAhead
  <2>6. LoneSubmission'
        BY <1>8 DEF AccountReadFails, Unreported, Finish, LoneSubmission, Pooled, Resting
  <2>7. RulesAwaitFirstApproval'
        BY <1>8 DEF AccountReadFails, Unreported, Finish, RulesAwaitFirstApproval, NonceUsed, TookEffect, Resting, NoHash
  <2> QED BY <2>1, <2>2, <2>3, <2>4, <2>5, <2>6, <2>7
<1>9. ASSUME ProvisionAgent PROVE IInv'
  <2>1. TypeOK'
    <3>1. chain' \in ChainState /\ SentType' /\ HistoryType'
          BY <1>9 DEF ProvisionAgent, TypeOK, ChainState, SentType, HistoryType
    <3>5. LoadsType'
          BY <1>9 DEF ProvisionAgent, TypeOK, RunState, LoadsType
    <3>2. tx' \in TransactionState
          BY <1>9, InitialRecords DEF ProvisionAgent, TypeOK, TransactionState, Phase, FailedPhase, NoHash, RunState
    <3>3. run' \in RunState
          BY <1>9, InitialRecords DEF ProvisionAgent, TypeOK, RunState
    <3>4. HashesSent'
          BY <1>9, SentIsFunction DEF ProvisionAgent, TypeOK, HashesSent, Quiet, Resting, NoHash
    <3> QED BY <3>1, <3>2, <3>3, <3>4, <3>5
            DEF TypeOK, SentType, LoadsType, HistoryType, HashesSent
  <2>2. ChainSound'
        BY <1>9 DEF ProvisionAgent, ChainSound
  <2>3. RunSound'
        BY <1>9 DEF ProvisionAgent, TypeOK, RunSound, RunState, NoHash, Quiet, Resting, Included
  <2>4. FundingSound'
        BY <1>9 DEF ProvisionAgent, FundingSound
  <2>5. NothingShownAhead'
    <3>1. ConfirmedIsSettled'
          BY <1>9 DEF ProvisionAgent, TypeOK, RunSound, NothingShownAhead, ConfirmedIsSettled, NonceUsed, TookEffect, NoHash, Quiet, Included
    <3>3. SnapshotsAreOfThePast'
          BY <1>9 DEF ProvisionAgent, TypeOK, ChainState, NothingShownAhead, SnapshotsAreOfThePast, Resting
    <3> QED BY <3>1, <3>3 DEF NothingShownAhead
  <2>6. LoneSubmission'
        BY <1>9 DEF ProvisionAgent, LoneSubmission, Pooled, Resting
  <2>7. RulesAwaitFirstApproval'
        BY <1>9 DEF ProvisionAgent, RulesAwaitFirstApproval, NonceUsed, TookEffect, Resting, NoHash
  <2> QED BY <2>1, <2>2, <2>3, <2>4, <2>5, <2>6, <2>7
<1>10. ASSUME ProvisionFails PROVE IInv'
  <2>1. TypeOK'
    <3>1. chain' \in ChainState /\ SentType' /\ HistoryType'
          BY <1>10 DEF ProvisionFails, Unreported, Finish, TypeOK, ChainState, SentType, HistoryType
    <3>5. LoadsType'
          BY <1>10 DEF ProvisionFails, Unreported, Finish, TypeOK, RunState, LoadsType
    <3>2. tx' \in TransactionState
          BY <1>10, InitialRecords DEF ProvisionFails, Unreported, Finish, TypeOK, TransactionState, Phase, FailedPhase, NoHash, RunState
    <3>3. run' \in RunState
          BY <1>10, InitialRecords DEF ProvisionFails, Unreported, Finish, TypeOK, RunState
    <3>4. HashesSent'
          BY <1>10, SentIsFunction DEF ProvisionFails, Unreported, Finish, TypeOK, HashesSent, Quiet, Resting, NoHash
    <3> QED BY <3>1, <3>2, <3>3, <3>4, <3>5
            DEF TypeOK, SentType, LoadsType, HistoryType, HashesSent
  <2>2. ChainSound'
        BY <1>10 DEF ProvisionFails, Unreported, Finish, ChainSound
  <2>3. RunSound'
        BY <1>10 DEF ProvisionFails, Unreported, Finish, TypeOK, RunSound, RunState, NoHash, Quiet, Resting, Included
  <2>4. FundingSound'
        BY <1>10 DEF ProvisionFails, Unreported, Finish, FundingSound
  <2>5. NothingShownAhead'
    <3>1. ConfirmedIsSettled'
          BY <1>10 DEF ProvisionFails, Unreported, Finish, TypeOK, RunSound, NothingShownAhead, ConfirmedIsSettled, NonceUsed, TookEffect, NoHash, Quiet, Included
    <3>0. chain'.account = chain.account /\ chain'.made = chain.made /\ (chain.linked => chain'.linked)
          BY <1>10 DEF ProvisionFails, TypeOK, ChainState
    <3>3. SnapshotsAreOfThePast'
          BY <1>10, <3>0 DEF ProvisionFails, Unreported, Finish, TypeOK, ChainState, NothingShownAhead, SnapshotsAreOfThePast, Resting
    <3> QED BY <3>1, <3>3 DEF NothingShownAhead
  <2>6. LoneSubmission'
        BY <1>10 DEF ProvisionFails, Unreported, Finish, LoneSubmission, Pooled, Resting
  <2>7. RulesAwaitFirstApproval'
        BY <1>10 DEF ProvisionFails, Unreported, Finish, RulesAwaitFirstApproval, NonceUsed, TookEffect, Resting, NoHash
  <2> QED BY <2>1, <2>2, <2>3, <2>4, <2>5, <2>6, <2>7
<1>11. ASSUME SnapshotForRun PROVE IInv'
  <2>1. TypeOK'
    <3>1. chain' \in ChainState /\ SentType' /\ HistoryType'
          BY <1>11, SnapshotNow DEF SnapshotForRun, TypeOK, ChainState, SentType, HistoryType
    <3>5. LoadsType'
          BY <1>11, SnapshotNow DEF SnapshotForRun, TypeOK, RunState, LoadsType
    <3>2. tx' \in TransactionState
          BY <1>11, SnapshotNow, InitialRecords DEF SnapshotForRun, TypeOK, TransactionState, Phase, FailedPhase, NoHash, RunState
    <3>3. run' \in RunState
          BY <1>11, SnapshotNow, InitialRecords DEF SnapshotForRun, TypeOK, RunState, Loaded
    <3>4. HashesSent'
          BY <1>11, SnapshotNow, SentIsFunction DEF SnapshotForRun, TypeOK, HashesSent, Quiet, Resting, NoHash
    <3> QED BY <3>1, <3>2, <3>3, <3>4, <3>5
            DEF TypeOK, SentType, LoadsType, HistoryType, HashesSent
  <2>2. ChainSound'
        BY <1>11, SnapshotNow DEF SnapshotForRun, ChainSound
  <2>3. RunSound'
        BY <1>11, SnapshotNow DEF SnapshotForRun, TypeOK, RunSound, RunState, NoHash, Quiet, Resting, Included
  <2>4. FundingSound'
        BY <1>11, SnapshotNow DEF SnapshotForRun, FundingSound
  <2>5. NothingShownAhead'
    <3>1. ConfirmedIsSettled'
          BY <1>11, SnapshotNow DEF SnapshotForRun, TypeOK, RunSound, NothingShownAhead, ConfirmedIsSettled, NonceUsed, TookEffect, NoHash, Quiet, Included
    <3>3. SnapshotsAreOfThePast'
          BY <1>11, SnapshotNow DEF SnapshotForRun, TypeOK, ChainState, NothingShownAhead, SnapshotsAreOfThePast, Resting
    <3> QED BY <3>1, <3>3 DEF NothingShownAhead
  <2>6. LoneSubmission'
        BY <1>11, SnapshotNow DEF SnapshotForRun, LoneSubmission, Pooled, Resting
  <2>7. RulesAwaitFirstApproval'
        BY <1>11, SnapshotNow DEF SnapshotForRun, RulesAwaitFirstApproval, NonceUsed, TookEffect, Resting, NoHash
  <2> QED BY <2>1, <2>2, <2>3, <2>4, <2>5, <2>6, <2>7
<1>12. ASSUME ConfirmationFades PROVE IInv'
  <2>1. TypeOK'
    <3>1. chain' \in ChainState /\ SentType' /\ HistoryType'
          BY <1>12 DEF ConfirmationFades, TypeOK, ChainState, SentType, HistoryType
    <3>5. LoadsType'
          BY <1>12 DEF ConfirmationFades, TypeOK, RunState, LoadsType
    <3>2. tx' \in TransactionState
          BY <1>12, InitialRecords DEF ConfirmationFades, TypeOK, TransactionState, Phase, FailedPhase, NoHash, RunState
    <3>3. run' \in RunState
          BY <1>12, InitialRecords DEF ConfirmationFades, TypeOK, RunState
    <3>4. HashesSent'
          BY <1>12, SentIsFunction DEF ConfirmationFades, TypeOK, HashesSent, Quiet, Resting, NoHash
    <3> QED BY <3>1, <3>2, <3>3, <3>4, <3>5
            DEF TypeOK, SentType, LoadsType, HistoryType, HashesSent
  <2>2. ChainSound'
        BY <1>12 DEF ConfirmationFades, ChainSound
  <2>3. RunSound'
        BY <1>12 DEF ConfirmationFades, TypeOK, RunSound, RunState, NoHash, Quiet, Resting, Included
  <2>4. FundingSound'
        BY <1>12 DEF ConfirmationFades, FundingSound
  <2>5. NothingShownAhead'
    <3>1. ConfirmedIsSettled'
          BY <1>12 DEF ConfirmationFades, TypeOK, RunSound, NothingShownAhead, ConfirmedIsSettled, NonceUsed, TookEffect, NoHash, Quiet, Included
    <3>3. SnapshotsAreOfThePast'
          BY <1>12 DEF ConfirmationFades, TypeOK, ChainState, NothingShownAhead, SnapshotsAreOfThePast, Resting
    <3> QED BY <3>1, <3>3 DEF NothingShownAhead
  <2>6. LoneSubmission'
        BY <1>12 DEF ConfirmationFades, LoneSubmission, Pooled, Resting
  <2>7. RulesAwaitFirstApproval'
        BY <1>12 DEF ConfirmationFades, RulesAwaitFirstApproval, NonceUsed, TookEffect, Resting, NoHash
  <2> QED BY <2>1, <2>2, <2>3, <2>4, <2>5, <2>6, <2>7
<1>13. ASSUME AaveWaitFails PROVE IInv'
  <2>1. TypeOK'
    <3>1. chain' \in ChainState /\ SentType' /\ HistoryType'
          BY <1>13 DEF AaveWaitFails, StopWaiting, FailedPhase, LeavesPending, Report, Finish, TypeOK, ChainState, SentType, HistoryType
    <3>5. LoadsType'
          BY <1>13 DEF AaveWaitFails, StopWaiting, FailedPhase, LeavesPending, Report, Finish, TypeOK, RunState, LoadsType
    <3>2. tx' \in TransactionState
          BY <1>13, InitialRecords DEF AaveWaitFails, StopWaiting, FailedPhase, LeavesPending, Report, Finish, TypeOK, TransactionState, Phase, FailedPhase, NoHash, RunState
    <3>3. run' \in RunState
          BY <1>13, InitialRecords DEF AaveWaitFails, StopWaiting, FailedPhase, LeavesPending, Report, Finish, TypeOK, RunState
    <3>4. HashesSent'
          BY <1>13, SentIsFunction DEF AaveWaitFails, StopWaiting, FailedPhase, LeavesPending, Report, Finish, TypeOK, HashesSent, Quiet, Resting, NoHash
    <3> QED BY <3>1, <3>2, <3>3, <3>4, <3>5
            DEF TypeOK, SentType, LoadsType, HistoryType, HashesSent
  <2>2. ChainSound'
        BY <1>13 DEF AaveWaitFails, StopWaiting, FailedPhase, LeavesPending, Report, Finish, ChainSound
  <2>3. RunSound'
        BY <1>13 DEF AaveWaitFails, StopWaiting, FailedPhase, LeavesPending, Report, Finish, TypeOK, RunSound, RunState, NoHash, Quiet, Resting, Included
  <2>4. FundingSound'
        BY <1>13 DEF AaveWaitFails, StopWaiting, FailedPhase, LeavesPending, Report, Finish, FundingSound
  <2>5. NothingShownAhead'
    <3>1. ConfirmedIsSettled'
          BY <1>13 DEF AaveWaitFails, StopWaiting, FailedPhase, LeavesPending, Report, Finish, TypeOK, RunSound, NothingShownAhead, ConfirmedIsSettled, NonceUsed, TookEffect, NoHash, Quiet, Included
    <3>3. SnapshotsAreOfThePast'
          BY <1>13 DEF AaveWaitFails, StopWaiting, FailedPhase, LeavesPending, Report, Finish, TypeOK, ChainState, NothingShownAhead, SnapshotsAreOfThePast, Resting
    <3> QED BY <3>1, <3>3 DEF NothingShownAhead
  <2>6. LoneSubmission'
        BY <1>13 DEF AaveWaitFails, StopWaiting, FailedPhase, LeavesPending, Report, Finish, LoneSubmission, Pooled, Resting
  <2>7. RulesAwaitFirstApproval'
        BY <1>13 DEF AaveWaitFails, StopWaiting, FailedPhase, LeavesPending, Report, Finish, RulesAwaitFirstApproval, NonceUsed, TookEffect, Resting, NoHash
  <2> QED BY <2>1, <2>2, <2>3, <2>4, <2>5, <2>6, <2>7
<1> QED BY <1>1, <1>2, <1>3, <1>4, <1>5, <1>6, <1>7, <1>8, <1>9, <1>10, <1>11, <1>12,
           <1>13

\* An action starts when nothing is pending that the page knows of.
LEMMA Starting ==
    ASSUME IInv, NEW kind \in Kind, NEW before \in Loaded, NEW budget \in BOOLEAN,
           NEW funding \in Nat, funding <= Len(sent), run.pc # "receipt",
           kind = "revoke_mandate" => before # NoView,
           budget => kind = "fund_account" /\ "sign_mandate" \in Kind,
           funding # NoHash => /\ kind = "sign_mandate"
                               /\ sent[funding].kind = "fund_account"
                               /\ sent[funding].state \in Included,
           run' = Started(kind, before, budget, funding),
           tx' = Awaiting(kind),
           view' \in {view, run.seen},
           UNCHANGED <<world, loads, lapsed, reloads>>
    PROVE  IInv'
PROOF
<1> USE DEF IInv, world
<1>1. /\ run' \in RunState
      /\ run'.pc = IF kind = "provision_agent" THEN "asking" ELSE "wallet"
      /\ run'.kind = kind /\ run'.hash = NoHash /\ run'.before = before /\ run'.seen = NoView
      /\ run'.budget = budget /\ run'.funding = funding
      /\ tx' \in TransactionState
      /\ tx'.hash = NoHash
      /\ tx'.phase \in {"idle", "awaiting_signature"}
      /\ kind = "provision_agent" => tx' = Quiet
      BY StartedRecords
<1> HIDE DEF Started, Awaiting
<1>2. TypeOK'
    <2>1. view' \in Loaded
          BY DEF TypeOK, RunState
    <2> QED BY <1>1, <2>1, SentIsFunction DEF TypeOK, NoHash
<1>3. ChainSound' /\ FundingSound'
      BY DEF ChainSound, FundingSound
<1>4. RunSound'
      BY <1>1 DEF RunSound
<1>5. NothingShownAhead'
    <2>1. ConfirmedIsSettled'
          BY <1>1 DEF ConfirmedIsSettled, NonceUsed, TookEffect
    <2>2. SnapshotsAreOfThePast'
          BY <1>1 DEF NothingShownAhead, SnapshotsAreOfThePast
    <2> QED BY <2>1, <2>2 DEF NothingShownAhead
<1>6. LoneSubmission'
      BY DEF LoneSubmission, Pooled
<1>7. RulesAwaitFirstApproval'
      BY <1>1 DEF RulesAwaitFirstApproval, NonceUsed, TookEffect, Included
<1> QED BY <1>2, <1>3, <1>4, <1>5, <1>6, <1>7

LEMMA Pressing ==
    ASSUME IInv, NEW kind \in Kind, NEW budget \in BOOLEAN, Press(kind, budget),
           budget => kind = "fund_account" /\ "sign_mandate" \in Kind
    PROVE  IInv'
PROOF
<1>1. kind = "revoke_mandate" => view # NoView
      BY DEF Press, Offered
<1>2. view \in Loaded /\ NoHash \in Nat /\ NoHash <= Len(sent)
      BY SentIsFunction DEF IInv, TypeOK, NoHash
<1>3. /\ run.pc # "receipt"
      /\ run' = Started(kind, view, budget, NoHash)
      /\ tx' = Awaiting(kind)
      /\ UNCHANGED <<world, view, loads, lapsed, reloads>>
      BY DEF Press, Busy
<1> QED BY <1>1, <1>2, <1>3, Starting

\* An action ends, or goes on to refresh once more, and is told of as before.
LEMMA Lingering ==
    ASSUME IInv,
           \/ run' = Resting
           \/ /\ run.pc = "refresh" /\ run.tries + 1 < MaxTries
              /\ run' = [run EXCEPT !.tries = @ + 1, !.seen = NoView],
           run.pc # "receipt",
           view' \in {view, run.seen},
           UNCHANGED <<world, loads, tx, lapsed, reloads>>
    PROVE  IInv'
PROOF
<1> USE DEF IInv, world
<1>1. NoView \in Loaded
      BY DEF Loaded
<1>2. run' \in RunState
    <2>1. CASE run' = Resting
          BY <2>1, InitialRecords
    <2>2. CASE /\ run.tries + 1 < MaxTries
               /\ run' = [run EXCEPT !.tries = @ + 1, !.seen = NoView]
        <3>1. run \in RunState
              BY DEF TypeOK
        <3>2. run.tries + 1 \in 0..(MaxTries - 1)
              BY <2>2, <3>1 DEF RunState
        <3> QED BY <1>1, <2>2, <3>1, <3>2 DEF RunState
    <2> QED BY <2>1, <2>2
<1>3. /\ run' = Resting \/ /\ run'.pc = run.pc /\ run'.kind = run.kind
                           /\ run'.hash = run.hash /\ run'.before = run.before
                           /\ run'.budget = run.budget /\ run'.funding = run.funding
                           /\ run.pc = "refresh"
      /\ run'.seen = NoView
    <2>1. run \in RunState
          BY DEF TypeOK
    <2>2. CASE run' = Resting
          BY <2>2 DEF Resting
    <2>3. CASE run.pc = "refresh" /\ run' = [run EXCEPT !.tries = @ + 1, !.seen = NoView]
          BY <2>1, <2>3 DEF RunState
    <2> QED BY <2>2, <2>3
<1>4. TypeOK'
    <2>1. view' \in Loaded
          BY DEF TypeOK, RunState
    <2>2. run'.hash <= Len(sent) /\ run'.funding <= Len(sent)
          BY <1>3, SentIsFunction DEF TypeOK, Resting, NoHash
    <2> QED BY <1>2, <2>1, <2>2 DEF TypeOK
<1>5. ChainSound' /\ FundingSound'
      BY DEF ChainSound, FundingSound
<1>6. RunSound'
      BY <1>3 DEF RunSound, Resting, NoHash
<1>7. NothingShownAhead'
    <2>1. ConfirmedIsSettled'
          BY DEF NothingShownAhead, ConfirmedIsSettled, NonceUsed, TookEffect
    <2>2. SnapshotsAreOfThePast'
          BY <1>3 DEF NothingShownAhead, SnapshotsAreOfThePast
    <2> QED BY <2>1, <2>2 DEF NothingShownAhead
<1>8. LoneSubmission'
      BY DEF LoneSubmission, Pooled
<1>9. RulesAwaitFirstApproval'
      BY <1>3 DEF RulesAwaitFirstApproval, NonceUsed, TookEffect, Resting
<1> QED BY <1>4, <1>5, <1>6, <1>7, <1>8, <1>9

LEMMA Refreshing ==
    ASSUME IInv, NEW after \in Loaded, run.pc = "refresh", Continue(after),
           view' \in {view, run.seen},
           UNCHANGED <<world, loads, lapsed, reloads>>
    PROVE  IInv'
PROOF
<1>1. CASE /\ run.budget
           /\ \E before \in {view, after} :
                 run' = Started("sign_mandate", before, FALSE, run.hash)
           /\ tx' = Awaiting("sign_mandate")
    <2> PICK before \in {view, after} : run' = Started("sign_mandate", before, FALSE, run.hash)
        BY <1>1
    <2>1. before \in Loaded
          BY DEF IInv, TypeOK
    <2>2. /\ run.kind = "fund_account" /\ "sign_mandate" \in Kind
          /\ run.hash \in Nat /\ run.hash <= Len(sent)
          /\ sent[run.hash].kind = "fund_account"
          /\ sent[run.hash].state \in Included
          BY <1>1 DEF IInv, TypeOK, RunSound, RunState
    <2> QED BY <1>1, <2>1, <2>2, Starting
<1>2. CASE run' = Resting /\ tx' = tx
      BY <1>2, Lingering
<1>3. CASE /\ run.tries + 1 < MaxTries
           /\ run' = [run EXCEPT !.tries = @ + 1, !.seen = NoView]
           /\ tx' = tx
      BY <1>3, Lingering
<1> QED BY <1>1, <1>2, <1>3, Continuing DEF IInv

\* The page at rest, having sent or not, with what it tells the owner.
LEMMA SentAndGone ==
    ASSUME IInv, run' = Resting, lapsed' = TRUE,
           UNCHANGED <<chain>>, reloads' \in 0..MaxReloads, LoadsType',
           \A v \in {view'} \cup {loads'[l] : l \in Load} :
              v # NoView => v \in {view} \cup {loads[l] : l \in Load},
           tx' \in TransactionState, tx'.hash = NoHash, tx'.phase # "confirmed",
           run.pc = "wallet", Len(sent) < MaxSent, sent' = Append(sent, InPool)
    PROVE  IInv'
PROOF
<1> USE DEF IInv
<1>1. SentType' /\ Len(sent') = Len(sent) + 1
      BY Sending
<1>2. TypeOK'
      BY <1>1, InitialRecords, SentIsFunction DEF TypeOK, SentType, LoadsType, Resting, NoHash
<1>3. ChainSound' /\ FundingSound' /\ RulesAwaitFirstApproval'
      BY KnownAfterSending DEF ChainSound, Resting
<1>4. RunSound'
      BY DEF RunSound, Resting, NoHash
<1>5. NothingShownAhead'
    <2>1. ConfirmedIsSettled'
          BY DEF ConfirmedIsSettled, NonceUsed, TookEffect
    <2>2. SnapshotsAreOfThePast'
          BY DEF NothingShownAhead, SnapshotsAreOfThePast, Resting
    <2> QED BY <2>1, <2>2 DEF NothingShownAhead
<1>6. LoneSubmission'
      BY DEF LoneSubmission
<1> QED BY <1>2, <1>3, <1>4, <1>5, <1>6

LEMMA Submitting ==
    ASSUME IInv, WalletSends
    PROVE  IInv'
PROOF
<1> USE DEF IInv
<1>1. /\ run.pc = "wallet" /\ Len(sent) < MaxSent /\ sent' = Append(sent, InPool)
      /\ run' = [run EXCEPT !.pc = "receipt", !.hash = NextHash]
      /\ tx' = [kind |-> run.kind, phase |-> "submitted", hash |-> NextHash]
      /\ UNCHANGED <<chain, view, loads, lapsed, reloads>>
      BY DEF WalletSends, Report
<1>2. /\ SentType' /\ Len(sent') = Len(sent) + 1
      /\ DOMAIN sent' = DOMAIN sent \cup {NextHash}
      /\ \A h \in DOMAIN sent : sent'[h] = sent[h]
      /\ sent'[NextHash].kind = run.kind /\ sent'[NextHash].state = "pool"
      /\ NextHash = Len(sent) + 1 /\ Len(sent) \in Nat /\ DOMAIN sent = 1..Len(sent)
      BY <1>1, Sending, SentIsFunction
<1>3. /\ run' \in RunState
      /\ run'.pc = "receipt" /\ run'.kind = run.kind /\ run'.hash = NextHash
      /\ run'.before = run.before /\ run'.seen = run.seen
      /\ run'.budget = run.budget /\ run'.funding = run.funding
    <2>1. run \in RunState /\ NextHash \in Nat
          BY <1>2 DEF TypeOK
    <2> QED BY <1>1, <2>1 DEF RunState
<1>4. TypeOK'
    <2>1. tx' \in TransactionState
          BY <1>1, <1>2 DEF TypeOK, TransactionState, RunState, Phase, FailedPhase
    <2> QED BY <1>1, <1>2, <1>3, <2>1 DEF TypeOK, SentType, RunState
<1>5. ChainSound' /\ FundingSound' /\ RulesAwaitFirstApproval'
      BY <1>1, <1>3, KnownAfterSending DEF ChainSound
<1>6. RunSound'
    <2>1. run.funding # NoHash => run.funding \in DOMAIN sent
        <3>1. run.funding \in Nat /\ run.funding <= Len(sent)
              BY DEF TypeOK, RunState
        <3>2. Len(sent) \in Nat /\ DOMAIN sent = 1..Len(sent)
              BY SentIsFunction
        <3> QED BY <3>1, <3>2 DEF NoHash
    <2>2. run.pc = "wallet"
          BY <1>1
    <2> QED BY <1>2, <1>3, <2>1, <2>2 DEF RunSound, NoHash
<1>7. NothingShownAhead'
    <2>1. ConfirmedIsSettled'
          BY <1>1 DEF ConfirmedIsSettled, NonceUsed, TookEffect
    <2>2. SnapshotsAreOfThePast'
          BY <1>1, <1>3 DEF NothingShownAhead, SnapshotsAreOfThePast
    <2> QED BY <2>1, <2>2 DEF NothingShownAhead
<1>8. LoneSubmission'
      BY <1>1, <1>2, <1>3 DEF LoneSubmission, Pooled
<1> QED BY <1>4, <1>5, <1>6, <1>7, <1>8

LEMMA Reloading ==
    ASSUME IInv, Reload
    PROVE  IInv'
PROOF
<1>1. /\ run' = Resting /\ tx' = Quiet /\ view' = NoView
      /\ loads' = [l \in Load |-> NoView]
      /\ reloads' \in 0..MaxReloads
      /\ chain' = chain
      BY DEF Reload, Finish, IInv, TypeOK
<1>2. NoView \in Loaded
      BY DEF Loaded
<1>3. LoadsType'
      BY <1>1, <1>2 DEF LoadsType
<1>4. CASE run.pc = "wallet" /\ Len(sent) < MaxSent /\ sent' = Append(sent, InPool)
    <2>1. lapsed' = TRUE
          BY <1>4 DEF Reload
    <2>2. \A v \in {view'} \cup {loads'[l] : l \in Load} : v = NoView
          BY <1>1
    <2>3. tx' \in TransactionState /\ tx'.hash = NoHash /\ tx'.phase # "confirmed"
          BY <1>1, InitialRecords DEF Quiet
    <2> QED BY <1>1, <1>3, <1>4, <2>1, <2>2, <2>3, SentAndGone
<1>5. CASE sent' = sent
    <2> USE DEF IInv
    <2>1. TypeOK'
        <3>1. lapsed' \in BOOLEAN
              BY DEF Reload
        <3> QED BY <1>1, <1>3, <1>5, <3>1, InitialRecords, SentIsFunction
                DEF TypeOK, LoadsType, Quiet, Resting, NoHash
    <2>2. ChainSound' /\ FundingSound'
          BY <1>1, <1>5 DEF ChainSound, FundingSound
    <2>3. RunSound'
          BY <1>1 DEF RunSound, Resting, NoHash
    <2>4. NothingShownAhead'
          BY <1>1 DEF NothingShownAhead, ConfirmedIsSettled, NonceUsed, TookEffect,
                      SnapshotsAreOfThePast, Quiet, Resting
    <2>5. LoneSubmission'
        <3>1. SUFFICES ASSUME ~ lapsed' PROVE Pooled' = {}
              BY DEF LoneSubmission
        <3>2. ~ lapsed /\ ~ LeavesPending
              BY <3>1 DEF Reload
        <3>3. Pooled = {}
              BY <3>2 DEF LoneSubmission, LeavesPending, Pooled
        <3> QED BY <1>5, <3>3 DEF Pooled
    <2>6. RulesAwaitFirstApproval'
          BY <1>1, <1>5 DEF RulesAwaitFirstApproval, NonceUsed, TookEffect, Resting
    <2> QED BY <2>1, <2>2, <2>3, <2>4, <2>5, <2>6
<1> QED BY <1>4, <1>5 DEF Reload

LEMMA WorldSteps ==
    ASSUME IInv,
           (\E h \in DOMAIN sent : Mine(h) \/ ComeToNothing(h)) \/ AgentPays
    PROVE  IInv'
PROOF
<1>1. ASSUME NEW h \in DOMAIN sent, Mine(h) PROVE IInv'
    <2>1. PICK state \in {"mined", "resent"} : Settle(h, state)
          BY <1>1 DEF Mine
    <2>4. chain' = Effect(sent[h], chain)
          BY <1>1 DEF Mine
    <2>2. sent[h] \in Transaction /\ (sent[h].kind = "withdraw" => chain.funds > 0)
          BY <1>1, SentIsFunction DEF Mine, IInv
    <2>3. UNCHANGED <<page, lapsed, reloads>>
          BY <2>1 DEF Settle
    <2> QED BY <2>1, <2>2, <2>3, <2>4, Settling, Effects, WorldMoves DEF IInv
<1>2. ASSUME NEW h \in DOMAIN sent, ComeToNothing(h) PROVE IInv'
    <2>1. PICK state \in {"reverted", "replaced", "replacement_reverted"} : Settle(h, state)
          BY <1>2 DEF ComeToNothing
    <2>2. chain' = chain /\ UNCHANGED <<page, lapsed, reloads>>
          BY <1>2 DEF ComeToNothing, Settle
    <2>3. chain' \in ChainState /\ ChainSound' /\ chain'.made >= chain.made
          BY <2>2 DEF IInv, TypeOK, ChainState, ChainSound
    <2> QED BY <2>1, <2>2, <2>3, Settling, WorldMoves
<1>3. ASSUME AgentPays PROVE IInv'
    <2>1. /\ chain' = [chain EXCEPT !.funds = @ - 1] /\ chain.funds > 0
          /\ sent' = sent /\ UNCHANGED <<page, lapsed, reloads>>
          BY <1>3 DEF AgentPays
    <2>2. chain \in ChainState
          BY DEF IInv, TypeOK
    <2>3. /\ chain' \in ChainState
          /\ chain'.made = chain.made /\ chain'.active = chain.active
          /\ chain'.account = chain.account /\ chain'.linked = chain.linked
          /\ chain'.made >= chain.made
          BY <2>1, <2>2 DEF ChainState
    <2>4. ChainSound' /\ SentType'
          BY <2>1, <2>3 DEF IInv, TypeOK, ChainSound, SentType
    <2> QED BY <2>1, <2>3, <2>4, WorldMoves
<1> QED BY <1>1, <1>2, <1>3

LEMMA Step == IInv /\ [Next]_vars => IInv'
PROOF
<1> SUFFICES ASSUME IInv, [Next]_vars PROVE IInv' OBVIOUS
<1>1. CASE RunOwnerAction
      BY <1>1, Pressing DEF RunOwnerAction
<1>2. CASE OnSetPaymentBudget
      BY <1>2, Pressing DEF OnSetPaymentBudget
<1>3. CASE WalletSends
      BY <1>3, Submitting
<1>4. CASE WalletFailsAfterSending
    <2>1. /\ run.pc = "wallet" /\ Len(sent) < MaxSent /\ sent' = Append(sent, InPool)
          /\ run' = Resting /\ lapsed' = TRUE
          /\ UNCHANGED <<chain, view, loads, reloads>>
          BY <1>4 DEF WalletFailsAfterSending, Finish
    <2>4. PICK phase \in FailedPhase : tx' = [kind |-> run.kind, phase |-> phase, hash |-> NoHash]
          BY <1>4 DEF WalletFailsAfterSending, Report
    <2>2. tx' \in TransactionState /\ tx'.hash = NoHash /\ tx'.phase # "confirmed"
          BY <2>4 DEF IInv, TypeOK, RunState, TransactionState, Phase, FailedPhase, NoHash
    <2>3. LoadsType' /\ reloads' \in 0..MaxReloads
          BY <2>1 DEF IInv, TypeOK, LoadsType
    <2> QED BY <2>1, <2>2, <2>3, SentAndGone
<1>5. CASE RefreshForRun
      BY <1>5, Refreshing DEF RefreshForRun, IInv, TypeOK, RunState
<1>6. CASE RefreshForRunFails
      BY <1>6, Refreshing DEF RefreshForRunFails, IInv, TypeOK
<1>7. CASE Reload
      BY <1>7, Reloading
<1>8. CASE (\E h \in DOMAIN sent : Mine(h) \/ ComeToNothing(h)) \/ AgentPays
      BY <1>8, WorldSteps
<1>9. CASE UNCHANGED vars
    <2> USE <1>9 DEF IInv, vars, world, page
    <2>1. TypeOK'
          BY DEF TypeOK
    <2>2. ChainSound' /\ RunSound' /\ FundingSound'
          BY DEF ChainSound, RunSound, FundingSound
    <2>3. NothingShownAhead'
          BY DEF NothingShownAhead, ConfirmedIsSettled, NonceUsed, TookEffect,
                 SnapshotsAreOfThePast
    <2>4. LoneSubmission' /\ RulesAwaitFirstApproval'
          BY DEF LoneSubmission, Pooled, RulesAwaitFirstApproval, NonceUsed, TookEffect
    <2> QED BY <2>1, <2>2, <2>3, <2>4
<1> QED BY <1>1, <1>2, <1>3, <1>4, <1>5, <1>6, <1>7, <1>8, <1>9, PlainSteps DEF Next

-----------------------------------------------------------------------------
(* The theorems *)

\* Everything the page rests on holds in every reachable state.
THEOREM Invariance == Spec => []IInv
PROOF BY Initially, Step, PTL DEF Spec

\* Every variable of the tab, the chain and the transactions keeps its type.
THEOREM TypeCorrect == Spec => []TypeOK
PROOF
<1>1. IInv => TypeOK
      BY DEF IInv
<1> QED BY <1>1, Invariance, PTL

\* No action is shown as confirmed that is pending or reverted, and no account is
\* shown further than the chain is (runOwnerTransaction, refreshAccount).
THEOREM ShownIsSettled == Spec => []NothingShownAhead
PROOF
<1>1. IInv => NothingShownAhead
      BY DEF IInv
<1> QED BY <1>1, Invariance, PTL

\* While the page has lost sight of nothing, only the transaction it waits for is
\* pending: busy keeps actions from overlapping (runOwnerAction).
THEOREM OneAtATime == Spec => []LoneSubmission
PROOF
<1>1. IInv => LoneSubmission
      BY DEF IInv
<1> QED BY <1>1, Invariance, PTL

\* The rules of a budget are never sent while the transfer before them is pending,
\* nor after it reverted (onSetPaymentBudget).
THEOREM FirstApprovalSettles == Spec => []RulesAwaitFirstApproval
PROOF
<1>1. IInv => RulesAwaitFirstApproval
      BY DEF IInv
<1> QED BY <1>1, Invariance, PTL

=============================================================================
