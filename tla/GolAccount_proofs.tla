--------------------------- MODULE GolAccount_proofs ---------------------------
(***************************************************************************)
(* Proofs about GolAccount, for any number of mandates, requests, amounts  *)
(* and addresses: its types, its caps, what its records say of a budget,   *)
(* and that it implements SpendingLedger.                                  *)
(*                                                                         *)
(* SpentWithinCap and SoleLiveMandate are not inductive: a transfer that   *)
(* fails brings back the mandates of the open call's frame.  IInv says     *)
(* that those are as sound as the current ones, and that ids are handed    *)
(* out in order, so that a new mandate cannot overwrite an old one.        *)
(* BooksInv adds the records.  The books before an open call differ from   *)
(* the present ones by the one payment that is being made, or not at all:  *)
(* that is what a transfer that fails takes back, and what one that        *)
(* succeeds adds to the ledger.                                            *)
(***************************************************************************)
EXTENDS GolAccount, SequenceTheorems, TLAPS

\* What holds of the mandates now and of those a revert brings back.
Sound(ms) ==
    \A m \in MandateId :
        /\ ms[m].spent <= ms[m].cumulativeCap
        /\ ms[m].exists <=> m < nextMandateId
        /\ ms[m].exists /\ ~ ms[m].revoked <=> m = activeMandateId

\* At most one call into the token is open, thanks to nonReentrant.
OpenCallSound ==
    frames # <<>> => /\ Tail(frames) = <<>>
                     /\ Sound(Head(frames).undo.mandates)

IInv == TypeOK /\ Sound(mandates) /\ OpenCallSound

-----------------------------------------------------------------------------
\* The innermost frame is a frame, and so are those that remain below it.
LEMMA FrameType ==
    ASSUME TypeOK, frames # <<>>
    PROVE  /\ Head(frames) \in Frame
           /\ Tail(frames) \in Seq(Frame)
PROOF BY HeadTailProperties DEF TypeOK

\* Opening a call leaves one frame, whose undo state is the current one.
LEMMA OpenedCall ==
    ASSUME TypeOK, NotEntered,
           NEW to \in Addr, NEW amount \in Nat, NEW event \in Event,
           CallTransfer(to, amount, event)
    PROVE  /\ frames' \in Seq(Frame)
           /\ frames' # <<>>
           /\ Tail(frames') = <<>>
           /\ Head(frames').undo = Snapshot
PROOF
<1> DEFINE f == [undo |-> Snapshot, to |-> to, amount |-> amount,
                 event |-> event]
<1>1. Snapshot \in Journaled
  BY DEF TypeOK, Snapshot, Journaled
<1>2. f \in Frame
  BY <1>1 DEF Frame
<1>3. frames' = <<f>>
  BY DEF NotEntered, CallTransfer
<1> QED
  BY <1>2, <1>3

\* Revoking or charging a mandate leaves a mandate.
LEMMA MandateRevokedType ==
    ASSUME NEW mandate \in Mandate
    PROVE  [mandate EXCEPT !.revoked = TRUE] \in Mandate
PROOF BY DEF Mandate

LEMMA MandateChargedType ==
    ASSUME NEW mandate \in Mandate, NEW spent \in Nat
    PROVE  [mandate EXCEPT !.spent = spent] \in Mandate
PROOF BY DEF Mandate

\* A transfer of what the sender holds leaves every balance a natural number.
LEMMA MovedType ==
    ASSUME TypeOK, NEW from \in Addr, NEW to \in Addr, NEW amount \in Nat,
           balance[from] >= amount
    PROVE  Moved(from, to, amount) \in [Addr -> Nat]
PROOF BY DEF TypeOK, Moved


-----------------------------------------------------------------------------
LEMMA InitInv == Init => IInv
PROOF
<1> SUFFICES ASSUME Init PROVE IInv
  OBVIOUS
<1> USE AddrAssumption, BoundAssumption
<1>1. TypeOK
  <2>1. NoMandate \in Mandate
    BY DEF NoMandate, Mandate
  <2>2. NoRecord \in RequestRecord
    BY DEF NoRecord, RequestRecord, Rule
  <2>3. log \in Seq(Event) /\ frames \in Seq(Frame)
    BY DEF Init
  <2> QED
    BY <2>1, <2>2, <2>3 DEF Init, TypeOK, Time, RequestKey
<1>2. Sound(mandates)
  BY DEF Init, Sound, NoMandate, MandateId
<1>3. OpenCallSound
  BY DEF Init, OpenCallSound
<1> QED
  BY <1>1, <1>2, <1>3 DEF IInv

\* A new mandate takes the next id and retires the one it replaces.
LEMMA CreateMandateInv ==
    ASSUME IInv, NEW agent \in Caller, NEW perPayment \in Amount,
           NEW cumulative \in Amount, NEW expiresAt \in Time,
           NEW recipients \in Allowlist,
           CreateMandate(agent, perPayment, cumulative, expiresAt, recipients)
    PROVE  IInv'
PROOF
<1> USE AddrAssumption, BoundAssumption
<1> DEFINE new == [exists |-> TRUE, revoked |-> FALSE, agent |-> agent,
            perPaymentCap |-> perPayment, cumulativeCap |-> cumulative,
            spent |-> 0, expiresAt |-> expiresAt, recipients |-> recipients]
<1>1. nextMandateId \in MandateId /\ nextMandateId \in Nat
  BY DEF IInv, TypeOK, CreateMandate, MandateId
<1>2. new \in Mandate
  BY DEF Mandate, Time
<1>3. \A m \in MandateId :
          mandates'[m] = IF m = nextMandateId THEN new
                         ELSE IF m \in Replaced
                              THEN [mandates[m] EXCEPT !.revoked = TRUE]
                              ELSE mandates[m]
  BY <1>1 DEF CreateMandate, RetireReplaced
<1>4. mandates' \in [MandateId -> Mandate]
  <2>1. \A m \in MandateId : [mandates[m] EXCEPT !.revoked = TRUE] \in Mandate
    BY MandateRevokedType DEF IInv, TypeOK
  <2>2. RetireReplaced(mandates) \in [MandateId -> Mandate]
    BY <2>1 DEF RetireReplaced, IInv, TypeOK
  <2> QED
    BY <1>1, <1>2, <2>2 DEF CreateMandate
<1>5. log' \in Seq(Event)
  <2>1. [kind |-> "MandateCreated", mandate |-> nextMandateId] \in Event
    BY <1>1 DEF Event, MandateEvent
  <2>2. RevocationEvents \subseteq Event
    BY DEF RevocationEvents, Replaced, Event, MandateEvent
  <2>3. log \in Seq(Event)
    BY DEF IInv, TypeOK
  <2> HIDE DEF Event
  <2>4. CASE Replaced = {}
    BY <2>1, <2>3, <2>4 DEF CreateMandate
  <2>5. CASE Replaced # {}
    <3>1. PICK revoked \in RevocationEvents :
              log' = log \o <<revoked, [kind |-> "MandateCreated",
                                        mandate |-> nextMandateId]>>
      BY <2>5 DEF CreateMandate
    <3> QED
      BY <2>1, <2>2, <2>3, <3>1
  <2> QED
    BY <2>4, <2>5
<1>6. TypeOK'
  BY <1>1, <1>4, <1>5 DEF IInv, TypeOK, CreateMandate, MandateId
<1>7. Sound(mandates)'
  <2> SUFFICES ASSUME NEW m \in MandateId
               PROVE  /\ mandates'[m].spent <= mandates'[m].cumulativeCap
                      /\ mandates'[m].exists <=> m < nextMandateId'
                      /\ mandates'[m].exists /\ ~ mandates'[m].revoked
                            <=> m = activeMandateId'
    BY DEF Sound
  <2>1. mandates[m] \in Mandate /\ m \in Nat
    BY DEF IInv, TypeOK, MandateId
  <2>2. nextMandateId' = nextMandateId + 1 /\ activeMandateId' = nextMandateId
    BY DEF CreateMandate
  <2>3. CASE m = nextMandateId
    <3>1. mandates'[m] = new
      BY <1>3, <2>3
    <3>2. cumulative \in Nat
      OBVIOUS
    <3> QED
      BY <1>1, <2>2, <2>3, <3>1, <3>2
  <2>4. CASE m # nextMandateId /\ m \in Replaced
    <3>1. mandates'[m] = [mandates[m] EXCEPT !.revoked = TRUE]
      BY <1>3, <2>4
    <3> QED
      BY <1>1, <2>1, <2>2, <2>4, <3>1 DEF IInv, Sound, Mandate
  <2>5. CASE m # nextMandateId /\ m \notin Replaced
    <3>1. mandates'[m] = mandates[m]
      BY <1>3, <2>5
    <3>2. ~ (mandates[m].exists /\ ~ mandates[m].revoked)
      BY <2>5 DEF IInv, Sound, Replaced
    <3> QED
      BY <1>1, <2>1, <2>2, <2>5, <3>1, <3>2 DEF IInv, Sound
  <2> QED
    BY <2>3, <2>4, <2>5
<1>8. OpenCallSound'
  BY DEF CreateMandate, NotEntered, OpenCallSound
<1> QED
  BY <1>6, <1>7, <1>8 DEF IInv

LEMMA RevokeMandateInv ==
    ASSUME IInv, NEW m \in MandateId, RevokeMandate(m)
    PROVE  IInv'
PROOF
<1> USE BoundAssumption
<1>1. mandates' = [mandates EXCEPT ![m] = [mandates[m] EXCEPT !.revoked = TRUE]]
  BY DEF RevokeMandate, IInv, TypeOK, Mandate
<1>2. mandates' \in [MandateId -> Mandate]
  BY <1>1, MandateRevokedType DEF IInv, TypeOK
<1>3. log' \in Seq(Event)
  <2>1. [kind |-> "MandateRevoked", mandate |-> m] \in Event
    BY DEF Event, MandateEvent
  <2> QED
    BY <2>1 DEF RevokeMandate, IInv, TypeOK
<1>4. TypeOK'
  BY <1>2, <1>3 DEF RevokeMandate, IInv, TypeOK
<1>5. Sound(mandates)'
  <2> SUFFICES ASSUME NEW n \in MandateId
               PROVE  /\ mandates'[n].spent <= mandates'[n].cumulativeCap
                      /\ mandates'[n].exists <=> n < nextMandateId'
                      /\ mandates'[n].exists /\ ~ mandates'[n].revoked
                            <=> n = activeMandateId'
    BY DEF Sound
  <2>1. nextMandateId' = nextMandateId
        /\ activeMandateId' = IF activeMandateId = m THEN 0 ELSE activeMandateId
    BY DEF RevokeMandate
  <2>2. mandates[n] \in Mandate /\ n \in Nat /\ n # 0
    BY DEF IInv, TypeOK, MandateId
  <2>3. CASE n = m
    <3>1. mandates'[n] = [mandates[n] EXCEPT !.revoked = TRUE]
      BY <1>1, <2>3 DEF IInv, TypeOK
    <3> QED
      BY <2>1, <2>2, <2>3, <3>1 DEF IInv, Sound, Mandate
  <2>4. CASE n # m
    <3>1. mandates'[n] = mandates[n]
      BY <1>1, <2>4 DEF IInv, TypeOK
    <3> QED
      BY <2>1, <2>2, <2>4, <3>1 DEF IInv, Sound
  <2> QED
    BY <2>3, <2>4
<1>6. OpenCallSound'
  BY DEF RevokeMandate, NotEntered, OpenCallSound
<1> QED
  BY <1>4, <1>5, <1>6 DEF IInv

LEMMA WithdrawInv ==
    ASSUME IInv, NEW amount \in Amount, Withdraw(amount)
    PROVE  IInv'
PROOF
<1> USE AddrAssumption, BoundAssumption
<1> DEFINE event == [kind |-> "Withdrawn", amount |-> amount]
<1>1. event \in Event
  BY DEF Event, WithdrawalEvent
<1>2. NotEntered /\ CallTransfer(Owner, amount, event)
  BY DEF Withdraw
<1>3. /\ frames' \in Seq(Frame)
      /\ Tail(frames') = <<>>
      /\ Head(frames').undo = Snapshot
  BY <1>1, <1>2, OpenedCall DEF IInv
<1>4. UNCHANGED <<mandates, nextMandateId, activeMandateId, sequence, requests,
                  balance, log, now>>
  BY DEF Withdraw
<1>5. TypeOK'
  BY <1>3, <1>4 DEF IInv, TypeOK
<1>6. Sound(mandates)'
  BY <1>4 DEF IInv, Sound
<1>7. OpenCallSound'
  BY <1>3, <1>4 DEF IInv, Sound, OpenCallSound, Snapshot
<1> QED
  BY <1>5, <1>6, <1>7 DEF IInv

\* The rules leave an executed payment room under the cap.
LEMMA ExecutePaymentInv ==
    ASSUME IInv, NEW m \in MandateId, NEW id \in RequestId, NEW to \in Payee,
           NEW amount \in Amount, NEW sender \in Caller,
           ExecutePayment(m, id, to, amount, sender)
    PROVE  IInv'
PROOF
<1> USE AddrAssumption, BoundAssumption
<1> DEFINE spentAfter == mandates[m].spent + amount
           record == [outcome |-> "EXECUTED", rule |-> "NONE", recipient |-> to,
                      attempted |-> amount,
                      headroom |-> mandates[m].cumulativeCap - spentAfter,
                      spentAfter |-> spentAfter, sequence |-> sequence + 1]
           event == [kind |-> "Executed", mandate |-> m, request |-> id,
                     record |-> record]
<1>1. mandates[m] \in Mandate /\ amount \in Nat /\ sequence \in Nat
  BY DEF IInv, TypeOK
<1>2. spentAfter \in Nat /\ spentAfter <= mandates[m].cumulativeCap
  BY <1>1 DEF ExecutePayment, RuleFor, Headroom, Mandate
<1>3. record \in RequestRecord
  <2>1. mandates[m].cumulativeCap - spentAfter \in Nat
    BY <1>1, <1>2 DEF Mandate
  <2> QED
    BY <1>1, <1>2, <2>1 DEF RequestRecord, Rule
<1>4. event \in Event
  BY <1>3 DEF Event, PaymentEvent
<1>5. NotEntered /\ CallTransfer(to, amount, event)
  BY DEF ExecutePayment, Admissible
<1>6. /\ frames' \in Seq(Frame)
      /\ Tail(frames') = <<>>
      /\ Head(frames').undo = Snapshot
  BY <1>1, <1>4, <1>5, OpenedCall DEF IInv
<1>7. mandates' = [mandates EXCEPT ![m] = [mandates[m] EXCEPT !.spent = spentAfter]]
  BY DEF ExecutePayment, SaveSpent, IInv, TypeOK, Mandate
<1>8. mandates' \in [MandateId -> Mandate]
  BY <1>1, <1>2, <1>7, MandateChargedType DEF IInv, TypeOK
<1>9. TypeOK'
  <2>1. requests' \in [RequestKey -> RequestRecord]
    <3> HIDE DEF record
    <3> QED
      BY <1>3 DEF ExecutePayment, IInv, TypeOK, record
  <2> QED
    BY <1>6, <1>8, <2>1 DEF ExecutePayment, IInv, TypeOK
<1>10. Sound(mandates)'
  <2> SUFFICES ASSUME NEW n \in MandateId
               PROVE  /\ mandates'[n].spent <= mandates'[n].cumulativeCap
                      /\ mandates'[n].exists = mandates[n].exists
                      /\ mandates'[n].revoked = mandates[n].revoked
    BY DEF IInv, Sound, ExecutePayment
  <2>1. CASE n = m
    <3>1. mandates'[n] = [mandates[n] EXCEPT !.spent = spentAfter]
      BY <1>7, <2>1 DEF IInv, TypeOK
    <3> HIDE DEF spentAfter
    <3> QED
      BY <1>1, <1>2, <2>1, <3>1 DEF Mandate
  <2>2. CASE n # m
    <3>1. mandates'[n] = mandates[n]
      BY <1>7, <2>2 DEF IInv, TypeOK
    <3> QED
      BY <3>1 DEF IInv, Sound
  <2> QED
    BY <2>1, <2>2
<1>11. OpenCallSound'
  <2>1. Head(frames').undo.mandates = mandates
    BY <1>6 DEF Snapshot
  <2>2. UNCHANGED <<nextMandateId, activeMandateId>>
    BY DEF ExecutePayment
  <2> QED
    BY <1>6, <2>1, <2>2 DEF IInv, Sound, OpenCallSound
<1> QED
  BY <1>9, <1>10, <1>11 DEF IInv

LEMMA RecordRefusalInv ==
    ASSUME IInv, NEW m \in MandateId, NEW id \in RequestId, NEW to \in Payee,
           NEW amount \in Amount, NEW sender \in Caller,
           RecordRefusal(m, id, to, amount, sender)
    PROVE  IInv'
PROOF
<1> USE AddrAssumption, BoundAssumption
<1> DEFINE record == [outcome |-> "REFUSED", rule |-> RuleFor(m, to, amount),
                      recipient |-> to, attempted |-> amount,
                      headroom |-> Headroom(m), spentAfter |-> mandates[m].spent,
                      sequence |-> sequence + 1]
           event == [kind |-> "Refused", mandate |-> m, request |-> id,
                     record |-> record]
<1>1. mandates[m] \in Mandate /\ amount \in Nat /\ sequence \in Nat
  BY DEF IInv, TypeOK
<1>2. Headroom(m) \in Nat
  BY <1>1 DEF IInv, Sound, Headroom, Mandate
<1>3. RuleFor(m, to, amount) \in Rule
  BY DEF RuleFor, Rule, RefusalRule
<1>4. record \in RequestRecord
  BY <1>1, <1>2, <1>3 DEF RequestRecord, Mandate
<1>5. event \in Event
  BY <1>4 DEF Event, PaymentEvent
<1>6. requests' = [requests EXCEPT ![<<m, id>>] = record]
      /\ log' = Append(log, event) /\ sequence' = sequence + 1
  BY DEF RecordRefusal
<1>7. UNCHANGED <<mandates, nextMandateId, activeMandateId, balance, now, frames>>
  BY DEF RecordRefusal
<1> HIDE DEF record, event
<1>8. requests' \in [RequestKey -> RequestRecord]
  BY <1>4, <1>6 DEF IInv, TypeOK
<1>9. log' \in Seq(Event)
  BY <1>5, <1>6 DEF IInv, TypeOK
<1>10. TypeOK'
  BY <1>1, <1>6, <1>7, <1>8, <1>9 DEF IInv, TypeOK
<1>11. Sound(mandates)' /\ OpenCallSound'
  BY <1>7 DEF IInv, Sound, OpenCallSound
<1> QED
  BY <1>10, <1>11 DEF IInv

LEMMA TransferSucceedsInv ==
    ASSUME IInv, TransferSucceeds
    PROVE  IInv'
PROOF
<1>1. Head(frames) \in Frame /\ Tail(frames) = <<>> /\ Self \in Addr
  BY FrameType, AddrAssumption DEF IInv, TransferSucceeds, OpenCallSound
<1>2. balance' \in [Addr -> Nat]
  BY <1>1, MovedType DEF TransferSucceeds, IInv, Frame
<1>3. log' \in Seq(Event)
  <2>1. Head(frames).event \in Event
    BY <1>1 DEF Frame
  <2> QED
    BY <2>1 DEF TransferSucceeds, IInv, TypeOK
<1>4. frames' = <<>>
  BY <1>1 DEF TransferSucceeds
<1>5. TypeOK'
  BY <1>2, <1>3, <1>4 DEF TransferSucceeds, IInv, TypeOK
<1>6. Sound(mandates)' /\ OpenCallSound'
  BY <1>4 DEF TransferSucceeds, IInv, Sound, OpenCallSound
<1> QED
  BY <1>5, <1>6 DEF IInv

\* The reverted call's own state is what comes back, and it was sound.
LEMMA TransferFailsInv ==
    ASSUME IInv, TransferFails
    PROVE  IInv'
PROOF
<1>1. Head(frames) \in Frame /\ Tail(frames) = <<>>
  BY FrameType DEF IInv, TransferFails, OpenCallSound
<1>2. Sound(Head(frames).undo.mandates)
  BY DEF IInv, TransferFails, OpenCallSound
<1>3. frames' = <<>>
  BY <1>1 DEF TransferFails
<1>4. TypeOK'
  <2>1. Head(frames).undo \in Journaled
    BY <1>1 DEF Frame
  <2>2. /\ mandates' \in [MandateId -> Mandate]
        /\ requests' \in [RequestKey -> RequestRecord]
        /\ sequence' \in Nat /\ balance' \in [Addr -> Nat]
        /\ log' \in Seq(Event)
    BY <2>1 DEF TransferFails, RestoreBooks, Journaled
  <2>3. frames' \in Seq(Frame)
    BY <1>3
  <2>4. UNCHANGED <<nextMandateId, activeMandateId, now>>
    BY DEF TransferFails
  <2> QED
    BY <2>2, <2>3, <2>4 DEF IInv, TypeOK
<1>5. Sound(mandates)'
  BY <1>2 DEF TransferFails, RestoreBooks, Sound
<1>6. OpenCallSound'
  BY <1>3 DEF OpenCallSound
<1> QED
  BY <1>4, <1>5, <1>6 DEF IInv

LEMMA FundInv ==
    ASSUME IInv, NEW amount \in Amount, Fund(amount)
    PROVE  IInv'
PROOF
<1>1. balance' \in [Addr -> Nat]
  BY MovedType, AddrAssumption, BoundAssumption DEF Fund, IInv
<1>2. UNCHANGED <<mandates, nextMandateId, activeMandateId, sequence, requests,
                  log, now, frames>>
  BY DEF Fund
<1>3. TypeOK'
  BY <1>1, <1>2 DEF IInv, TypeOK
<1>4. Sound(mandates)' /\ OpenCallSound'
  BY <1>2 DEF IInv, Sound, OpenCallSound
<1> QED
  BY <1>3, <1>4 DEF IInv

LEMMA NextBlockInv ==
    ASSUME IInv, NextBlock
    PROVE  IInv'
PROOF
<1>1. now' \in Time
  BY BoundAssumption DEF NextBlock, IInv, TypeOK, Time
<1>2. UNCHANGED <<mandates, nextMandateId, activeMandateId, sequence, requests,
                  balance, log, frames>>
  BY DEF NextBlock
<1>3. TypeOK'
  BY <1>1, <1>2 DEF IInv, TypeOK
<1>4. Sound(mandates)' /\ OpenCallSound'
  BY <1>2 DEF IInv, Sound, OpenCallSound
<1> QED
  BY <1>3, <1>4 DEF IInv

-----------------------------------------------------------------------------
LEMMA StepInv == IInv /\ [Next]_vars => IInv'
PROOF
<1> SUFFICES ASSUME IInv, [Next]_vars PROVE IInv'
  OBVIOUS
<1>1. CASE OwnerStep
  BY <1>1, CreateMandateInv, RevokeMandateInv, WithdrawInv DEF OwnerStep
<1>2. CASE AgentStep
  BY <1>2, ExecutePaymentInv, RecordRefusalInv DEF AgentStep, Pay
<1>3. CASE TransferSucceeds
  BY <1>3, TransferSucceedsInv
<1>4. CASE TransferFails
  BY <1>4, TransferFailsInv
<1>5. CASE \E amount \in Amount : Fund(amount)
  BY <1>5, FundInv
<1>6. CASE NextBlock
  BY <1>6, NextBlockInv
<1>7. CASE UNCHANGED vars
  BY <1>7 DEF vars, IInv, TypeOK, Sound, OpenCallSound
<1> QED
  BY <1>1, <1>2, <1>3, <1>4, <1>5, <1>6, <1>7 DEF Next

THEOREM Invariance == Spec => []IInv
PROOF BY InitInv, StepInv, PTL DEF Spec

\* Every variable of the contract keeps its Solidity type, whatever the bounds.
THEOREM TypeCorrect == Spec => []TypeOK
PROOF
<1>1. IInv => TypeOK
  BY DEF IInv
<1> QED
  BY <1>1, Invariance, PTL

\* No interleaving of payments, replays, failed transfers and revocations lets
\* an agent spend more than its mandate's cumulative cap.
THEOREM CapsHold == Spec => []SpentWithinCap
PROOF
<1>1. IInv => SpentWithinCap
  BY DEF IInv, Sound, SpentWithinCap
<1> QED
  BY <1>1, Invariance, PTL

\* Exactly the active mandate is usable, also after a transfer was undone.
THEOREM OneBudget == Spec => []SoleLiveMandate
PROOF
<1>1. IInv => SoleLiveMandate
  BY DEF IInv, Sound, SoleLiveMandate
<1> QED
  BY <1>1, Invariance, PTL

-----------------------------------------------------------------------------
(***************************************************************************)
(* The records and the ledger                                              *)
(***************************************************************************)

\* A mandate that was never created has no cap, nothing spent and no records.
Unborn(ms, rs) ==
    \A m \in MandateId : ~ ms[m].exists =>
        /\ ms[m].spent = 0
        /\ \A i \in RequestId : rs[<<m, i>>].outcome = "UNSEEN"

\* The executed records of a mandate lie one after the other within what is spent.
Spans(ms, rs, seq) ==
    \A m \in MandateId : \A i, j \in RequestId :
        LET a == rs[<<m, i>>]
            b == rs[<<m, j>>]
        IN  /\ a.outcome = "EXECUTED" =>
                  /\ 0 <= SpanStart(a)
                  /\ a.spentAfter <= ms[m].spent
                  /\ a.spentAfter + a.headroom = ms[m].cumulativeCap
                  /\ a.sequence <= seq
            /\ a.outcome = "EXECUTED" /\ b.outcome = "EXECUTED" =>
                  /\ a.sequence < b.sequence => a.spentAfter <= SpanStart(b)
                  /\ i # j => a.sequence # b.sequence

BooksSound(ms, rs, seq) == Unborn(ms, rs) /\ Spans(ms, rs, seq)

\* The open call is a payment: the request was unseen, and the books differ from
\* the earlier ones by its record and its amount, charged to a live mandate.
OpenPayment(f, k) ==
    /\ f.undo.requests[k].outcome = "UNSEEN"
    /\ requests = [f.undo.requests EXCEPT ![k] = requests[k]]
    /\ requests[k].outcome = "EXECUTED"
    /\ requests[k].recipient = f.to
    /\ requests[k].attempted = f.amount
    /\ f.amount # 0
    /\ f.undo.mandates[k[1]].exists
    /\ ~ f.undo.mandates[k[1]].revoked
    /\ now < f.undo.mandates[k[1]].expiresAt
    /\ mandates = [f.undo.mandates EXCEPT ![k[1]].spent = @ + f.amount]
    /\ mandates[k[1]].spent <= mandates[k[1]].cumulativeCap

OpenWithdrawal(f) ==
    /\ mandates = f.undo.mandates
    /\ requests = f.undo.requests

OpenCall(f) ==
    /\ f.amount \in Amount
    /\ f.undo.balance = balance
    /\ OpenWithdrawal(f) \/ \E k \in RequestKey : OpenPayment(f, k)
    /\ BooksSound(f.undo.mandates, f.undo.requests, f.undo.sequence)

BooksInv ==
    /\ IInv
    /\ BooksSound(mandates, requests, sequence)
    /\ frames # <<>> => OpenCall(Head(frames))

USE AddrAssumption, BoundAssumption

-----------------------------------------------------------------------------
\* The last frame is the first one, because there is only one.
LEMMA OnlyFrame ==
    ASSUME NEW fs \in Seq(Frame), fs # <<>>, Tail(fs) = <<>>
    PROVE  fs[Len(fs)] = Head(fs)
PROOF
<1>1. Len(Tail(fs)) = Len(fs) - 1 /\ Len(fs) \in Nat
      BY HeadTailProperties
<1>2. Len(Tail(fs)) = 0
      BY EmptySeq
<1> DEFINE n == Len(fs)
<1>3. n \in Nat /\ 0 = n - 1
      BY <1>1, <1>2
<1> HIDE DEF n
<1>4. n = 1
      BY <1>3
<1> QED BY <1>4 DEF n

LEMMA OpenBooks ==
    ASSUME IInv, frames # <<>>
    PROVE  SettledBooks = Head(frames).undo
PROOF
<1>1. frames \in Seq(Frame) /\ Tail(frames) = <<>>
      BY DEF IInv, TypeOK, OpenCallSound
<1>2. frames[Len(frames)] = Head(frames)
      BY <1>1, OnlyFrame
<1> QED BY <1>2 DEF SettledBooks

LEMMA InitBooks == Init => BooksInv
PROOF
<1> SUFFICES ASSUME Init PROVE BooksInv OBVIOUS
<1>1. IInv BY InitInv
<1>2. \A k \in RequestKey : requests[k].outcome = "UNSEEN"
      BY DEF Init, NoRecord
<1>3. \A m \in MandateId, i \in RequestId : requests[<<m, i>>].outcome = "UNSEEN"
      BY <1>2 DEF RequestKey
<1>4. \A m \in MandateId : mandates[m].spent = 0
      BY DEF Init, NoMandate
<1>5. BooksSound(mandates, requests, sequence)
      BY <1>3, <1>4 DEF BooksSound, Unborn, Spans
<1> QED BY <1>1, <1>5 DEF BooksInv, Init

\* The books of a mandate that only comes to life or is revoked stay sound.
LEMMA TermsMove ==
    ASSUME BooksSound(mandates, requests, sequence),
           UNCHANGED <<requests, sequence>>,
           \A m \in MandateId :
              /\ mandates[m].exists => /\ mandates'[m].exists
                                       /\ mandates'[m].cumulativeCap = mandates[m].cumulativeCap
              /\ mandates'[m].spent = mandates[m].spent
    PROVE  BooksSound(mandates, requests, sequence)'
PROOF
<1>1. Unborn(mandates, requests)'
      BY DEF BooksSound, Unborn
<1>2. Spans(mandates, requests, sequence)'
      BY DEF BooksSound, Spans, Unborn
<1> QED BY <1>1, <1>2 DEF BooksSound

LEMMA CreateMandateBooks ==
    ASSUME BooksInv, NEW agent \in Caller, NEW perPayment \in Amount,
           NEW cumulative \in Amount, NEW expiresAt \in Time,
           NEW recipients \in Allowlist,
           CreateMandate(agent, perPayment, cumulative, expiresAt, recipients)
    PROVE  BooksInv'
PROOF
<1> DEFINE new == [exists |-> TRUE, revoked |-> FALSE, agent |-> agent,
            perPaymentCap |-> perPayment, cumulativeCap |-> cumulative,
            spent |-> 0, expiresAt |-> expiresAt, recipients |-> recipients]
<1>1. IInv'
      BY CreateMandateInv DEF BooksInv
<1>2. nextMandateId \in MandateId /\ ~ mandates[nextMandateId].exists
      BY DEF BooksInv, IInv, TypeOK, Sound, CreateMandate, MandateId
<1>3. \A m \in MandateId :
          mandates'[m] = IF m = nextMandateId THEN new
                         ELSE IF m \in Replaced
                              THEN [mandates[m] EXCEPT !.revoked = TRUE]
                              ELSE mandates[m]
      BY <1>2 DEF CreateMandate, RetireReplaced
<1>4. \A m \in MandateId :
         /\ mandates[m].exists => /\ mandates'[m].exists
                                  /\ mandates'[m].cumulativeCap = mandates[m].cumulativeCap
         /\ mandates'[m].spent = mandates[m].spent
    <2> SUFFICES ASSUME NEW m \in MandateId
                 PROVE  /\ mandates[m].exists =>
                              /\ mandates'[m].exists
                              /\ mandates'[m].cumulativeCap = mandates[m].cumulativeCap
                        /\ mandates'[m].spent = mandates[m].spent
        OBVIOUS
    <2>1. mandates[m] \in Mandate
          BY DEF BooksInv, IInv, TypeOK
    <2>2. CASE m = nextMandateId
        <3>1. mandates[m].spent = 0
              BY <1>2, <2>2 DEF BooksInv, BooksSound, Unborn
        <3>2. mandates'[m] = new
              BY <1>3, <2>2
        <3>3. new.spent = 0
              OBVIOUS
        <3> HIDE DEF new
        <3> QED BY <1>2, <2>2, <3>1, <3>2, <3>3
    <2>3. CASE m # nextMandateId
          BY <1>3, <2>1, <2>3 DEF Mandate
    <2> QED BY <2>2, <2>3
<1>5. BooksSound(mandates, requests, sequence)'
      BY <1>4, TermsMove DEF BooksInv, CreateMandate
<1>6. frames' = <<>>
      BY DEF CreateMandate, NotEntered
<1> QED BY <1>1, <1>5, <1>6 DEF BooksInv

LEMMA RevokeMandateBooks ==
    ASSUME BooksInv, NEW m \in MandateId, RevokeMandate(m)
    PROVE  BooksInv'
PROOF
<1>1. IInv'
      BY RevokeMandateInv DEF BooksInv
<1>2. \A n \in MandateId :
         /\ mandates'[n].exists = mandates[n].exists
         /\ mandates'[n].cumulativeCap = mandates[n].cumulativeCap
         /\ mandates'[n].spent = mandates[n].spent
      BY DEF RevokeMandate, BooksInv, IInv, TypeOK, Mandate
<1>3. BooksSound(mandates, requests, sequence)'
      BY <1>2, TermsMove DEF BooksInv, RevokeMandate
<1>4. frames' = <<>>
      BY DEF RevokeMandate, NotEntered
<1> QED BY <1>1, <1>3, <1>4 DEF BooksInv

LEMMA WithdrawBooks ==
    ASSUME BooksInv, NEW amount \in Amount, Withdraw(amount)
    PROVE  BooksInv'
PROOF
<1>1. IInv'
      BY WithdrawInv DEF BooksInv
<1>2. UNCHANGED <<mandates, requests, sequence, balance>>
      BY DEF Withdraw
<1>3. BooksSound(mandates, requests, sequence)'
      BY <1>2 DEF BooksInv, BooksSound, Unborn, Spans
<1>4. frames' = <<[undo |-> Snapshot, to |-> Owner, amount |-> amount,
                   event |-> [kind |-> "Withdrawn", amount |-> amount]]>>
      BY DEF Withdraw, NotEntered, CallTransfer
<1>5. /\ Head(frames').amount = amount
      /\ Head(frames').undo = Snapshot
      BY <1>4
<1>6. OpenCall(Head(frames))'
      BY <1>2, <1>5 DEF OpenCall, OpenWithdrawal, Snapshot, BooksInv, BooksSound,
                        Unborn, Spans
<1> QED BY <1>1, <1>3, <1>6 DEF BooksInv

\* What one more record does to the books: an executed one begins where the
\* mandate's spending ended, and the others stay where they are.
LEMMA RecordAdded ==
    ASSUME BooksInv, NEW m \in MandateId, NEW id \in RequestId,
           NEW record \in RequestRecord,
           mandates[m].exists,
           record.outcome \in {"EXECUTED", "REFUSED"},
           record.sequence = sequence + 1,
           sequence' = sequence + 1,
           requests[<<m, id>>].outcome = "UNSEEN",
           requests' = [requests EXCEPT ![<<m, id>>] = record],
           record.outcome = "EXECUTED" =>
               /\ record.spentAfter = mandates[m].spent + record.attempted
               /\ record.spentAfter + record.headroom = mandates[m].cumulativeCap
               /\ mandates'[m].spent = record.spentAfter,
           record.outcome = "REFUSED" => mandates'[m].spent = mandates[m].spent,
           \A n \in MandateId :
               /\ mandates'[n].exists = mandates[n].exists
               /\ mandates'[n].cumulativeCap = mandates[n].cumulativeCap
               /\ n # m => mandates'[n].spent = mandates[n].spent
    PROVE  BooksSound(mandates, requests, sequence)'
PROOF
<1>1. \A n \in MandateId, i \in RequestId :
          requests'[<<n, i>>] = IF n = m /\ i = id THEN record ELSE requests[<<n, i>>]
      BY DEF BooksInv, IInv, TypeOK, RequestKey
<1>2. /\ \A n \in MandateId, i \in RequestId : requests[<<n, i>>] \in RequestRecord
      /\ \A n \in MandateId : mandates[n] \in Mandate
      /\ sequence \in Nat
      BY DEF BooksInv, IInv, TypeOK, RequestKey
<1>3. Unborn(mandates, requests)'
      BY <1>1 DEF BooksInv, BooksSound, Unborn
<1>4. Spans(mandates, requests, sequence)'
    <2> SUFFICES ASSUME NEW n \in MandateId, NEW i \in RequestId, NEW j \in RequestId
                 PROVE  LET a == requests'[<<n, i>>]
                            b == requests'[<<n, j>>]
                        IN  /\ a.outcome = "EXECUTED" =>
                                  /\ 0 <= SpanStart(a)
                                  /\ a.spentAfter <= mandates'[n].spent
                                  /\ a.spentAfter + a.headroom = mandates'[n].cumulativeCap
                                  /\ a.sequence <= sequence'
                            /\ a.outcome = "EXECUTED" /\ b.outcome = "EXECUTED" =>
                                  /\ a.sequence < b.sequence => a.spentAfter <= SpanStart(b)
                                  /\ i # j => a.sequence # b.sequence
        BY DEF Spans, SpanStart
    <2> DEFINE a == requests[<<n, i>>]
               b == requests[<<n, j>>]
    <2>1. /\ a \in RequestRecord /\ b \in RequestRecord
          /\ mandates[n] \in Mandate
          BY <1>2
    <2>2. /\ a.outcome = "EXECUTED" =>
                /\ 0 <= SpanStart(a)
                /\ a.spentAfter <= mandates[n].spent
                /\ a.spentAfter + a.headroom = mandates[n].cumulativeCap
                /\ a.sequence <= sequence
          /\ b.outcome = "EXECUTED" =>
                /\ b.spentAfter <= mandates[n].spent
                /\ b.sequence <= sequence
          /\ a.outcome = "EXECUTED" /\ b.outcome = "EXECUTED" =>
                /\ a.sequence < b.sequence => a.spentAfter <= SpanStart(b)
                /\ i # j => a.sequence # b.sequence
          BY DEF BooksInv, BooksSound, Spans
    <2>3. /\ requests'[<<n, i>>] = IF n = m /\ i = id THEN record ELSE a
          /\ requests'[<<n, j>>] = IF n = m /\ j = id THEN record ELSE b
          BY <1>1
    <2>4. mandates'[n].cumulativeCap = mandates[n].cumulativeCap
          /\ (n # m => mandates'[n].spent = mandates[n].spent)
          OBVIOUS
    <2> HIDE DEF a, b
    <2>5. CASE n # m
          BY <1>2, <2>1, <2>2, <2>3, <2>4, <2>5 DEF RequestRecord, Mandate, SpanStart
    <2>6. CASE n = m
        <3>1. mandates'[n].spent >= mandates[n].spent
              BY <1>2, <2>1, <2>6 DEF RequestRecord, Mandate
        <3>2. CASE i # id /\ j # id
              BY <1>2, <2>1, <2>2, <2>3, <2>4, <2>6, <3>1, <3>2
                 DEF RequestRecord, Mandate, SpanStart
        <3>3. CASE i = id /\ j # id
              BY <1>2, <2>1, <2>2, <2>3, <2>4, <2>6, <3>1, <3>3
                 DEF RequestRecord, Mandate, SpanStart
        <3>4. CASE i # id /\ j = id
              BY <1>2, <2>1, <2>2, <2>3, <2>4, <2>6, <3>1, <3>4
                 DEF RequestRecord, Mandate, SpanStart
        <3>5. CASE i = id /\ j = id
              BY <1>2, <2>1, <2>2, <2>3, <2>4, <2>6, <3>1, <3>5
                 DEF RequestRecord, Mandate, SpanStart
        <3> QED BY <3>2, <3>3, <3>4, <3>5
    <2> QED BY <2>5, <2>6
<1> QED BY <1>3, <1>4 DEF BooksSound

LEMMA ExecutePaymentBooks ==
    ASSUME BooksInv, NEW m \in MandateId, NEW id \in RequestId, NEW to \in Payee,
           NEW amount \in Amount, NEW sender \in Caller,
           ExecutePayment(m, id, to, amount, sender)
    PROVE  BooksInv'
PROOF
<1> DEFINE spentAfter == mandates[m].spent + amount
           record == [outcome |-> "EXECUTED", rule |-> "NONE", recipient |-> to,
                      attempted |-> amount,
                      headroom |-> mandates[m].cumulativeCap - spentAfter,
                      spentAfter |-> spentAfter, sequence |-> sequence + 1]
           event == [kind |-> "Executed", mandate |-> m, request |-> id,
                     record |-> record]
           k == <<m, id>>
<1>1. IInv'
      BY ExecutePaymentInv DEF BooksInv
<1>2. mandates[m] \in Mandate /\ amount \in Nat /\ sequence \in Nat /\ k \in RequestKey
      BY DEF BooksInv, IInv, TypeOK, RequestKey
<1>3. spentAfter \in Nat /\ spentAfter <= mandates[m].cumulativeCap
      /\ ~ mandates[m].revoked /\ now < mandates[m].expiresAt
    <2>1. RuleFor(m, to, amount) = "NONE"
          BY DEF ExecutePayment
    <2>2. /\ ~ Dead(m)
          /\ ~ (now >= mandates[m].expiresAt)
          /\ ~ (amount > Headroom(m))
          BY <2>1 DEF RuleFor
    <2>3. mandates[m].spent \in Nat /\ mandates[m].cumulativeCap \in Nat
          /\ mandates[m].expiresAt \in Nat /\ now \in Nat
          BY <1>2 DEF Mandate, BooksInv, IInv, TypeOK, Time
    <2>4. amount <= mandates[m].cumulativeCap - mandates[m].spent
          BY <1>2, <2>2, <2>3 DEF Headroom
    <2>5. ~ mandates[m].revoked
          BY <2>2 DEF Dead
    <2> QED BY <1>2, <2>2, <2>3, <2>4, <2>5
<1>4. record \in RequestRecord
    <2>1. mandates[m].cumulativeCap - spentAfter \in Nat
          BY <1>2, <1>3 DEF Mandate
    <2> QED BY <1>2, <1>3, <2>1 DEF RequestRecord, Rule
<1>5. /\ record.outcome = "EXECUTED"
      /\ record.sequence = sequence + 1
      /\ record.recipient = to /\ record.attempted = amount
      /\ record.spentAfter = spentAfter
      /\ record.headroom = mandates[m].cumulativeCap - spentAfter
      OBVIOUS
<1>6. /\ requests' = [requests EXCEPT ![k] = record]
      /\ sequence' = sequence + 1
      /\ mandates' = [mandates EXCEPT ![m].spent = spentAfter]
      /\ UNCHANGED <<balance, now>>
      BY DEF ExecutePayment, SaveSpent
<1>7. frames' = <<[undo |-> Snapshot, to |-> to, amount |-> amount, event |-> event]>>
      BY DEF ExecutePayment, Admissible, NotEntered, CallTransfer
<1>8. /\ Head(frames').amount = amount
      /\ Head(frames').to = to
      /\ Head(frames').undo = Snapshot
      BY <1>7
<1>9. requests[k].outcome = "UNSEEN" /\ mandates[m].exists /\ amount # 0
      BY DEF ExecutePayment, Admissible, Unseen
<1>10. \A n \in MandateId :
          /\ mandates'[n].exists = mandates[n].exists
          /\ mandates'[n].cumulativeCap = mandates[n].cumulativeCap
          /\ mandates'[n].spent = IF n = m THEN spentAfter ELSE mandates[n].spent
      BY <1>6 DEF BooksInv, IInv, TypeOK, Mandate
<1>11. record.spentAfter + record.headroom = mandates[m].cumulativeCap
      BY <1>2, <1>3, <1>5 DEF Mandate
<1> HIDE DEF record
<1>12. BooksSound(mandates, requests, sequence)'
    <2>1. /\ requests[<<m, id>>].outcome = "UNSEEN"
          /\ requests' = [requests EXCEPT ![<<m, id>>] = record]
          BY <1>6, <1>9
    <2>2. /\ record.spentAfter = mandates[m].spent + record.attempted
          /\ mandates'[m].spent = record.spentAfter
          BY <1>5, <1>10
    <2>3. \A n \in MandateId :
             /\ mandates'[n].exists = mandates[n].exists
             /\ mandates'[n].cumulativeCap = mandates[n].cumulativeCap
             /\ n # m => mandates'[n].spent = mandates[n].spent
          BY <1>10
    <2>4. /\ record.outcome \in {"EXECUTED", "REFUSED"}
          /\ record.sequence = sequence + 1
          /\ record.outcome = "REFUSED" => mandates'[m].spent = mandates[m].spent
          BY <1>5
    <2>5. record.outcome = "EXECUTED" =>
             /\ record.spentAfter = mandates[m].spent + record.attempted
             /\ record.spentAfter + record.headroom = mandates[m].cumulativeCap
             /\ mandates'[m].spent = record.spentAfter
          BY <1>11, <2>2
    <2>6. sequence' = sequence + 1 /\ mandates[m].exists
          BY <1>6, <1>9
    <2> HIDE DEF k, spentAfter
    <2> QED BY ONLY BooksInv, m \in MandateId, id \in RequestId,
               <1>4, <2>1, <2>3, <2>4, <2>5, <2>6, RecordAdded
<1>13. requests'[k] = record
      BY <1>2, <1>6 DEF BooksInv, IInv, TypeOK
<1>14. OpenPayment(Head(frames), k)'
    <2>1. mandates' = [mandates EXCEPT ![k[1]].spent = @ + amount]
          BY <1>6
    <2>2. mandates'[k[1]].spent <= mandates'[k[1]].cumulativeCap
          BY <1>3, <1>10
    <2>3. /\ Head(frames').undo.requests = requests
          /\ Head(frames').undo.mandates = mandates
          BY <1>8 DEF Snapshot
    <2>4. /\ requests'[k].outcome = "EXECUTED"
          /\ requests'[k].recipient = Head(frames').to
          /\ requests'[k].attempted = Head(frames').amount
          BY <1>5, <1>8, <1>13
    <2>5. k[1] = m
          OBVIOUS
    <2>6. requests' = [Head(frames').undo.requests EXCEPT ![k] = requests'[k]]
          BY <1>6, <1>13, <2>3
    <2>7. mandates' = [Head(frames').undo.mandates EXCEPT
                           ![k[1]].spent = @ + Head(frames').amount]
          BY <1>8, <2>1, <2>3
    <2>8. /\ Head(frames').undo.requests[k].outcome = "UNSEEN"
          /\ Head(frames').amount # 0
          /\ Head(frames').undo.mandates[k[1]].exists
          /\ ~ Head(frames').undo.mandates[k[1]].revoked
          /\ now' < Head(frames').undo.mandates[k[1]].expiresAt
          BY <1>3, <1>6, <1>8, <1>9, <2>3, <2>5
    <2> HIDE DEF k
    <2> QED BY <2>2, <2>4, <2>6, <2>7, <2>8 DEF OpenPayment
<1>15. OpenCall(Head(frames))'
      BY <1>2, <1>6, <1>8, <1>14 DEF OpenCall, Snapshot, BooksInv
<1> QED BY <1>1, <1>12, <1>15 DEF BooksInv

LEMMA RecordRefusalBooks ==
    ASSUME BooksInv, NEW m \in MandateId, NEW id \in RequestId, NEW to \in Payee,
           NEW amount \in Amount, NEW sender \in Caller,
           RecordRefusal(m, id, to, amount, sender)
    PROVE  BooksInv'
PROOF
<1> DEFINE record == [outcome |-> "REFUSED", rule |-> RuleFor(m, to, amount),
                      recipient |-> to, attempted |-> amount,
                      headroom |-> Headroom(m), spentAfter |-> mandates[m].spent,
                      sequence |-> sequence + 1]
<1>1. IInv'
      BY RecordRefusalInv DEF BooksInv
<1>2. mandates[m] \in Mandate /\ amount \in Nat /\ sequence \in Nat
      BY DEF BooksInv, IInv, TypeOK
<1>3. Headroom(m) \in Nat
      BY <1>2 DEF BooksInv, IInv, Sound, Headroom, Mandate
<1>4. RuleFor(m, to, amount) \in Rule
      BY DEF RuleFor, Rule, RefusalRule
<1>5. record \in RequestRecord
      BY <1>2, <1>3, <1>4 DEF RequestRecord, Mandate
<1>6. record.outcome = "REFUSED" /\ record.sequence = sequence + 1
      OBVIOUS
<1>7. /\ requests' = [requests EXCEPT ![<<m, id>>] = record]
      /\ sequence' = sequence + 1
      /\ UNCHANGED <<mandates, frames>>
      BY DEF RecordRefusal
<1>8. requests[<<m, id>>].outcome = "UNSEEN" /\ mandates[m].exists /\ frames = <<>>
      BY DEF RecordRefusal, Admissible, Unseen, NotEntered
<1> HIDE DEF record
<1>9. BooksSound(mandates, requests, sequence)'
      BY <1>5, <1>6, <1>7, <1>8, RecordAdded
<1> QED BY <1>1, <1>7, <1>8, <1>9 DEF BooksInv

LEMMA TransferSucceedsBooks ==
    ASSUME BooksInv, TransferSucceeds
    PROVE  BooksInv'
PROOF
<1>1. IInv'
      BY TransferSucceedsInv DEF BooksInv
<1>2. UNCHANGED <<mandates, requests, sequence>> /\ frames' = <<>>
      BY DEF TransferSucceeds, BooksInv, IInv, OpenCallSound
<1>3. BooksSound(mandates, requests, sequence)'
      BY <1>2 DEF BooksInv, BooksSound, Unborn, Spans
<1> QED BY <1>1, <1>2, <1>3 DEF BooksInv

LEMMA TransferFailsBooks ==
    ASSUME BooksInv, TransferFails
    PROVE  BooksInv'
PROOF
<1>1. IInv'
      BY TransferFailsInv DEF BooksInv
<1>2. /\ mandates' = Head(frames).undo.mandates
      /\ requests' = Head(frames).undo.requests
      /\ sequence' = Head(frames).undo.sequence
      /\ frames' = <<>>
      BY DEF TransferFails, RestoreBooks, BooksInv, IInv, OpenCallSound
<1>3. BooksSound(mandates, requests, sequence)'
    <2>1. BooksSound(Head(frames).undo.mandates, Head(frames).undo.requests,
                     Head(frames).undo.sequence)
          BY DEF BooksInv, TransferFails, OpenCall
    <2> QED BY <1>2, <2>1 DEF BooksSound, Unborn, Spans
<1> QED BY <1>1, <1>2, <1>3 DEF BooksInv

LEMMA BooksStep == BooksInv /\ [Next]_vars => BooksInv'
PROOF
<1> SUFFICES ASSUME BooksInv, [Next]_vars PROVE BooksInv'
    OBVIOUS
<1>1. CASE OwnerStep
      BY <1>1, CreateMandateBooks, RevokeMandateBooks, WithdrawBooks DEF OwnerStep
<1>2. CASE AgentStep
      BY <1>2, ExecutePaymentBooks, RecordRefusalBooks DEF AgentStep, Pay
<1>3. CASE TransferSucceeds
      BY <1>3, TransferSucceedsBooks
<1>4. CASE TransferFails
      BY <1>4, TransferFailsBooks
<1>5. CASE (\E amount \in Amount : Fund(amount)) \/ NextBlock
    <2>1. IInv'
          BY <1>5, FundInv, NextBlockInv DEF BooksInv
    <2>2. UNCHANGED <<mandates, requests, sequence, frames>> /\ frames = <<>>
          BY <1>5 DEF Fund, NextBlock, NotEntered
    <2> QED BY <2>1, <2>2 DEF BooksInv, BooksSound, Unborn, Spans
<1>6. CASE UNCHANGED vars
    <2>1. IInv'
          BY <1>6, StepInv DEF BooksInv
    <2>2. UNCHANGED <<mandates, requests, sequence, balance, now, frames>>
          BY <1>6 DEF vars
    <2>3. BooksSound(mandates, requests, sequence)'
          BY <2>2 DEF BooksInv, BooksSound, Unborn, Spans
    <2>4. CASE frames = <<>>
          BY <2>1, <2>2, <2>3, <2>4 DEF BooksInv
    <2>5. CASE frames # <<>>
        <3> DEFINE f == Head(frames)
        <3>1. OpenCall(f) /\ f' = f
              BY <2>2, <2>5 DEF BooksInv
        <3> HIDE DEF f
        <3>2. (OpenWithdrawal(f) \/ \E k \in RequestKey : OpenPayment(f, k))'
              BY <2>2, <3>1 DEF OpenCall, OpenWithdrawal, OpenPayment
        <3>3. OpenCall(f)'
              BY <2>2, <3>1, <3>2 DEF OpenCall, BooksSound, Unborn, Spans
        <3> QED BY <2>1, <2>3, <3>3 DEF BooksInv, f
    <2> QED BY <2>4, <2>5
<1> QED BY <1>1, <1>2, <1>3, <1>4, <1>5, <1>6 DEF Next

THEOREM BooksInvariance == Spec => []BooksInv
PROOF BY InitBooks, BooksStep, PTL DEF Spec

\* No two payments of a mandate are ever charged to the same part of its budget,
\* also while a payment is under way and after one was undone.
THEOREM BudgetIsPartitioned == Spec => []SpendingIsPartitioned
PROOF
<1>1. BooksInv => SpendingIsPartitioned
      BY DEF BooksInv, BooksSound, Spans, SpendingIsPartitioned, Executed
<1> QED BY <1>1, BooksInvariance, PTL

-----------------------------------------------------------------------------
\* No step rewrites a settled record.
LEMMA RecordsStep ==
    ASSUME BooksInv, [Next]_vars, NEW k \in RequestKey, Settled(k)
    PROVE  requests'[k] = requests[k]
PROOF
<1>1. CASE OwnerStep
      BY <1>1 DEF OwnerStep, CreateMandate, RevokeMandate, Withdraw
<1>2. CASE AgentStep
    <2>1. PICK m \in MandateId, id \in RequestId :
              /\ Unseen(m, id)
              /\ \E record : requests' = [requests EXCEPT ![<<m, id>>] = record]
          BY <1>2 DEF AgentStep, Pay, ExecutePayment, RecordRefusal, Admissible
    <2>2. k # <<m, id>>
          BY <2>1 DEF Settled, Unseen
    <2> QED BY <2>1, <2>2 DEF BooksInv, IInv, TypeOK
<1>3. CASE TransferSucceeds
      BY <1>3 DEF TransferSucceeds
<1>4. CASE TransferFails
      BY <1>4 DEF TransferFails, RestoreBooks, Settled
<1>5. CASE \E amount \in Amount : Fund(amount)
      BY <1>5 DEF Fund
<1>6. CASE NextBlock
      BY <1>6 DEF NextBlock
<1>7. CASE UNCHANGED vars
      BY <1>7 DEF vars
<1> QED BY <1>1, <1>2, <1>3, <1>4, <1>5, <1>6, <1>7 DEF Next

\* The evidence of a payment is permanent: no replay, later payment, revocation
\* or undone transfer rewrites a record that was settled.
THEOREM RecordsStay == Spec => RecordsArePermanent
PROOF
<1>1. BooksInv /\ [Next]_vars =>
          [\A k \in RequestKey : Settled(k) => requests'[k] = requests[k]]_vars
      BY RecordsStep
<1> QED BY <1>1, BooksInvariance, PTL DEF Spec, RecordsArePermanent

-----------------------------------------------------------------------------
\* What one step may do to a mandate that exists.
LifeGoesOn(old, new) ==
    /\ new = [old EXCEPT !.spent = new.spent, !.revoked = new.revoked]
    /\ old.revoked => new.revoked
    /\ old.revoked \/ now >= old.expiresAt => new.spent = old.spent

LEMMA MandatesStep ==
    ASSUME BooksInv, [Next]_vars, NEW m \in MandateId, mandates[m].exists
    PROVE  LifeGoesOn(mandates[m], mandates'[m])
PROOF
<1>1. mandates[m] \in Mandate /\ now \in Nat
      BY DEF BooksInv, IInv, TypeOK, Time
<1>2. ASSUME mandates'[m] = mandates[m]
      PROVE  LifeGoesOn(mandates[m], mandates'[m])
      BY <1>1, <1>2 DEF LifeGoesOn, Mandate
<1>3. ASSUME mandates'[m] = [mandates[m] EXCEPT !.revoked = TRUE]
      PROVE  LifeGoesOn(mandates[m], mandates'[m])
      BY <1>1, <1>3 DEF LifeGoesOn, Mandate
<1>4. CASE OwnerStep
    <2>1. ASSUME NEW agent \in Caller, NEW perPayment \in Amount,
                 NEW cumulative \in Amount, NEW expiresAt \in Time,
                 NEW recipients \in Allowlist,
                 CreateMandate(agent, perPayment, cumulative, expiresAt, recipients)
          PROVE  LifeGoesOn(mandates[m], mandates'[m])
        <3>1. m # nextMandateId
              BY DEF BooksInv, IInv, TypeOK, Sound, MandateId
        <3>2. \/ mandates'[m] = mandates[m]
              \/ mandates'[m] = [mandates[m] EXCEPT !.revoked = TRUE]
              BY <2>1, <3>1 DEF CreateMandate, RetireReplaced
        <3> QED BY <1>2, <1>3, <3>2
    <2>2. ASSUME NEW n \in MandateId, RevokeMandate(n)
          PROVE  LifeGoesOn(mandates[m], mandates'[m])
        <3>1. \/ mandates'[m] = mandates[m]
              \/ mandates'[m] = [mandates[m] EXCEPT !.revoked = TRUE]
              BY <2>2 DEF RevokeMandate, BooksInv, IInv, TypeOK
        <3> QED BY <1>2, <1>3, <3>1
    <2>3. ASSUME NEW amount \in Amount, Withdraw(amount)
          PROVE  LifeGoesOn(mandates[m], mandates'[m])
          BY <1>2, <2>3 DEF Withdraw
    <2> QED BY <1>4, <2>1, <2>2, <2>3 DEF OwnerStep
<1>5. CASE AgentStep
    <2>1. PICK n \in MandateId, id \in RequestId, to \in Payee, amount \in Amount,
               sender \in Caller : Pay(n, id, to, amount, sender)
          BY <1>5 DEF AgentStep
    <2>2. CASE RecordRefusal(n, id, to, amount, sender)
          BY <1>2, <2>2 DEF RecordRefusal
    <2>3. CASE ExecutePayment(n, id, to, amount, sender)
        <3>1. CASE n # m
            <4>1. mandates'[m] = mandates[m]
                  BY <2>3, <3>1 DEF ExecutePayment, SaveSpent, BooksInv, IInv, TypeOK
            <4> QED BY <1>2, <4>1
        <3>2. CASE n = m
            <4>1. RuleFor(m, to, amount) = "NONE"
                  BY <2>3, <3>2 DEF ExecutePayment
            <4>2. ~ mandates[m].revoked /\ ~ (now >= mandates[m].expiresAt)
                  BY <4>1 DEF RuleFor, Dead
            <4>3. mandates'[m] = [mandates[m] EXCEPT !.spent = mandates[m].spent + amount]
                  BY <2>3, <3>2 DEF ExecutePayment, SaveSpent, BooksInv, IInv, TypeOK
            <4> QED BY <1>1, <4>2, <4>3 DEF LifeGoesOn, Mandate
        <3> QED BY <3>1, <3>2
    <2> QED BY <2>1, <2>2, <2>3 DEF Pay
<1>6. CASE TransferSucceeds
      BY <1>2, <1>6 DEF TransferSucceeds
<1>7. CASE TransferFails
    <2> DEFINE f == Head(frames)
    <2>1. OpenCall(f) /\ mandates' = f.undo.mandates
          BY <1>7 DEF BooksInv, TransferFails, RestoreBooks
    <2>2. f.undo.mandates \in [MandateId -> Mandate]
          BY <1>7, FrameType DEF BooksInv, IInv, TransferFails, Frame, Journaled
    <2> HIDE DEF f
    <2>3. CASE OpenWithdrawal(f)
          BY <1>2, <2>1, <2>3 DEF OpenWithdrawal
    <2>4. ASSUME NEW k \in RequestKey, OpenPayment(f, k)
          PROVE  LifeGoesOn(mandates[m], mandates'[m])
        <3> DEFINE old == f.undo.mandates[m]
        <3>1. old \in Mandate /\ mandates'[m] = old
              BY <2>1, <2>2
        <3>2. CASE k[1] # m
            <4>1. mandates[m] = old
                  BY <2>2, <2>4, <3>2 DEF OpenPayment
            <4> QED BY <1>2, <3>1, <4>1
        <3>3. CASE k[1] = m
            <4>1. mandates[m] = [old EXCEPT !.spent = old.spent + f.amount]
                  BY <2>2, <2>4, <3>3 DEF OpenPayment
            <4>2. ~ old.revoked /\ now < old.expiresAt
                  BY <2>4, <3>3 DEF OpenPayment
            <4>3. mandates[m].revoked = old.revoked /\ mandates[m].expiresAt = old.expiresAt
                  BY <3>1, <4>1 DEF Mandate
            <4>4. ~ mandates[m].revoked /\ ~ (now >= mandates[m].expiresAt)
                  BY <1>1, <4>2, <4>3 DEF Mandate
            <4>5. old = [mandates[m] EXCEPT !.spent = old.spent, !.revoked = old.revoked]
                  BY <3>1, <4>1 DEF Mandate
            <4> HIDE DEF old
            <4> QED BY <3>1, <4>4, <4>5 DEF LifeGoesOn
        <3> QED BY <3>2, <3>3
    <2> QED BY <2>1, <2>3, <2>4 DEF OpenCall
<1>8. CASE \E amount \in Amount : Fund(amount)
      BY <1>2, <1>8 DEF Fund
<1>9. CASE NextBlock
      BY <1>2, <1>9 DEF NextBlock
<1>10. CASE UNCHANGED vars
      BY <1>2, <1>10 DEF vars
<1> QED BY <1>4, <1>5, <1>6, <1>7, <1>8, <1>9, <1>10 DEF Next

\* A mandate's terms are fixed, and once it is revoked or has expired its spending
\* is frozen: no payment, replacement or undone transfer brings budget back.
THEOREM DeadStayDead == Spec => DeadMandatesStayDead
PROOF
<1>1. BooksInv /\ [Next]_vars =>
          [\A m \in MandateId :
              LET old == mandates[m]
                  new == mandates'[m]
              IN  old.exists =>
                    /\ new = [old EXCEPT !.spent = new.spent, !.revoked = new.revoked]
                    /\ old.revoked => new.revoked
                    /\ old.revoked \/ now >= old.expiresAt => new.spent = old.spent]_vars
      BY MandatesStep DEF LifeGoesOn
<1> QED BY <1>1, BooksInvariance, PTL DEF Spec, DeadMandatesStayDead

-----------------------------------------------------------------------------
\* The ledger's variables, as the refinement mapping reads them off the books.
LStatus  == [m \in MandateId |-> StatusOf(SettledBooks.mandates[m])]
LCap     == [m \in MandateId |-> SettledBooks.mandates[m].cumulativeCap]
LSpent   == [m \in MandateId |-> SettledBooks.mandates[m].spent]
LVerdict == [k \in RequestKey |-> VerdictOf(SettledBooks.requests[k])]
LHolding == SettledBooks.balance

LedgerStays == UNCHANGED <<LStatus, LCap, LSpent, LVerdict, LHolding>>

LedgerMoves == Ledger!LedgerNext \/ LedgerStays

\* With no call open, the settled books are the present ones.
LEMMA Closed ==
    ASSUME frames = <<>>
    PROVE  /\ SettledBooks = Snapshot
           /\ LStatus = [m \in MandateId |-> StatusOf(mandates[m])]
           /\ LCap = [m \in MandateId |-> mandates[m].cumulativeCap]
           /\ LSpent = [m \in MandateId |-> mandates[m].spent]
           /\ LVerdict = [k \in RequestKey |-> VerdictOf(requests[k])]
           /\ LHolding = balance
PROOF BY DEF SettledBooks, Snapshot, LStatus, LCap, LSpent, LVerdict, LHolding

LEMMA ClosedNext ==
    ASSUME frames' = <<>>
    PROVE  /\ LStatus' = [m \in MandateId |-> StatusOf(mandates'[m])]
           /\ LCap' = [m \in MandateId |-> mandates'[m].cumulativeCap]
           /\ LSpent' = [m \in MandateId |-> mandates'[m].spent]
           /\ LVerdict' = [k \in RequestKey |-> VerdictOf(requests'[k])]
           /\ LHolding' = balance'
PROOF
<1>1. /\ SettledBooks'.mandates = mandates'
      /\ SettledBooks'.requests = requests'
      /\ SettledBooks'.balance = balance'
      BY DEF SettledBooks, Snapshot
<1>2. LStatus' = [m \in MandateId |-> StatusOf(mandates'[m])]
      BY <1>1 DEF LStatus
<1>3. LVerdict' = [k \in RequestKey |-> VerdictOf(requests'[k])]
      BY <1>1 DEF LVerdict
<1> QED BY <1>1, <1>2, <1>3 DEF LCap, LSpent, LHolding

LEMMA Verdicts ==
    ASSUME NEW record
    PROVE  /\ record.outcome = "UNSEEN" => VerdictOf(record) = Ledger!None
           /\ record.outcome = "REFUSED" => VerdictOf(record) = Ledger!Refused
           /\ record.outcome = "EXECUTED" =>
                  VerdictOf(record) = Ledger!Paid(record.recipient, record.attempted)
PROOF BY DEF VerdictOf, Ledger!None, Ledger!Refused, Ledger!Paid

LEMMA InitLedger == Init => Ledger!LedgerInit
PROOF
<1> SUFFICES ASSUME Init PROVE Ledger!LedgerInit OBVIOUS
<1>1. frames = <<>> /\ SettledBooks = Snapshot
      BY DEF Init, SettledBooks
<1>2. \A m \in MandateId : mandates[m] = NoMandate
      BY DEF Init
<1>3. \A k \in RequestKey : VerdictOf(requests[k]) = Ledger!None
      BY Verdicts DEF Init, NoRecord
<1>4. balance \in [Addr -> Nat] /\ balance[Self] = 0
      BY DEF Init
<1> QED BY <1>1, <1>2, <1>3, <1>4
           DEF Ledger!LedgerInit, Snapshot, NoMandate, StatusOf

\* Opening a call leaves the settled books as they were.
LEMMA OpeningStays ==
    ASSUME IInv', frames = <<>>, frames' # <<>>, Head(frames').undo = Snapshot
    PROVE  LedgerStays
PROOF
<1>1. frames' \in Seq(Frame) /\ Tail(frames') = <<>>
      BY DEF IInv, TypeOK, OpenCallSound
<1>2. frames'[Len(frames')] = Head(frames')
      BY <1>1, OnlyFrame
<1>3. SettledBooks' = SettledBooks
      BY <1>2 DEF SettledBooks
<1> QED BY <1>3 DEF LedgerStays, LStatus, LCap, LSpent, LVerdict, LHolding

\* Creating a mandate opens a new budget and closes the one before it.
LEMMA CreateMandateLedger ==
    ASSUME BooksInv, NEW agent \in Caller, NEW perPayment \in Amount,
           NEW cumulative \in Amount, NEW expiresAt \in Time,
           NEW recipients \in Allowlist,
           CreateMandate(agent, perPayment, cumulative, expiresAt, recipients)
    PROVE  Ledger!Grant(nextMandateId, cumulative) /\ nextMandateId \in MandateId
PROOF
<1> DEFINE n == nextMandateId
           new == [exists |-> TRUE, revoked |-> FALSE, agent |-> agent,
            perPaymentCap |-> perPayment, cumulativeCap |-> cumulative,
            spent |-> 0, expiresAt |-> expiresAt, recipients |-> recipients]
<1>1. n \in MandateId /\ ~ mandates[n].exists
      BY DEF BooksInv, IInv, TypeOK, Sound, CreateMandate, MandateId
<1>2. \A m \in MandateId :
          mandates'[m] = IF m = n THEN new
                         ELSE IF m \in Replaced
                              THEN [mandates[m] EXCEPT !.revoked = TRUE]
                              ELSE mandates[m]
      BY <1>1 DEF CreateMandate, RetireReplaced
<1>3. frames = <<>> /\ frames' = <<>> /\ UNCHANGED <<requests, balance>>
      BY DEF CreateMandate, NotEntered
<1>4. mandates[n].spent = 0
      BY <1>1 DEF BooksInv, BooksSound, Unborn
<1>5. new.spent = 0 /\ new.cumulativeCap = cumulative /\ StatusOf(new) = "open"
      BY DEF StatusOf
<1>6. cumulative > 0
      BY DEF CreateMandate, ValidCaps
<1> HIDE DEF new
<1>7. ASSUME NEW m \in MandateId
      PROVE  /\ StatusOf(mandates'[m]) = IF m = n THEN "open"
                                         ELSE IF StatusOf(mandates[m]) = "open" THEN "closed"
                                         ELSE StatusOf(mandates[m])
             /\ mandates'[m].cumulativeCap = IF m = n THEN cumulative
                                             ELSE mandates[m].cumulativeCap
             /\ mandates'[m].spent = mandates[m].spent
    <2>1. mandates[m] \in Mandate
          BY DEF BooksInv, IInv, TypeOK
    <2>2. CASE m = n
          BY <1>2, <1>4, <1>5, <2>2
    <2>3. CASE m # n /\ m \in Replaced
        <3>1. mandates'[m] = [mandates[m] EXCEPT !.revoked = TRUE]
              BY <1>2, <2>3
        <3>2. mandates[m].exists /\ ~ mandates[m].revoked
              BY <2>3 DEF Replaced, BooksInv, IInv, Sound
        <3> QED BY <2>1, <2>3, <3>1, <3>2 DEF StatusOf, Mandate
    <2>4. CASE m # n /\ m \notin Replaced
        <3>1. mandates'[m] = mandates[m]
              BY <1>2, <2>4
        <3>2. ~ (mandates[m].exists /\ ~ mandates[m].revoked)
              BY <2>4 DEF Replaced, BooksInv, IInv, Sound
        <3> QED BY <2>4, <3>1, <3>2 DEF StatusOf
    <2> QED BY <2>2, <2>3, <2>4
<1>8. /\ LStatus[n] = "none"
      /\ LStatus' = [x \in MandateId |-> IF x = n THEN "open"
                                         ELSE IF LStatus[x] = "open" THEN "closed"
                                         ELSE LStatus[x]]
    <2>1. LStatus[n] = "none"
          BY <1>1, <1>3, Closed DEF StatusOf
    <2>2. LStatus = [m \in MandateId |-> StatusOf(mandates[m])]
          BY <1>3, Closed
    <2>3. LStatus' = [m \in MandateId |-> StatusOf(mandates'[m])]
          BY <1>3, ClosedNext
    <2> QED BY <1>7, <2>1, <2>2, <2>3
<1>9. LCap' = [LCap EXCEPT ![n] = cumulative]
    <2>1. LCap = [m \in MandateId |-> mandates[m].cumulativeCap]
          BY <1>3, Closed
    <2>2. LCap' = [m \in MandateId |-> mandates'[m].cumulativeCap]
          BY <1>3, ClosedNext
    <2> QED BY <1>7, <2>1, <2>2
<1>10. UNCHANGED <<LSpent, LVerdict, LHolding>>
    <2>1. LSpent = [m \in MandateId |-> mandates[m].spent]
          BY <1>3, Closed
    <2>2. LSpent' = [m \in MandateId |-> mandates'[m].spent]
          BY <1>3, ClosedNext
    <2>3. LSpent' = LSpent
          BY <1>7, <2>1, <2>2
    <2> QED BY <1>3, <2>3, Closed, ClosedNext
<1> QED BY <1>1, <1>6, <1>8, <1>9, <1>10
           DEF Ledger!Grant, LStatus, LCap, LSpent, LVerdict, LHolding

\* Revoking the active mandate closes its budget.
LEMMA RevokeMandateLedger ==
    ASSUME BooksInv, NEW n \in MandateId, RevokeMandate(n)
    PROVE  Ledger!Close(n)
PROOF
<1>1. frames = <<>> /\ frames' = <<>> /\ UNCHANGED <<requests, balance>>
      BY DEF RevokeMandate, NotEntered
<1>2. ASSUME NEW m \in MandateId
      PROVE  /\ StatusOf(mandates'[m]) = IF m = n THEN "closed" ELSE StatusOf(mandates[m])
             /\ mandates'[m].cumulativeCap = mandates[m].cumulativeCap
             /\ mandates'[m].spent = mandates[m].spent
      BY DEF RevokeMandate, BooksInv, IInv, TypeOK, Mandate, StatusOf
<1>3. /\ LStatus = [m \in MandateId |-> StatusOf(mandates[m])]
      /\ LCap = [m \in MandateId |-> mandates[m].cumulativeCap]
      /\ LSpent = [m \in MandateId |-> mandates[m].spent]
      /\ LVerdict = [k \in RequestKey |-> VerdictOf(requests[k])]
      /\ LHolding = balance
      BY <1>1, Closed
<1>4. /\ LStatus' = [m \in MandateId |-> StatusOf(mandates'[m])]
      /\ LCap' = [m \in MandateId |-> mandates'[m].cumulativeCap]
      /\ LSpent' = [m \in MandateId |-> mandates'[m].spent]
      /\ LVerdict' = [k \in RequestKey |-> VerdictOf(requests'[k])]
      /\ LHolding' = balance'
      BY <1>1, ClosedNext
<1>5. LStatus[n] = "open"
      BY <1>3 DEF RevokeMandate, StatusOf
<1>6. LStatus' = [LStatus EXCEPT ![n] = "closed"]
      BY <1>2, <1>3, <1>4
<1>7. UNCHANGED <<LCap, LSpent, LVerdict, LHolding>>
      BY <1>1, <1>2, <1>3, <1>4
<1> QED BY <1>5, <1>6, <1>7
           DEF Ledger!Close, LStatus, LCap, LSpent, LVerdict, LHolding

\* A recorded refusal is a verdict, and nothing else.
LEMMA RecordRefusalLedger ==
    ASSUME BooksInv, NEW m \in MandateId, NEW id \in RequestId, NEW to \in Payee,
           NEW amount \in Amount, NEW sender \in Caller,
           RecordRefusal(m, id, to, amount, sender)
    PROVE  Ledger!Refuse(<<m, id>>)
PROOF
<1> DEFINE k == <<m, id>>
           record == [outcome |-> "REFUSED", rule |-> RuleFor(m, to, amount),
                      recipient |-> to, attempted |-> amount,
                      headroom |-> Headroom(m), spentAfter |-> mandates[m].spent,
                      sequence |-> sequence + 1]
<1>1. /\ frames = <<>> /\ frames' = <<>>
      /\ UNCHANGED <<mandates, balance>>
      /\ requests[k].outcome = "UNSEEN" /\ mandates[m].exists
      BY DEF RecordRefusal, Admissible, NotEntered, Unseen
<1>2. requests' = [requests EXCEPT ![k] = record] /\ record.outcome = "REFUSED"
      BY DEF RecordRefusal
<1> HIDE DEF record
<1>3. /\ LStatus = [n \in MandateId |-> StatusOf(mandates[n])]
      /\ LVerdict = [j \in RequestKey |-> VerdictOf(requests[j])]
      BY <1>1, Closed
<1>4. LVerdict' = [j \in RequestKey |-> VerdictOf(requests'[j])]
      BY <1>1, ClosedNext
<1>5. UNCHANGED <<LStatus, LCap, LSpent, LHolding>>
      BY <1>1, Closed, ClosedNext
<1>6. k \in RequestKey /\ requests'[k] = record
      BY <1>2 DEF BooksInv, IInv, TypeOK, RequestKey
<1>7. LVerdict[k] = Ledger!None
      BY <1>1, <1>3, <1>6, Verdicts
<1>8. VerdictOf(requests'[k]) = Ledger!Refused
      BY <1>2, <1>6, Verdicts
<1>9. LVerdict' = [LVerdict EXCEPT ![k] = Ledger!Refused]
    <2>1. \A j \in RequestKey : j # k => requests'[j] = requests[j]
          BY <1>2 DEF BooksInv, IInv, TypeOK
    <2> HIDE DEF k
    <2> QED BY <1>3, <1>4, <1>6, <1>8, <2>1
<1>10. LStatus[k[1]] # "none"
      BY <1>1, <1>3 DEF StatusOf
<1> HIDE DEF k
<1>11. Ledger!Refuse(k)
      BY <1>5, <1>7, <1>9, <1>10
         DEF Ledger!Refuse, LStatus, LCap, LSpent, LVerdict, LHolding
<1> QED BY <1>11 DEF k

LEMMA FundLedger ==
    ASSUME BooksInv, NEW amount \in Amount, Fund(amount)
    PROVE  Ledger!Move(Faucet, Self, amount)
PROOF
<1>1. /\ frames = <<>> /\ frames' = <<>> /\ UNCHANGED <<mandates, requests>>
      /\ balance[Faucet] >= amount
      /\ balance' = Moved(Faucet, Self, amount)
      BY DEF Fund, NotEntered
<1>2. UNCHANGED <<LStatus, LCap, LSpent, LVerdict>> /\ LHolding = balance
      /\ LHolding' = balance'
      BY <1>1, Closed, ClosedNext
<1>3. amount <= LHolding[Faucet]
      BY <1>1, <1>2 DEF BooksInv, IInv, TypeOK
<1>4. LHolding' = [p \in Addr |-> LHolding[p] + (IF p = Self THEN amount ELSE 0)
                                             - (IF p = Faucet THEN amount ELSE 0)]
      BY <1>1, <1>2 DEF Moved
<1> QED BY <1>2, <1>3, <1>4
           DEF Ledger!Move, Ledger!Transfer, LStatus, LCap, LSpent, LVerdict, LHolding

\* A transfer that succeeds is a whole payment, or the owner's withdrawal.
LEMMA TransferSucceedsLedger ==
    ASSUME BooksInv, TransferSucceeds
    PROVE  LedgerMoves
PROOF
<1> DEFINE f == Head(frames)
<1>1. frames # <<>> /\ frames' = <<>> /\ f \in Frame
      BY FrameType DEF TransferSucceeds, BooksInv, IInv, OpenCallSound
<1>2. OpenCall(f) /\ SettledBooks = f.undo
      BY <1>1, OpenBooks DEF BooksInv
<1>3. /\ balance[Self] >= f.amount
      /\ balance' = Moved(Self, f.to, f.amount)
      /\ UNCHANGED <<mandates, requests>>
      BY DEF TransferSucceeds
<1>4. /\ f.amount \in Amount /\ f.amount \in Nat /\ f.to \in Addr
      /\ f.undo.mandates \in [MandateId -> Mandate]
      /\ f.undo.requests \in [RequestKey -> RequestRecord]
      /\ f.undo.balance = balance
      BY <1>1, <1>2 DEF OpenCall, Frame, Journaled
<1> HIDE DEF f
<1>5. /\ LStatus = [m \in MandateId |-> StatusOf(f.undo.mandates[m])]
      /\ LCap = [m \in MandateId |-> f.undo.mandates[m].cumulativeCap]
      /\ LSpent = [m \in MandateId |-> f.undo.mandates[m].spent]
      /\ LVerdict = [k \in RequestKey |-> VerdictOf(f.undo.requests[k])]
      /\ LHolding = balance
      BY <1>2, <1>4 DEF LStatus, LCap, LSpent, LVerdict, LHolding
<1>6. /\ LStatus' = [m \in MandateId |-> StatusOf(mandates[m])]
      /\ LCap' = [m \in MandateId |-> mandates[m].cumulativeCap]
      /\ LSpent' = [m \in MandateId |-> mandates[m].spent]
      /\ LVerdict' = [k \in RequestKey |-> VerdictOf(requests[k])]
      /\ LHolding' = balance'
      BY <1>1, <1>3, ClosedNext
<1>7. LHolding' = [p \in Addr |-> LHolding[p] + (IF p = f.to THEN f.amount ELSE 0)
                                             - (IF p = Self THEN f.amount ELSE 0)]
      BY <1>3, <1>5, <1>6 DEF Moved
<1>8. f.amount <= LHolding[Self]
      BY <1>3, <1>5
<1>9. CASE OpenWithdrawal(f)
    <2>1. UNCHANGED <<LStatus, LCap, LSpent, LVerdict>>
          BY <1>5, <1>6, <1>9 DEF OpenWithdrawal
    <2>2. Ledger!Move(Self, f.to, f.amount)
          BY <1>7, <1>8, <2>1
             DEF Ledger!Move, Ledger!Transfer, LStatus, LCap, LSpent, LVerdict, LHolding
    <2> QED BY <1>4, <2>2 DEF LedgerMoves, Ledger!LedgerNext
<1>10. ASSUME NEW k \in RequestKey, OpenPayment(f, k),
              NEW to \in Addr, NEW amount \in Amount, to = f.to, amount = f.amount
       PROVE  Ledger!Spend(k, to, amount)
    <2> DEFINE b == k[1]
    <2>1. b \in MandateId
          BY DEF RequestKey
    <2>2. ASSUME NEW m \in MandateId
          PROVE  /\ StatusOf(mandates[m]) = StatusOf(f.undo.mandates[m])
                 /\ mandates[m].cumulativeCap = f.undo.mandates[m].cumulativeCap
                 /\ mandates[m].spent = IF m = b THEN f.undo.mandates[m].spent + f.amount
                                        ELSE f.undo.mandates[m].spent
          BY <1>4, <1>10 DEF OpenPayment, StatusOf, Mandate
    <2>3. UNCHANGED <<LStatus, LCap>>
          BY <1>5, <1>6, <2>2
    <2>4. LSpent' = [LSpent EXCEPT ![b] = @ + f.amount]
          BY <1>5, <1>6, <2>2
    <2>5. LVerdict[k] = Ledger!None
          BY <1>5, <1>10, Verdicts DEF OpenPayment
    <2>6. LVerdict' = [LVerdict EXCEPT ![k] = Ledger!Paid(f.to, f.amount)]
        <3>1. VerdictOf(requests[k]) = Ledger!Paid(f.to, f.amount)
              BY <1>10, Verdicts DEF OpenPayment
        <3>2. \A j \in RequestKey : j # k => requests[j] = f.undo.requests[j]
              BY <1>4, <1>10 DEF OpenPayment
        <3> QED BY <1>5, <1>6, <3>1, <3>2
    <2>7. LStatus[b] = "open" /\ f.amount > 0
          BY <1>4, <1>5, <1>10, <2>1 DEF OpenPayment, StatusOf
    <2>8. LSpent[b] + f.amount <= LCap[b]
        <3>1. mandates[b].spent <= mandates[b].cumulativeCap
              BY <1>10 DEF OpenPayment
        <3> QED BY <1>5, <2>1, <2>2, <3>1
    <2> QED BY <1>7, <1>8, <1>10, <2>3, <2>4, <2>5, <2>6, <2>7, <2>8
               DEF Ledger!Spend, Ledger!Transfer, LStatus, LCap, LSpent, LVerdict,
                   LHolding
<1>11. ASSUME NEW k \in RequestKey, OpenPayment(f, k)
       PROVE  LedgerMoves
    <2>1. PICK to \in Addr, amount \in Amount : to = f.to /\ amount = f.amount
          BY <1>4
    <2>2. Ledger!Spend(k, to, amount)
          BY <1>10, <1>11, <2>1
    <2>3. Ledger!LedgerNext
          BY <2>2 DEF Ledger!LedgerNext
    <2> QED BY <2>3 DEF LedgerMoves
<1> QED BY <1>2, <1>9, <1>11 DEF OpenCall

\* A transfer that fails leaves the world as it was before the handler.
LEMMA TransferFailsLedger ==
    ASSUME BooksInv, TransferFails
    PROVE  LedgerStays
PROOF
<1> DEFINE f == Head(frames)
<1>1. frames # <<>> /\ frames' = <<>>
      BY DEF TransferFails, BooksInv, IInv, OpenCallSound
<1>2. SettledBooks = f.undo
      BY <1>1, OpenBooks DEF BooksInv
<1>3. /\ mandates' = f.undo.mandates
      /\ requests' = f.undo.requests
      /\ balance' = f.undo.balance
      BY DEF TransferFails, RestoreBooks
<1> HIDE DEF f
<1>4. /\ LStatus = [m \in MandateId |-> StatusOf(mandates'[m])]
      /\ LCap = [m \in MandateId |-> mandates'[m].cumulativeCap]
      /\ LSpent = [m \in MandateId |-> mandates'[m].spent]
      /\ LVerdict = [k \in RequestKey |-> VerdictOf(requests'[k])]
      /\ LHolding = balance'
      BY <1>2, <1>3 DEF LStatus, LCap, LSpent, LVerdict, LHolding
<1> QED BY <1>1, <1>4, ClosedNext DEF LedgerStays

LEMMA LedgerStep == BooksInv /\ [Next]_vars => LedgerMoves
PROOF
<1> SUFFICES ASSUME BooksInv, [Next]_vars PROVE LedgerMoves
    OBVIOUS
<1>1. IInv'
      BY StepInv DEF BooksInv
<1>2. CASE OwnerStep
    <2>1. ASSUME NEW agent \in Caller, NEW perPayment \in Amount,
                 NEW cumulative \in Amount, NEW expiresAt \in Time,
                 NEW recipients \in Allowlist,
                 CreateMandate(agent, perPayment, cumulative, expiresAt, recipients)
          PROVE  LedgerMoves
        <3>1. Ledger!Grant(nextMandateId, cumulative) /\ nextMandateId \in MandateId
              BY <2>1, CreateMandateLedger
        <3> QED BY <3>1 DEF LedgerMoves, Ledger!LedgerNext
    <2>2. ASSUME NEW m \in MandateId, RevokeMandate(m)
          PROVE  LedgerMoves
        <3>1. Ledger!Close(m)
              BY <2>2, RevokeMandateLedger
        <3> QED BY <3>1 DEF LedgerMoves, Ledger!LedgerNext
    <2>3. ASSUME NEW amount \in Amount, Withdraw(amount)
          PROVE  LedgerMoves
        <3>1. frames = <<>> /\ frames' # <<>> /\ Head(frames').undo = Snapshot
              BY <2>3 DEF Withdraw, NotEntered, CallTransfer
        <3> QED BY <1>1, <3>1, OpeningStays DEF LedgerMoves
    <2> QED BY <1>2, <2>1, <2>2, <2>3 DEF OwnerStep
<1>3. CASE AgentStep
    <2>1. PICK m \in MandateId, id \in RequestId, to \in Payee, amount \in Amount,
               sender \in Caller : Pay(m, id, to, amount, sender)
          BY <1>3 DEF AgentStep
    <2>2. CASE ExecutePayment(m, id, to, amount, sender)
        <3>1. frames = <<>> /\ frames' # <<>> /\ Head(frames').undo = Snapshot
              BY <2>2 DEF ExecutePayment, Admissible, NotEntered, CallTransfer
        <3> QED BY <1>1, <3>1, OpeningStays DEF LedgerMoves
    <2>3. CASE RecordRefusal(m, id, to, amount, sender)
        <3>1. Ledger!Refuse(<<m, id>>) /\ <<m, id>> \in RequestKey
              BY <2>3, RecordRefusalLedger DEF RequestKey
        <3> QED BY <3>1 DEF LedgerMoves, Ledger!LedgerNext
    <2> QED BY <2>1, <2>2, <2>3 DEF Pay
<1>4. CASE TransferSucceeds
      BY <1>4, TransferSucceedsLedger
<1>5. CASE TransferFails
      BY <1>5, TransferFailsLedger DEF LedgerMoves
<1>6. ASSUME NEW amount \in Amount, Fund(amount)
      PROVE  LedgerMoves
    <2>1. Ledger!Move(Faucet, Self, amount)
          BY <1>6, FundLedger
    <2> QED BY <2>1 DEF LedgerMoves, Ledger!LedgerNext
<1>7. CASE NextBlock \/ UNCHANGED vars
    <2>1. UNCHANGED <<mandates, requests, sequence, balance, log, frames>>
          BY <1>7 DEF NextBlock, vars
    <2>2. SettledBooks' = SettledBooks
          BY <2>1 DEF SettledBooks, Snapshot
    <2> QED BY <2>2 DEF LedgerMoves, LedgerStays, LStatus, LCap, LSpent, LVerdict,
                        LHolding
<1> QED BY <1>2, <1>3, <1>4, <1>5, <1>6, <1>7 DEF Next

\* Although booking a payment and moving its money are two steps with foreign code
\* between them, the contract is a ledger in which every payment is one step.
THEOREM ImplementsTheLedger == Spec => ImplementsLedger
PROOF
<1>1. BooksInv /\ [Next]_vars => [Ledger!LedgerNext]_(Ledger!ledgerVars)
      BY LedgerStep DEF LedgerMoves, LedgerStays, LStatus, LCap, LSpent, LVerdict,
                        LHolding, Ledger!ledgerVars
<1> QED BY <1>1, InitLedger, BooksInvariance, PTL
           DEF Spec, ImplementsLedger, Ledger!LedgerSpec

=============================================================================
