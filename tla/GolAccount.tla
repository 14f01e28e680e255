------------------------------ MODULE GolAccount ------------------------------
(***************************************************************************)
(* The on-chain account contract (contracts/src/GolAccount.sol): an owner  *)
(* grants an agent a mandate to spend USDC under caps, and every payment   *)
(* attempt is recorded as executed or refused.                             *)
(*                                                                         *)
(* A transaction that reverts changes nothing and is not a step.  The      *)
(* token is foreign code: a transfer is a call that may succeed, fail or   *)
(* call back, so it is split from the handler that makes it.  `frames' is  *)
(* the EVM call stack; each frame carries the journaled state its revert   *)
(* restores.                                                               *)
(***************************************************************************)
EXTENDS Integers, Sequences, FiniteSets

CONSTANTS
    Addr,           \* the addresses that call, hold USDC or are named in a call
    Owner,          \* the immutable owner of the account
    Self,           \* the account contract itself, address(this)
    Usdc,           \* the token contract
    Zero,           \* address(0)
    Faucet,         \* the outside holder that funds the account
    RequestId,      \* nonzero request identifiers
    Amount,         \* amounts and caps a call may name (zero included)
    Caller,         \* the addresses that send pay, or are named as agent
    Payee,          \* the recipients a payment may name
    Allowlist,      \* the recipient lists a mandate may carry
    Supply,         \* USDC minted to the faucet
    MaxMandates,    \* bound on createMandate calls
    MaxTime,        \* bound on block.timestamp
    MaxDuration,    \* MAX_MANDATE_DURATION
    MaxRecipients   \* MAX_RECIPIENTS

ASSUME AddrAssumption ==
    /\ {Owner, Self, Usdc, Zero, Faucet} \subseteq Addr
    /\ Self # Faucet
    /\ Caller \subseteq Addr /\ Payee \subseteq Addr
    /\ Allowlist \subseteq SUBSET Addr

ASSUME BoundAssumption ==
    /\ Amount \subseteq Nat
    /\ Supply \in Nat /\ MaxMandates \in Nat /\ MaxTime \in Nat
    /\ MaxDuration \in Nat /\ MaxRecipients \in Nat

VARIABLES
    mandates,         \* mandate id -> Mandate
    nextMandateId,
    activeMandateId,  \* 0 when no mandate is active
    sequence,         \* number of recorded payment attempts
    requests,         \* <<mandate id, request id>> -> RequestRecord
    balance,          \* the token's balances
    log,              \* the events emitted, in chain order
    now,              \* block.timestamp
    frames            \* open calls into the token, innermost first

vars == <<mandates, nextMandateId, activeMandateId, sequence, requests,
          balance, log, now, frames>>

-----------------------------------------------------------------------------
MandateId == 1..MaxMandates
Time == 0..MaxTime
RefusalRule == {"MANDATE_REVOKED", "MANDATE_EXPIRED", "RECIPIENT_NOT_ALLOWED",
                "PER_PAYMENT_CAP", "CUMULATIVE_CAP"}
Rule == RefusalRule \cup {"NONE"}

Mandate == [exists: BOOLEAN, revoked: BOOLEAN, agent: Addr,
            perPaymentCap: Nat, cumulativeCap: Nat, spent: Nat,
            expiresAt: Nat, recipients: SUBSET Addr]

\* A mapping entry that was never written.
NoMandate == [exists |-> FALSE, revoked |-> FALSE, agent |-> Zero,
              perPaymentCap |-> 0, cumulativeCap |-> 0, spent |-> 0,
              expiresAt |-> 0, recipients |-> {}]

RequestRecord == [outcome: {"UNSEEN", "EXECUTED", "REFUSED"}, rule: Rule,
                  recipient: Addr, attempted: Nat, headroom: Nat,
                  spentAfter: Nat, sequence: Nat]

NoRecord == [outcome |-> "UNSEEN", rule |-> "NONE", recipient |-> Zero,
             attempted |-> 0, headroom |-> 0, spentAfter |-> 0, sequence |-> 0]

RequestKey == MandateId \X RequestId

PaymentEvent == [kind: {"Executed", "Refused"}, mandate: MandateId,
                 request: RequestId, record: RequestRecord]
MandateEvent == [kind: {"MandateCreated", "MandateRevoked"}, mandate: MandateId]
WithdrawalEvent == [kind: {"Withdrawn"}, amount: Nat]
Event == PaymentEvent \cup MandateEvent \cup WithdrawalEvent

\* What a revert restores; everything else is untouched while a call is open.
Journaled == [mandates: [MandateId -> Mandate],
              requests: [RequestKey -> RequestRecord], sequence: Nat,
              balance: [Addr -> Nat], log: Seq(Event)]

Frame == [undo: Journaled, to: Addr, amount: Nat, event: Event]

-----------------------------------------------------------------------------
\* Fault: the guard is never taken, so the token can call back in.
NotEnteredUnguarded == Len(frames) < 2

\* The nonReentrant modifier: entered == 1.
NotEntered == frames = <<>>

\* What the EVM keeps to undo the current call.
Snapshot == [mandates |-> mandates, requests |-> requests,
             sequence |-> sequence, balance |-> balance, log |-> log]

\* Opens the token transfer a handler ends with; `event' is emitted after it.
CallTransfer(to, amount, event) ==
    frames' = <<[undo |-> Snapshot, to |-> to, amount |-> amount,
                 event |-> event]>> \o frames

\* Fault: what was spent before is forgotten.
HeadroomIgnoringSpent(m) == mandates[m].cumulativeCap

Headroom(m) == mandates[m].cumulativeCap - mandates[m].spent

\* Fault: revocation is not looked at.
NeverDead(m) == FALSE

\* A mandate is dead once revoked or replaced.
Dead(m) == mandates[m].revoked \/ m # activeMandateId

\* _isRecipientAllowed: an empty list allows any recipient.
RecipientAllowed(m, to) ==
    mandates[m].recipients = {} \/ to \in mandates[m].recipients

\* The first policy rule an attempt breaks, in the order the code tests them.
RuleFor(m, to, amount) ==
    IF Dead(m) THEN "MANDATE_REVOKED"
    ELSE IF now >= mandates[m].expiresAt THEN "MANDATE_EXPIRED"
    ELSE IF ~ RecipientAllowed(m, to) THEN "RECIPIENT_NOT_ALLOWED"
    ELSE IF amount > mandates[m].perPaymentCap THEN "PER_PAYMENT_CAP"
    ELSE IF amount > Headroom(m) THEN "CUMULATIVE_CAP"
    ELSE "NONE"

-----------------------------------------------------------------------------
Init ==
    /\ mandates = [m \in MandateId |-> NoMandate]
    /\ nextMandateId = 1
    /\ activeMandateId = 0
    /\ sequence = 0
    /\ requests = [k \in RequestKey |-> NoRecord]
    /\ balance = [a \in Addr |-> IF a = Faucet THEN Supply ELSE 0]
    /\ log = <<>>
    /\ now = 0
    /\ frames = <<>>

ValidAgent(agent) == agent \notin {Zero, Owner, Self, Usdc}
ValidCaps(perPayment, cumulative) ==
    perPayment # 0 /\ cumulative # 0 /\ perPayment <= cumulative
ValidExpiry(expiresAt) == now < expiresAt /\ expiresAt <= now + MaxDuration
ValidRecipients(recipients) ==
    /\ Cardinality(recipients) <= MaxRecipients
    /\ recipients \cap {Zero, Self, Usdc} = {}

\* The mandate a new one replaces, if the owner has not revoked it already.
Replaced == {m \in MandateId : m = activeMandateId /\ ~ mandates[m].revoked}

\* Fault: the previous mandate is left as it was.
RetireNothing(ms) == ms

RetireReplaced(ms) ==
    [m \in MandateId |-> IF m \in Replaced THEN [ms[m] EXCEPT !.revoked = TRUE]
                                           ELSE ms[m]]

RevocationEvents == {[kind |-> "MandateRevoked", mandate |-> m] : m \in Replaced}

CreateMandate(agent, perPayment, cumulative, expiresAt, recipients) ==
    /\ NotEntered
    /\ nextMandateId <= MaxMandates
    /\ ValidAgent(agent)
    /\ ValidCaps(perPayment, cumulative)
    /\ ValidExpiry(expiresAt)
    /\ ValidRecipients(recipients)
    /\ mandates' = [RetireReplaced(mandates) EXCEPT ![nextMandateId] =
           [exists |-> TRUE, revoked |-> FALSE, agent |-> agent,
            perPaymentCap |-> perPayment, cumulativeCap |-> cumulative,
            spent |-> 0, expiresAt |-> expiresAt, recipients |-> recipients]]
    /\ activeMandateId' = nextMandateId
    /\ nextMandateId' = nextMandateId + 1
    /\ LET created == [kind |-> "MandateCreated", mandate |-> nextMandateId] IN
       IF Replaced = {}
       THEN log' = Append(log, created)
       ELSE \E revoked \in RevocationEvents : log' = log \o <<revoked, created>>
    /\ UNCHANGED <<sequence, requests, balance, now, frames>>

\* Revoking a revoked mandate changes nothing, so it is no step.
RevokeMandate(m) ==
    /\ NotEntered
    /\ mandates[m].exists
    /\ ~ mandates[m].revoked
    /\ mandates' = [mandates EXCEPT ![m].revoked = TRUE]
    /\ activeMandateId' = IF activeMandateId = m THEN 0 ELSE activeMandateId
    /\ log' = Append(log, [kind |-> "MandateRevoked", mandate |-> m])
    /\ UNCHANGED <<nextMandateId, sequence, requests, balance, now, frames>>

Withdraw(amount) ==
    /\ NotEntered
    /\ amount # 0
    /\ balance[Self] >= amount
    /\ CallTransfer(Owner, amount, [kind |-> "Withdrawn", amount |-> amount])
    /\ UNCHANGED <<mandates, nextMandateId, activeMandateId, sequence, requests,
                   balance, log, now>>

-----------------------------------------------------------------------------
\* Fault: the stored record is not consulted.
AnyRequest(m, id) == TRUE

\* A request with a record is answered from it: the same payload gets the
\* stored outcome back, another payload reverts, and neither is a step.
Unseen(m, id) == requests[<<m, id>>].outcome = "UNSEEN"

\* The checks every attempt passes before a rule is looked at.
Admissible(m, id, to, amount, sender) ==
    /\ NotEntered
    /\ mandates[m].exists
    /\ sender = mandates[m].agent
    /\ to # Zero
    /\ amount # 0
    /\ Unseen(m, id)

\* Fault: the mandate's running total is not written back.
SpentNotSaved(m, spentAfter) == mandates' = mandates

SaveSpent(m, spentAfter) ==
    mandates' = [mandates EXCEPT ![m].spent = spentAfter]

\* _executePayment: book the payment first, then call the token.
ExecutePayment(m, id, to, amount, sender) ==
    LET spentAfter == mandates[m].spent + amount
        record == [outcome |-> "EXECUTED", rule |-> "NONE", recipient |-> to,
                   attempted |-> amount,
                   headroom |-> mandates[m].cumulativeCap - spentAfter,
                   spentAfter |-> spentAfter, sequence |-> sequence + 1]
    IN  /\ Admissible(m, id, to, amount, sender)
        /\ RuleFor(m, to, amount) = "NONE"
        /\ balance[Self] >= amount
        /\ sequence' = sequence + 1
        /\ SaveSpent(m, spentAfter)
        /\ requests' = [requests EXCEPT ![<<m, id>>] = record]
        /\ CallTransfer(to, amount, [kind |-> "Executed", mandate |-> m,
                                     request |-> id, record |-> record])
        /\ UNCHANGED <<nextMandateId, activeMandateId, balance, log, now>>

\* _recordRefusal: evidence of a denial, and no money moves.
RecordRefusal(m, id, to, amount, sender) ==
    LET record == [outcome |-> "REFUSED", rule |-> RuleFor(m, to, amount),
                   recipient |-> to, attempted |-> amount,
                   headroom |-> Headroom(m), spentAfter |-> mandates[m].spent,
                   sequence |-> sequence + 1]
    IN  /\ Admissible(m, id, to, amount, sender)
        /\ RuleFor(m, to, amount) # "NONE"
        /\ sequence' = sequence + 1
        /\ requests' = [requests EXCEPT ![<<m, id>>] = record]
        /\ log' = Append(log, [kind |-> "Refused", mandate |-> m,
                               request |-> id, record |-> record])
        /\ UNCHANGED <<mandates, nextMandateId, activeMandateId, balance, now,
                       frames>>

Pay(m, id, to, amount, sender) ==
    \/ ExecutePayment(m, id, to, amount, sender)
    \/ RecordRefusal(m, id, to, amount, sender)

-----------------------------------------------------------------------------
Moved(from, to, amount) ==
    [a \in Addr |-> balance[a] + (IF a = to THEN amount ELSE 0)
                               - (IF a = from THEN amount ELSE 0)]

\* The token accepts, and the handler emits its event and returns.
TransferSucceeds ==
    /\ frames # <<>>
    /\ balance[Self] >= Head(frames).amount
    /\ balance' = Moved(Self, Head(frames).to, Head(frames).amount)
    /\ log' = Append(log, Head(frames).event)
    /\ frames' = Tail(frames)
    /\ UNCHANGED <<mandates, nextMandateId, activeMandateId, sequence, requests,
                   now>>

\* Fault: the payment stays booked when the token refuses it.
KeepBooks(undo) ==
    UNCHANGED <<mandates, requests, sequence, balance, log>>

\* The EVM restores what the reverted call had changed.
RestoreBooks(undo) ==
    /\ mandates' = undo.mandates
    /\ requests' = undo.requests
    /\ sequence' = undo.sequence
    /\ balance' = undo.balance
    /\ log' = undo.log

\* The token reverts or answers false: TokenCallFailed reverts the handler.
TransferFails ==
    /\ frames # <<>>
    /\ RestoreBooks(Head(frames).undo)
    /\ frames' = Tail(frames)
    /\ UNCHANGED <<nextMandateId, activeMandateId, now>>

\* Anyone may send USDC to the account between its own calls.
Fund(amount) ==
    /\ NotEntered
    /\ amount # 0
    /\ balance[Faucet] >= amount
    /\ balance' = Moved(Faucet, Self, amount)
    /\ UNCHANGED <<mandates, nextMandateId, activeMandateId, sequence, requests,
                   log, now, frames>>

NextBlock ==
    /\ NotEntered
    /\ now < MaxTime
    /\ now' = now + 1
    /\ UNCHANGED <<mandates, nextMandateId, activeMandateId, sequence, requests,
                   balance, log, frames>>

OwnerStep ==
    \/ \E agent \in Caller, perPayment, cumulative \in Amount,
          expiresAt \in Time, recipients \in Allowlist :
          CreateMandate(agent, perPayment, cumulative, expiresAt, recipients)
    \/ \E m \in MandateId : RevokeMandate(m)
    \/ \E amount \in Amount : Withdraw(amount)

AgentStep ==
    \E m \in MandateId, id \in RequestId, to \in Payee, amount \in Amount,
       sender \in Caller : Pay(m, id, to, amount, sender)

Next ==
    \/ OwnerStep
    \/ AgentStep
    \/ TransferSucceeds
    \/ TransferFails
    \/ \E amount \in Amount : Fund(amount)
    \/ NextBlock

Spec == Init /\ [][Next]_vars

-----------------------------------------------------------------------------
(***************************************************************************)
(* Properties                                                              *)
(***************************************************************************)

\* Every field keeps the type its Solidity declaration gives it; in particular
\* the unsigned subtractions of headroom never go below zero.
TypeOK ==
    /\ mandates \in [MandateId -> Mandate]
    /\ nextMandateId \in 1..(MaxMandates + 1)
    /\ activeMandateId \in {0} \cup MandateId
    /\ sequence \in Nat
    /\ requests \in [RequestKey -> RequestRecord]
    /\ balance \in [Addr -> Nat]
    /\ log \in Seq(Event)
    /\ now \in Time
    /\ frames \in Seq(Frame)

\* An agent never spends more than the mandate's cumulative cap, whatever the
\* order of payments, replays, failed transfers and revocations
\* (GolAccount.invariant.t.sol, invariant_SpentNeverExceedsCumulativeCap).
SpentWithinCap ==
    \A m \in MandateId : mandates[m].spent <= mandates[m].cumulativeCap

\* Exactly the active mandate is usable: creating one retires its predecessor
\* and revoking one leaves none, so an agent can never hold two budgets.
SoleLiveMandate ==
    \A m \in MandateId :
        mandates[m].exists /\ ~ mandates[m].revoked <=> m = activeMandateId

IsPayment(e) == e.kind \in {"Executed", "Refused"}
Executed(m, id) == requests[<<m, id>>].outcome = "EXECUTED"
SpanStart(r) == r.spentAfter - r.attempted

\* The executed records of a mandate cut its budget into disjoint spans
\* (spentAfter - attempted, spentAfter], laid out in sequence order below
\* mandate.spent: no two payments are charged to the same money, which is what
\* the indexed history relies on when it replays spentAfter.
SpendingIsPartitioned ==
    \A m \in MandateId : \A i, j \in RequestId :
        LET a == requests[<<m, i>>]
            b == requests[<<m, j>>]
        IN  /\ Executed(m, i) =>
                  /\ 0 <= SpanStart(a)
                  /\ a.spentAfter <= mandates[m].spent
                  /\ a.spentAfter + a.headroom = mandates[m].cumulativeCap
            /\ Executed(m, i) /\ Executed(m, j) /\ a.sequence < b.sequence =>
                  a.spentAfter <= SpanStart(b)
            /\ Executed(m, i) /\ Executed(m, j) /\ i # j =>
                  a.sequence # b.sequence

\* Where the payment events stand in a log, and the request each one is about.
Payments(events) == {p \in DOMAIN events : IsPayment(events[p])}
KeyOf(e) == <<e.mandate, e.request>>

\* The events' numbers are 1..n in the order they were emitted, each event
\* carries the stored record of its request, and no record goes without one.
Recorded(events, records, n) ==
    /\ {events[p].record.sequence : p \in Payments(events)} = 1..n
    /\ \A p, q \in Payments(events) :
           p < q => events[p].record.sequence < events[q].record.sequence
    /\ \A p \in Payments(events) :
           LET e == events[p] IN
           /\ records[KeyOf(e)] = e.record
           /\ e.record.outcome = IF e.kind = "Executed" THEN "EXECUTED" ELSE "REFUSED"
    /\ \A k \in RequestKey : records[k].outcome # "UNSEEN" =>
           \E p \in Payments(events) : KeyOf(events[p]) = k

\* Between transactions the payment events are exactly the stored records, in
\* sequence order and without a gap: a reverted attempt leaves no number behind
\* and no event overtakes an earlier one.
EventsMatchRecords == frames = <<>> => Recorded(log, requests, sequence)

\* A record is settled once no open call can still revert it.
Settled(k) ==
    /\ requests[k].outcome # "UNSEEN"
    /\ frames # <<>> => Head(frames).undo.requests[k] = requests[k]

\* A settled record is never rewritten: replaying its request, under any payload
\* and from any state, neither pays again nor changes the evidence.
RecordsArePermanent ==
    [][\A k \in RequestKey : Settled(k) => requests'[k] = requests[k]]_vars

\* A mandate's terms are fixed at creation, revocation and expiry are final, and
\* a dead mandate's spending is frozen: neither a late payment, a replacement nor
\* an undone transfer brings budget back
\* (spec/hackathon-product-spec.md:23, "existing mandate terms and spending
\* history never mutate").
DeadMandatesStayDead ==
    [][\A m \in MandateId :
          LET old == mandates[m]
              new == mandates'[m]
          IN  old.exists =>
                /\ new = [old EXCEPT !.spent = new.spent, !.revoked = new.revoked]
                /\ old.revoked => new.revoked
                /\ old.revoked \/ now >= old.expiresAt => new.spent = old.spent]_vars

\* The books as the world sees them: while a call into the token is open, those
\* from before the handler that made it.
SettledBooks == IF frames = <<>> THEN Snapshot ELSE frames[Len(frames)].undo

StatusOf(mandate) == IF ~ mandate.exists THEN "none"
                     ELSE IF mandate.revoked THEN "closed" ELSE "open"

VerdictOf(record) ==
    CASE record.outcome = "UNSEEN"   -> [kind |-> "none"]
      [] record.outcome = "REFUSED"  -> [kind |-> "refused"]
      [] record.outcome = "EXECUTED" -> [kind |-> "paid", to |-> record.recipient,
                                         amount |-> record.attempted]

Ledger == INSTANCE SpendingLedger
    WITH Budget  <- MandateId,
         status  <- [m \in MandateId |-> StatusOf(SettledBooks.mandates[m])],
         cap     <- [m \in MandateId |-> SettledBooks.mandates[m].cumulativeCap],
         spent   <- [m \in MandateId |-> SettledBooks.mandates[m].spent],
         verdict <- [k \in RequestKey |-> VerdictOf(SettledBooks.requests[k])],
         holding <- SettledBooks.balance,
         Party   <- Addr,
         Account <- Self

\* The contract is the ledger its owner believes in: although booking a payment
\* and moving its money are two steps with foreign code between them, the world
\* only ever sees both or neither.
ImplementsLedger == Ledger!LedgerSpec

=============================================================================
