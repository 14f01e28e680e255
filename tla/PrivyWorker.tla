----------------------------- MODULE PrivyWorker -----------------------------
(***************************************************************************)
(* The retained Privy path of the payment worker (runPrivy, submitPrivy    *)
(* and reconcile of agent/src/payment/worker.ts) over the journal.  Privy  *)
(* signs and submits by itself: the worker learns the transaction's hash   *)
(* from the answer, after the fact, and relies on the request id as the    *)
(* idempotency key when it has to ask again.                               *)
(*                                                                         *)
(* `faults' counts the crashes, thrown errors, lost answers and stalls     *)
(* beyond the lease; MaxFaults bounds them.                                *)
(***************************************************************************)
EXTENDS PgJournal

CONSTANTS MaxFaults

ASSUME FaultAssumption == MaxFaults \in Nat

VARIABLES
    submitted,   \* the transactions Privy made
    receipts,    \* those included, with their status
    outcome,     \* the account contract's record of each request
    pc,          \* where each worker's tick stands
    job,         \* the worker's copy of its row
    faults

chainVars == <<submitted, receipts, outcome>>
vars == <<journalVars, chainVars, pc, job, faults>>

Outcome == {"UNSEEN", "EXECUTED", "REFUSED"}
Step == {"idle", "resolve", "mark", "send", "record", "receipt"}

Init ==
    /\ JournalInit
    /\ submitted = {}
    /\ receipts = {}
    /\ outcome = [r \in Request |-> "UNSEEN"]
    /\ pc = [w \in Worker |-> "idle"]
    /\ \E r \in Request :  \* the copy of an idle worker is never read
          job = [w \in Worker |-> [req |-> r, state |-> "absent", raw |-> NoTx]]
    /\ faults = 0

-----------------------------------------------------------------------------
(* Privy and Arc *)

SubmissionsOf(r) == {tx \in submitted : tx.req = r}

NewSubmission(r) == [req |-> r, nonce |-> 0, sig |-> Cardinality(SubmissionsOf(r)) + 1]

\* Fault: the transaction carries no referenceId.
AlwaysAnew(r) ==
    {tx \in {NewSubmission(r)} : tx.sig <= MaxSignatures}

\* What sendTransaction stands for: under a reference id Privy knows, the
\* transaction it made then.  A set of one.
SubmissionFor(r) ==
    IF SubmissionsOf(r) = {} THEN {NewSubmission(r)} ELSE SubmissionsOf(r)

Included(tx) == \E e \in receipts : e.tx = tx
Reverted(tx) == [tx |-> tx, status |-> "reverted"] \in receipts

Include(tx, status) ==
    /\ ~ Included(tx)
    /\ receipts' = receipts \cup {[tx |-> tx, status |-> status]}
    /\ IF status = "success" /\ outcome[tx.req] = "UNSEEN"
       THEN \E o \in Outcome \ {"UNSEEN"} : outcome' = [outcome EXCEPT ![tx.req] = o]
       ELSE UNCHANGED outcome
    /\ UNCHANGED <<submitted, journalVars, pc, job, faults>>

-----------------------------------------------------------------------------
Goto(w, step) == pc' = [pc EXCEPT ![w] = step]

Fault ==
    /\ faults < MaxFaults
    /\ faults' = faults + 1

FinishAs(w, state) ==
    /\ Finish(w, job[w].req, state)
    /\ Goto(w, "idle")
    /\ UNCHANGED <<signerLock, job>>

Enqueue(r) ==
    /\ Insert(r)
    /\ UNCHANGED <<signerLock, chainVars, pc, job, faults>>

Claim(w, r) ==
    /\ pc[w] = "idle"
    /\ Lease(w, r)
    /\ job' = [job EXCEPT ![w] = [req |-> r, state |-> rows[r].state, raw |-> rows[r].raw]]
    /\ Goto(w, "resolve")
    /\ UNCHANGED <<signerLock, chainVars, faults>>

ResolveFails(w) ==
    /\ pc[w] = "resolve"
    /\ FinishAs(w, "signer_blocked")
    /\ UNCHANGED <<chainVars, faults>>

-----------------------------------------------------------------------------
(* runPrivy *)

\* Where a resumed row goes on: a known hash is reconciled, a row that was marked
\* is sent again with its stored intent.  A row with an operation id but no hash
\* does not occur: recordSubmission writes both.
Resume(w) ==
    /\ pc[w] = "resolve"
    /\ \/ job[w].raw # NoTx /\ Goto(w, "receipt")
       \/ job[w].raw = NoTx /\ job[w].state = "signing" /\ Goto(w, "send")
    /\ UNCHANGED <<journalVars, chainVars, job, faults>>

ParseClarifies(w) ==
    /\ pc[w] = "resolve"
    /\ job[w].state = "queued"
    /\ FinishAs(w, "needs_clarification")
    /\ UNCHANGED <<chainVars, faults>>

ParseSucceeds(w) ==
    /\ pc[w] = "resolve"
    /\ job[w].state = "queued"
    /\ Goto(w, "mark")
    /\ UNCHANGED <<journalVars, chainVars, job, faults>>

\* Fault: the intent is sent before it is stored.
SendUnmarked(w) ==
    /\ pc[w] = "mark"
    /\ Goto(w, "send")
    /\ UNCHANGED <<journalVars, chainVars, job, faults>>

\* markSigning stores the intent; without the lease it throws.
MarkSigning(w) ==
    /\ pc[w] = "mark"
    /\ IF CanMarkSigning(w, job[w].req)
       THEN StoreSigning(job[w].req) /\ Goto(w, "send")
       ELSE UNCHANGED rows /\ Goto(w, "idle")
    /\ UNCHANGED <<signerLock, chainVars, job, faults>>

-----------------------------------------------------------------------------
(* submitPrivy *)

SendAnswered(w) ==
    /\ pc[w] = "send"
    /\ \E tx \in SubmissionFor(job[w].req) :
          /\ submitted' = submitted \cup {tx}
          /\ job' = [job EXCEPT ![w].raw = tx]
    /\ Goto(w, "record")
    /\ UNCHANGED <<journalVars, receipts, outcome, faults>>

\* A policy or configuration error: Privy did not submit.
SendDenied(w) ==
    /\ pc[w] = "send"
    /\ FinishAs(w, "signer_blocked")
    /\ UNCHANGED <<chainVars, faults>>

\* Any other error: Privy may or may not have submitted, and the row is parked
\* without a hash.
SendAmbiguous(w) ==
    /\ pc[w] = "send"
    /\ Fault
    /\ \/ UNCHANGED submitted
       \/ \E tx \in SubmissionFor(job[w].req) : submitted' = submitted \cup {tx}
    /\ FinishAs(w, "unknown")
    /\ UNCHANGED <<receipts, outcome>>

RecordSubmission(w) ==
    /\ pc[w] = "record"
    /\ IF Holds(w, job[w].req)
       THEN StoreSubmission(job[w].req, job[w].raw) /\ Goto(w, "receipt")
       ELSE UNCHANGED rows /\ Goto(w, "idle")
    /\ UNCHANGED <<signerLock, chainVars, job, faults>>

-----------------------------------------------------------------------------
(* reconcile *)

\* Fault: a receipt is taken for a payment.
ReceiptMeansExecuted(r, tx) == "executed"

\* The state a receipt and the contract's record stand for.
ReconciledState(r, tx) ==
    CASE Reverted(tx)            -> "technical_failure"
      [] outcome[r] = "EXECUTED" -> "executed"
      [] outcome[r] = "REFUSED"  -> "refused"

ReceiptReconciles(w) ==
    /\ pc[w] = "receipt"
    /\ Included(job[w].raw)
    /\ FinishAs(w, ReconciledState(job[w].req, job[w].raw))
    /\ UNCHANGED <<chainVars, faults>>

\* No receipt in time, or an answer that cannot be read.
ReceiptUnresolved(w) ==
    /\ pc[w] = "receipt"
    /\ IF Included(job[w].raw) THEN Fault ELSE UNCHANGED faults
    /\ FinishAs(w, "unknown")
    /\ UNCHANGED chainVars

-----------------------------------------------------------------------------
\* The process dies, or an await throws.
Abandon(w) ==
    /\ pc[w] # "idle"
    /\ Fault
    /\ Goto(w, "idle")
    /\ UNCHANGED <<journalVars, chainVars, job>>

Working(r) == \E w \in Worker : pc[w] # "idle" /\ job[w].req = r /\ Holds(w, r)

\* A worker that is still at it when its lease lapses has stalled.
LeaseLapses(r) ==
    /\ Lapse(r)
    /\ IF Working(r) THEN Fault ELSE UNCHANGED faults
    /\ UNCHANGED <<signerLock, chainVars, pc, job>>

Mine == \E tx \in submitted, status \in {"success", "reverted"} : Include(tx, status)

Tick(w) ==
    \/ \E r \in Request : Claim(w, r)
    \/ ResolveFails(w) \/ Resume(w) \/ ParseClarifies(w) \/ ParseSucceeds(w)
    \/ MarkSigning(w)
    \/ SendAnswered(w) \/ SendDenied(w) \/ SendAmbiguous(w) \/ RecordSubmission(w)
    \/ ReceiptReconciles(w) \/ ReceiptUnresolved(w)

Next ==
    \/ \E r \in Request : Enqueue(r) \/ LeaseLapses(r)
    \/ \E w \in Worker : Tick(w) \/ Abandon(w)
    \/ Mine

Spec == Init /\ [][Next]_vars

\* As in PaymentWorker: polling workers, leases of thirty seconds, and a chain that
\* includes what Privy submitted.
FairSpec ==
    /\ Spec
    /\ \A w \in Worker : WF_vars(Tick(w))
    /\ \A r \in Request : SF_vars(\E w \in Worker : Claim(w, r))
    /\ \A r \in Request : WF_vars(LeaseLapses(r))
    /\ WF_vars(Mine)

-----------------------------------------------------------------------------
(***************************************************************************)
(* Properties                                                              *)
(***************************************************************************)

\* The intent is in the journal before Privy can hear of it, so a request that was
\* sent is never parsed again, into another payment or a clarification, whichever
\* worker crashes or stalls between the two (worker.ts:490).
MarkedBeforeSent ==
    \A r \in Request :
        rows[r].state \in {"absent", "queued", "needs_clarification"} =>
            SubmissionsOf(r) = {}

Answer(state) ==
    IF state \in {"queued", "signing"} \cup InFlight THEN "working" ELSE state

Lifecycle == INSTANCE PaymentLifecycle
    WITH told <- [r \in Request |-> Answer(rows[r].state)], effect <- outcome

\* This path too implements the abstract life of a request: sent again after a
\* crash, by two workers at once or after a lost answer, a request takes effect at
\* most once, and never after its owner was told a final "no".
PrivyImplementsLifecycle == Lifecycle!LifecycleSpec

\* A request that is alone settles once the faults stop, unless the answer to its
\* submission was lost: that row is parked without a hash or an operation id, and
\* claimNext never takes it again (worker.ts:520).  That exception is a defect of the
\* path, which RequestsSettle shows; here it is pinned down as the only one.
OnlyAmbiguityStrands ==
    \A r \in Request :
        rows[r].state = "queued" ~>
            \/ rows[r].state \in Settled
            \/ rows[r].state = "unknown" /\ rows[r].raw = NoTx

\* A request that is alone settles once the faults stop, whatever answers of Privy
\* were lost on the way (worker.ts:520).
RequestsSettle == \A r \in Request : rows[r].state = "queued" ~> rows[r].state \in Settled

=============================================================================
