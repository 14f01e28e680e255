---------------------------- MODULE PaymentWorker ----------------------------
(***************************************************************************)
(* The payment workers (agent/src/payment/worker.ts, raw-signing mode)     *)
(* over the journal and the network.  A worker runs one job at a time on   *)
(* the copy of the row it got when it claimed it; every await is a place   *)
(* where it can crash, lose its lease, or meet another worker.             *)
(*                                                                         *)
(* `faults' counts the crashes, thrown errors, unanswered sends, dropped   *)
(* transactions and stalls beyond the lease; MaxFaults bounds them.        *)
(***************************************************************************)
EXTENDS PgJournal, ArcNetwork

CONSTANTS MaxFaults

ASSUME FaultAssumption == MaxFaults \in Nat

VARIABLES
    pc,          \* where each worker's tick stands
    job,         \* the worker's copy of its row, with what the tick added to it
    signatures,  \* how often each request was signed
    faults

workerVars == <<pc, job, signatures, faults>>
vars == <<journalVars, arcVars, workerVars>>

Step == {"idle", "resolve", "reserve", "query", "commit", "construct",
         "record", "broadcast", "recordBroadcast", "receipt"}

Init ==
    /\ JournalInit
    /\ ArcInit
    /\ pc = [w \in Worker |-> "idle"]
    /\ \E r \in Request :  \* the copy of an idle worker is never read
          job = [w \in Worker |-> [req |-> r, state |-> "absent", nonce |-> 0,
                                   raw |-> NoTx]]
    /\ signatures = [r \in Request |-> 0]
    /\ faults = 0

-----------------------------------------------------------------------------
Goto(w, step) == pc' = [pc EXCEPT ![w] = step]

\* The tick goes on, without an effect outside the worker.
Proceed(w, step) ==
    /\ Goto(w, step)
    /\ UNCHANGED <<journalVars, arcVars, job, signatures, faults>>

Fault ==
    /\ faults < MaxFaults
    /\ faults' = faults + 1

NoFault == faults' = faults

\* The tick ends by settling the row, or, when the lease is gone, by throwing.
FinishAs(w, state) ==
    /\ Finish(w, job[w].req, state)
    /\ Goto(w, "idle")
    /\ UNCHANGED <<signerLock, job, signatures>>

\* POST /api/instructions.
Enqueue(r) ==
    /\ Insert(r)
    /\ UNCHANGED <<signerLock, arcVars, workerVars>>

\* tick: claimNext hands the worker a copy of the row.
Claim(w, r) ==
    /\ pc[w] = "idle"
    /\ Lease(w, r)
    /\ job' = [job EXCEPT ![w] = [req |-> r, state |-> rows[r].state,
                     nonce |-> IF rows[r].nonce = NoNonce THEN 0 ELSE rows[r].nonce,
                     raw |-> rows[r].raw]]
    /\ Goto(w, "resolve")
    /\ UNCHANGED <<signerLock, arcVars, signatures, faults>>

\* The signer context is missing or stale: terminal, whatever the row's state.
ResolveFails(w) ==
    /\ pc[w] = "resolve"
    /\ FinishAs(w, "signer_blocked")
    /\ UNCHANGED <<arcVars, faults>>

-----------------------------------------------------------------------------
(* runRaw: where a job resumes depends on what its row already holds. *)

AlreadyMined(w) == job[w].state = "unknown" /\ IsMined(job[w].raw)

ResumeReceipt(w) ==
    /\ pc[w] = "resolve"
    /\ job[w].raw # NoTx
    /\ AlreadyMined(w)
    /\ Proceed(w, "receipt")

\* getReceiptIfPresent answers null on any error, mined or not.
ResumeBroadcast(w) ==
    /\ pc[w] = "resolve"
    /\ job[w].raw # NoTx
    /\ IF AlreadyMined(w) THEN Fault ELSE NoFault
    /\ Goto(w, "broadcast")
    /\ UNCHANGED <<journalVars, arcVars, job, signatures>>

\* Nothing signed was stored, so the row is rebuilt under its reserved nonce.
ResumeConstruct(w) ==
    /\ pc[w] = "resolve"
    /\ job[w].raw = NoTx
    /\ job[w].state = "signing_prepared"
    /\ Proceed(w, "construct")

\* parseInstruction on a queued row.
ParseClarifies(w) ==
    /\ pc[w] = "resolve"
    /\ job[w].state = "queued"
    /\ FinishAs(w, "needs_clarification")
    /\ UNCHANGED <<arcVars, faults>>

ParseSucceeds(w) ==
    /\ pc[w] = "resolve"
    /\ job[w].state = "queued"
    /\ Proceed(w, "reserve")

-----------------------------------------------------------------------------
(* prepareSigning: one transaction, with an RPC in the middle. *)

\* Lock the signer, test the row, read the pending nonce.
BeginReserve(w) ==
    /\ pc[w] = "reserve"
    /\ LockFree
    /\ IF CanReserve(w, job[w].req)
       THEN /\ signerLock' = w
            /\ \E n \in PendingNonces : job' = [job EXCEPT ![w].nonce = n]
            /\ Goto(w, "query")
       ELSE Goto(w, "idle") /\ UNCHANGED <<signerLock, job>>
    /\ UNCHANGED <<rows, arcVars, signatures, faults>>

\* The in-flight rows are read after the chain was.
QueryInFlight(w) ==
    /\ pc[w] = "query"
    /\ \E n \in NoncesAfter(job[w].req, job[w].nonce) :
          job' = [job EXCEPT ![w].nonce = n]
    /\ Goto(w, "commit")
    /\ UNCHANGED <<journalVars, arcVars, signatures, faults>>

\* UPDATE and COMMIT, which releases the lock.
CommitReserve(w) ==
    /\ pc[w] = "commit"
    /\ IF CanReserve(w, job[w].req)
       THEN Reserve(job[w].req, job[w].nonce) /\ Goto(w, "construct")
       ELSE UNCHANGED rows /\ Goto(w, "idle")
    /\ signerLock' = NoWorker
    /\ UNCHANGED <<arcVars, job, signatures, faults>>

-----------------------------------------------------------------------------
(* constructSignBroadcast *)

\* The mandate, gas or envelope check refuses before anything is signed.
GuardBlocks(w) ==
    /\ pc[w] = "construct"
    /\ FinishAs(w, "signer_blocked")
    /\ UNCHANGED <<arcVars, faults>>

Sign(w) ==
    LET r == job[w].req IN
    /\ pc[w] = "construct"
    /\ signatures[r] < MaxSignatures
    /\ signatures' = [signatures EXCEPT ![r] = @ + 1]
    /\ job' = [job EXCEPT ![w].raw = [req |-> r, nonce |-> job[w].nonce,
                                      sig |-> signatures[r] + 1]]
    /\ Goto(w, "record")
    /\ UNCHANGED <<journalVars, arcVars, faults>>

\* Fault: the bytes go out before they are stored.
SignThenBroadcast(w) ==
    /\ pc[w] = "record"
    /\ Proceed(w, "broadcast")

\* Persist the exact bytes before any broadcast.
RecordSigned(w) ==
    /\ pc[w] = "record"
    /\ IF CanRecordSigned(w, job[w].req)
       THEN StoreSigned(job[w].req, job[w].raw) /\ Goto(w, "broadcast")
       ELSE UNCHANGED rows /\ Goto(w, "idle")
    /\ UNCHANGED <<signerLock, arcVars, job, signatures, faults>>

-----------------------------------------------------------------------------
(* rebroadcastAndReconcile *)

BroadcastAccepted(w) ==
    /\ pc[w] = "broadcast"
    /\ Accept(job[w].raw)
    /\ Goto(w, "recordBroadcast")
    /\ UNCHANGED <<journalVars, job, signatures, faults>>

BroadcastNonceTooLow(w) ==
    /\ pc[w] = "broadcast"
    /\ RefuseNonce(job[w].raw)
    /\ Goto(w, "receipt")
    /\ UNCHANGED <<journalVars, job, signatures, faults>>

\* Any other answer, or none, is ambiguous: the row is parked as unknown.
BroadcastAmbiguous(w) ==
    /\ pc[w] = "broadcast"
    /\ Lose(job[w].raw)
    /\ IF Underpriced(job[w].raw) THEN NoFault ELSE Fault
    /\ FinishAs(w, "unknown")

RecordBroadcast(w) ==
    /\ pc[w] = "recordBroadcast"
    /\ IF CanRecordBroadcast(w, job[w].req)
       THEN StoreBroadcast(job[w].req) /\ Goto(w, "receipt")
       ELSE UNCHANGED rows /\ Goto(w, "idle")
    /\ UNCHANGED <<signerLock, arcVars, job, signatures, faults>>

-----------------------------------------------------------------------------
(* reconcileRaw *)

\* Fault: a receipt is taken for a payment, whatever the contract recorded.
ReceiptMeansExecuted(r, tx) == "executed"

\* The state a mined transaction's receipt and the contract's record stand for.
ReconciledState(r, tx) ==
    CASE Reverted(tx)              -> "technical_failure"
      [] outcome[r] = "EXECUTED"   -> "executed"
      [] outcome[r] = "REFUSED"    -> "refused"
      [] OTHER                     -> "unknown"

ReceiptReconciles(w) ==
    /\ pc[w] = "receipt"
    /\ IsMined(job[w].raw)
    /\ FinishAs(w, ReconciledState(job[w].req, job[w].raw))
    /\ UNCHANGED <<arcVars, faults>>

\* viem's waitForTransactionReceipt resolves with the receipt of the transaction
\* that took the awaited one's nonce, once it saw the awaited one and lost it.  A
\* reverted receipt is believed; a successful one holds no outcome of this request.
ReceiptOfReplacement(w) ==
    /\ pc[w] = "receipt"
    /\ ~ IsMined(job[w].raw)
    /\ \E i \in 1..Len(mined) :
          mined[i].tx.nonce = job[w].raw.nonce /\ mined[i].status = "reverted"
    /\ FinishAs(w, "technical_failure")
    /\ UNCHANGED <<arcVars, faults>>

\* No receipt within a minute, or an answer that cannot be read.
ReceiptUnresolved(w) ==
    /\ pc[w] = "receipt"
    /\ IF IsMined(job[w].raw) THEN Fault ELSE NoFault
    /\ FinishAs(w, "unknown")
    /\ UNCHANGED arcVars

-----------------------------------------------------------------------------
(* What the environment does *)

\* The process dies, or an await throws: the tick is over, the row stays as it
\* is under its lease, and an open transaction is rolled back.
Abandon(w) ==
    /\ pc[w] # "idle"
    /\ Fault
    /\ Goto(w, "idle")
    /\ signerLock' = IF signerLock = w THEN NoWorker ELSE signerLock
    /\ UNCHANGED <<rows, arcVars, job, signatures>>

Working(r) == \E w \in Worker : pc[w] # "idle" /\ job[w].req = r /\ Holds(w, r)

\* Leases last 30 seconds and are not renewed: a worker that is still at it
\* when its lease lapses has stalled.
LeaseLapses(r) ==
    /\ Lapse(r)
    /\ IF Working(r) THEN Fault ELSE NoFault
    /\ UNCHANGED <<signerLock, arcVars, pc, job, signatures>>

Mine == \E tx \in waiting : Include(tx) /\ UNCHANGED <<journalVars, workerVars>>

Evict ==
    /\ \E tx \in waiting : Drop(tx)
    /\ Fault
    /\ UNCHANGED <<journalVars, pc, job, signatures>>

-----------------------------------------------------------------------------
Resolved(w) ==
    \/ ResumeReceipt(w) \/ ResumeBroadcast(w) \/ ResumeConstruct(w)
    \/ ParseClarifies(w) \/ ParseSucceeds(w)

Reserving(w) == BeginReserve(w) \/ QueryInFlight(w) \/ CommitReserve(w)

Signing(w) == GuardBlocks(w) \/ Sign(w) \/ RecordSigned(w)

Broadcasting(w) ==
    \/ BroadcastAccepted(w) \/ BroadcastNonceTooLow(w) \/ BroadcastAmbiguous(w)
    \/ RecordBroadcast(w)

Reconciling(w) ==
    ReceiptReconciles(w) \/ ReceiptOfReplacement(w) \/ ReceiptUnresolved(w)

Tick(w) ==
    \/ \E r \in Request : Claim(w, r)
    \/ ResolveFails(w)
    \/ Resolved(w)
    \/ Reserving(w)
    \/ Signing(w)
    \/ Broadcasting(w)
    \/ Reconciling(w)

Next ==
    \/ \E r \in Request : Enqueue(r) \/ LeaseLapses(r)
    \/ \E w \in Worker : Tick(w) \/ Abandon(w)
    \/ Mine
    \/ Evict

Spec == Init /\ [][Next]_vars

\* A worker that can step does, leases lapse, and Arc includes what it holds.
\* An idle worker polls every two seconds and a lease lasts thirty, so a row
\* that is claimable again and again is claimed before an older lease returns.
\* Crashes, stalls and drops are not fair: they may happen, MaxFaults times.
Fairness ==
    /\ \A w \in Worker : WF_vars(Tick(w))
    /\ \A r \in Request : SF_vars(\E w \in Worker : Claim(w, r))
    /\ \A r \in Request : WF_vars(LeaseLapses(r))
    /\ WF_vars(Mine)

FairSpec == Spec /\ Fairness

-----------------------------------------------------------------------------
(***************************************************************************)
(* Properties                                                              *)
(***************************************************************************)

Row == [state: State, created: Nat, owner: Worker \cup {NoWorker},
        leased: BOOLEAN, nonce: Nat \cup {NoNonce}, raw: Tx \cup {NoTx}]

Job == [req: Request, state: State, nonce: Nat, raw: Tx \cup {NoTx}]

\* The rows, the workers' copies and the chain are well formed, and a row that
\* carries a live lease names its owner.
TypeOK ==
    /\ rows \in [Request -> Row]
    /\ \A r \in Request : rows[r].leased => rows[r].owner \in Worker
    /\ signerLock \in Worker \cup {NoWorker}
    /\ sent \subseteq Tx
    /\ waiting \subseteq sent
    /\ mined \in Seq(Receipt)
    /\ outcome \in [Request -> Outcome]
    /\ pc \in [Worker -> Step]
    /\ job \in [Worker -> Job]
    /\ signatures \in [Request -> 0..MaxSignatures]
    /\ faults \in 0..MaxFaults

\* Signed bytes are stored before any node sees them, and they are the only
\* bytes ever sent for the request: whatever crashes, lapses and re-signings
\* happened, recovery can always resend exactly what may be on the chain
\* (worker.ts:338, "persist the exact bytes and local hash before any network
\* broadcast").
StoredBeforeSent == \A tx \in sent : rows[tx.req].raw = tx

\* Stored bytes are never replaced, also not by a worker that signed the same
\* row under a lease it has lost.
StoredBytesAreFinal ==
    [][\A r \in Request : rows[r].raw # NoTx => rows'[r].raw = rows[r].raw]_vars

\* Two requests in flight never hold the same nonce, although a reservation
\* reads the chain, reads the other rows and writes its own in three steps.
InFlightNoncesDistinct ==
    \A q, r \in Request :
        /\ q # r
        /\ rows[q].state \in InFlight
        /\ rows[r].state \in InFlight
        => rows[q].nonce # rows[r].nonce

SentFor(r) == {tx \in sent : tx.req = r}

\* What a settled row tells the user is what the chain did, and stays so: a
\* refusal or a technical failure is never followed by a payment (the nonce of its
\* only transaction is spent), also when the receipt was another transaction's,
\* and a request sent back for clarification never left the worker.
JournalIsTrue ==
    \A r \in Request :
        /\ rows[r].state = "executed" => outcome[r] = "EXECUTED"
        /\ rows[r].state = "refused" => outcome[r] = "REFUSED"
        /\ rows[r].state = "technical_failure" =>
              NonceTooLow(rows[r].raw) /\ outcome[r] = "UNSEEN"
        /\ rows[r].state = "needs_clarification" => SentFor(r) = {}

\* An unknown row keeps the signed transaction it is to be reconciled with, so
\* claimNext can always pick it up again (ARCHITECTURE.md, failure table).
UnknownKeepsEvidence ==
    \A r \in Request : rows[r].state = "unknown" => rows[r].raw # NoTx

\* A settled row is never written again, by whichever worker still has a copy.
SettledIsFinal ==
    [][\A r \in Request : rows[r].state \in Settled => rows'[r] = rows[r]]_vars

\* ARCHITECTURE.md:107 says of signer_blocked that the transaction was denied
\* "before Arc submission", and the client tells the user nothing was submitted.
\* A resolver error, though, ends a row in any state, also one whose transaction
\* is on its way (worker.ts:131).
BlockedMeansNeverSent ==
    \A r \in Request : rows[r].state = "signer_blocked" => SentFor(r) = {}

\* Every request gets its turn: a queued row is eventually picked up.  A reservation,
\* though, looks at rows in flight only (journal.ts:205), and gives the nonce of an
\* unknown row with signed bytes to the next request; once that one is included, the
\* unknown row can never be decided and takes every claim (journal.ts:112).
QueueIsServed ==
    \A r \in Request : rows[r].state = "queued" ~> rows[r].state # "queued"

\* A request that is alone under its key settles once the faults stop: no crash
\* point, lost answer, dropped transaction or lapsed lease strands it.
RequestsSettle ==
    \A r \in Request : rows[r].state = "queued" ~> rows[r].state \in Settled

\* What the service answers about a row: its progress is "working", the rest is
\* the state itself (the client shows the same, web/src/client/stages.ts:68).
Answer(state) ==
    IF state \in {"queued", "signing"} \cup InFlight THEN "working" ELSE state

Lifecycle == INSTANCE PaymentLifecycle
    WITH told <- [r \in Request |-> Answer(rows[r].state)], effect <- outcome

\* The workers implement the abstract life of a request: across crashes, lapsed
\* leases, second signatures and lost answers each request takes effect at most
\* once, never after a final "no", and the verdict its owner reads agrees.
ImplementsLifecycle == Lifecycle!LifecycleSpec

\* Below the nonce of a request in flight every nonce was used on the chain or is
\* held by some row: reservations skip none, however they interleave with
\* inclusions and drops, so only a row that gave up its nonce can hold up the key.
NoncesAreContiguous ==
    \A r \in Request :
        rows[r].state \in InFlight =>
            \A n \in LatestNonce..(rows[r].nonce - 1) :
                \E q \in Request : rows[q].nonce = n

=============================================================================
