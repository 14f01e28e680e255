------------------------ MODULE WorkerLifecycle_proofs ------------------------
(***************************************************************************)
(* That what a row says of its request is what the chain did, and that the *)
(* workers implement PaymentLifecycle, for any number of requests,         *)
(* workers, signatures and faults.                                         *)
(*                                                                         *)
(* A request has one signed transaction that was ever sent, and a nonce    *)
(* its one place in the chain; so a verdict about that transaction is a    *)
(* verdict about the request, whoever reads it and however late.           *)
(***************************************************************************)
EXTENDS PaymentWorker_proofs

\* What is included was sent and lies at its nonce; what the contract recorded
\* for a request was recorded by a transaction of it that went through.
ChainSound ==
    /\ \A i \in 1..Len(mined) : mined[i].tx \in sent /\ mined[i].tx.nonce = i - 1
    /\ \A r \in Request : outcome[r] # "UNSEEN" =>
          \E i \in 1..Len(mined) : mined[i].tx.req = r /\ mined[i].status = "success"

\* A failure is the failure of a stored transaction.
FailureHasTx(r) == rows[r].state = "technical_failure" => rows[r].raw \in Tx

VerdictInv ==
    /\ IInv
    /\ ChainSound
    /\ JournalIsTrue
    /\ \A r \in Request : FailureHasTx(r)

\* What must be the case when a worker that holds row r ends it as `state'.
Justified(r, state) ==
    /\ state = "executed" => outcome[r] = "EXECUTED"
    /\ state = "refused" => outcome[r] = "REFUSED"
    /\ state = "technical_failure" => /\ rows[r].raw \in Tx
                                      /\ NonceTooLow(rows[r].raw)
                                      /\ outcome[r] = "UNSEEN"
    /\ state = "needs_clarification" => outcome[r] = "UNSEEN"

Verdict(w, state) ==
    /\ FinishAs(w, state)
    /\ UNCHANGED <<mined, outcome>>
    /\ Holds(w, job[w].req) => Justified(job[w].req, state)

\* A step in which no owner of a request can see anything happen.
Unseen ==
    /\ UNCHANGED <<mined, outcome>>
    /\ \A r \in Request : Answer(rows'[r].state) = Answer(rows[r].state)

-----------------------------------------------------------------------------
\* The one transaction that recorded a request's outcome is the stored one.
LEMMA OutcomeHasTx ==
    ASSUME VerdictInv, NEW r \in Request, outcome[r] # "UNSEEN"
    PROVE  \E i \in 1..Len(mined) :
              /\ mined[i].tx = rows[r].raw
              /\ mined[i].status = "success"
              /\ rows[r].raw \in Tx
              /\ rows[r].raw.nonce = i - 1
PROOF
<1>1. PICK i \in 1..Len(mined) : mined[i].tx.req = r /\ mined[i].status = "success"
      BY DEF VerdictInv, ChainSound
<1>2. mined[i].tx \in sent /\ mined[i].tx.nonce = i - 1
      BY <1>1 DEF VerdictInv, ChainSound
<1>3. mined[i].tx \in Tx /\ rows[r].raw = mined[i].tx
      BY <1>1, <1>2 DEF VerdictInv, IInv, TypeOK, StoredBeforeSent
<1> QED BY <1>1, <1>2, <1>3

\* A request whose stored transaction was passed over or has failed has no outcome.
LEMMA NoOutcome ==
    ASSUME VerdictInv, NEW r \in Request, NEW tx \in Tx, rows[r].raw = tx,
           \/ Reverted(tx)
           \/ ~ IsMined(tx)
    PROVE  outcome[r] = "UNSEEN"
PROOF
<1> SUFFICES ASSUME outcome[r] # "UNSEEN" PROVE FALSE
    OBVIOUS
<1>1. PICK i \in 1..Len(mined) :
          /\ mined[i].tx = tx
          /\ mined[i].status = "success"
          /\ tx.nonce = i - 1
      BY OutcomeHasTx
<1>2. CASE ~ IsMined(tx)
      BY <1>1, <1>2 DEF IsMined
<1>3. CASE Reverted(tx)
    <2>1. PICK j \in 1..Len(mined) : mined[j].tx = tx /\ mined[j].status = "reverted"
          BY <1>3 DEF Reverted
    <2>2. tx.nonce = j - 1
          BY <2>1 DEF VerdictInv, ChainSound
    <2>3. j = i
          BY <1>1, <2>2
    <2> QED BY <1>1, <2>1, <2>3
<1> QED BY <1>2, <1>3

\* A transaction in the chain, or one whose nonce another took, is passed.
LEMMA Passed ==
    ASSUME VerdictInv, NEW tx, NEW i \in 1..Len(mined), mined[i].tx.nonce = tx.nonce
    PROVE  NonceTooLow(tx)
PROOF
<1>1. tx.nonce = i - 1
      BY DEF VerdictInv, ChainSound
<1>2. Len(mined) \in Nat
      BY LenProperties DEF VerdictInv, IInv, TypeOK
<1> QED BY <1>1, <1>2 DEF NonceTooLow, LatestNonce

\* Each way to end a tick is justified by what the worker has just read.
LEMMA SettlingIsJustified ==
    ASSUME VerdictInv, NEW w \in Worker,
           \/ ResolveFails(w) \/ ParseClarifies(w) \/ GuardBlocks(w)
           \/ BroadcastAmbiguous(w) \/ Reconciling(w)
    PROVE  \E state \in Settled \cup {"unknown"} : Verdict(w, state)
PROOF
<1> DEFINE r == job[w].req
           tx == job[w].raw
<1>1. r \in Request
      BY DEF VerdictInv, IInv, TypeOK, Job
<1>2. pc[w] \in {"broadcast", "receipt"} => tx \in Tx /\ rows[r].raw = tx
      BY DEF VerdictInv, IInv, CopySound
<1>3. CASE ResolveFails(w) \/ GuardBlocks(w)
      BY <1>3 DEF ResolveFails, GuardBlocks, Verdict, Justified, Settled, arcVars
<1>4. CASE BroadcastAmbiguous(w)
      BY <1>4 DEF BroadcastAmbiguous, Lose, Verdict, Justified, Settled
<1>5. CASE ReceiptUnresolved(w)
      BY <1>5 DEF ReceiptUnresolved, Verdict, Justified, Settled, arcVars
<1>6. CASE ParseClarifies(w)
    <2>1. Holds(w, r) => rows[r].raw = NoTx
          BY <1>1, <1>6 DEF ParseClarifies, VerdictInv, IInv, CopySound, RowSound,
                            Unsigned
    <2>2. Holds(w, r) => outcome[r] = "UNSEEN"
          BY <1>1, <2>1, OutcomeHasTx, NoTxAssumption
    <2> QED BY <1>6, <2>2 DEF ParseClarifies, Verdict, Justified, Settled, arcVars
<1>7. CASE ReceiptOfReplacement(w)
    <2>1. PICK i \in 1..Len(mined) : mined[i].tx.nonce = tx.nonce
          BY <1>7 DEF ReceiptOfReplacement
    <2>2. NonceTooLow(tx)
          BY <2>1, Passed
    <2>3. rows[r].raw = tx /\ tx \in Tx /\ outcome[r] = "UNSEEN"
          BY <1>1, <1>2, <1>7, NoOutcome DEF ReceiptOfReplacement
    <2> QED BY <1>7, <2>2, <2>3
               DEF ReceiptOfReplacement, Verdict, Justified, Settled, arcVars
<1>8. CASE ReceiptReconciles(w)
    <2>1. rows[r].raw = tx /\ tx \in Tx /\ IsMined(tx)
          BY <1>2, <1>8 DEF ReceiptReconciles
    <2>2. NonceTooLow(tx)
          BY <2>1, Passed DEF IsMined
    <2>3. Reverted(tx) => outcome[r] = "UNSEEN"
          BY <1>1, <2>1, NoOutcome
    <2> DEFINE state == ReconciledState(r, tx)
    <2>4. /\ state \in {"technical_failure", "executed", "refused", "unknown"}
          /\ state = "technical_failure" => Reverted(tx)
          /\ state = "executed" => outcome[r] = "EXECUTED"
          /\ state = "refused" => outcome[r] = "REFUSED"
          BY DEF ReconciledState
    <2>5. FinishAs(w, state) /\ UNCHANGED <<mined, outcome>>
          BY <1>8 DEF ReceiptReconciles, arcVars
    <2> HIDE DEF state
    <2>6. Justified(r, state)
          BY <2>1, <2>2, <2>3, <2>4 DEF Justified
    <2> QED BY <2>4, <2>5, <2>6 DEF Verdict, Settled
<1> QED BY <1>3, <1>4, <1>5, <1>6, <1>7, <1>8 DEF Reconciling

\* Every step is a new request, a verdict, an inclusion, or seen by nobody.
LEMMA StepKinds ==
    ASSUME VerdictInv, [Next]_vars
    PROVE  \/ \E r \in Request : Enqueue(r)
           \/ \E w \in Worker, state \in Settled \cup {"unknown"} : Verdict(w, state)
           \/ Mine
           \/ Unseen
PROOF
<1> USE DEF Unseen
<1>1. rows \in [Request -> Row] /\ \A w \in Worker : job[w].req \in Request
      BY DEF VerdictInv, IInv, TypeOK, Job
<1>2. ASSUME UNCHANGED <<rows, mined, outcome>> PROVE Unseen
      BY <1>2
<1>3. ASSUME NEW r \in Request, LeaseLapses(r) PROVE Unseen
      BY <1>1, <1>3 DEF LeaseLapses, Lapse, arcVars, Row
<1>4. ASSUME NEW w \in Worker, NEW r \in Request, Claim(w, r) PROVE Unseen
      BY <1>1, <1>4 DEF Claim, Lease, arcVars, Row
<1>5. ASSUME NEW w \in Worker, CommitReserve(w) PROVE Unseen
      BY <1>1, <1>5 DEF CommitReserve, CanReserve, Reserve, arcVars, Row, Answer,
                        InFlight
<1>6. ASSUME NEW w \in Worker, RecordSigned(w) PROVE Unseen
      BY <1>1, <1>6 DEF RecordSigned, CanRecordSigned, StoreSigned, arcVars, Row,
                        Answer, InFlight
<1>7. ASSUME NEW w \in Worker, RecordBroadcast(w) PROVE Unseen
      BY <1>1, <1>7 DEF RecordBroadcast, CanRecordBroadcast, StoreBroadcast, arcVars,
                        Row, Answer, InFlight
<1>8. ASSUME NEW w \in Worker,
             \/ ResumeReceipt(w) \/ ResumeBroadcast(w) \/ ResumeConstruct(w)
             \/ ParseSucceeds(w) \/ BeginReserve(w) \/ QueryInFlight(w) \/ Sign(w)
             \/ BroadcastAccepted(w) \/ BroadcastNonceTooLow(w) \/ Abandon(w)
      PROVE  Unseen
    <2>1. UNCHANGED <<rows, mined, outcome>>
          BY <1>8 DEF ResumeReceipt, ResumeBroadcast, ResumeConstruct, ParseSucceeds,
                      Proceed, BeginReserve, QueryInFlight, Sign, BroadcastAccepted,
                      Accept, BroadcastNonceTooLow, RefuseNonce, Abandon,
                      journalVars, arcVars
    <2> QED BY <1>2, <2>1
<1>9. CASE Evict \/ UNCHANGED vars
    <2>1. UNCHANGED <<rows, mined, outcome>>
          BY <1>9 DEF Evict, Drop, vars, journalVars, arcVars
    <2> QED BY <1>2, <2>1
<1>10. ASSUME NEW w \in Worker, Tick(w)
       PROVE  \/ Unseen
              \/ \E state \in Settled \cup {"unknown"} : Verdict(w, state)
       BY <1>4, <1>5, <1>6, <1>7, <1>8, <1>10, SettlingIsJustified
          DEF Tick, Resolved, Reserving, Signing, Broadcasting
<1> QED BY <1>3, <1>8, <1>9, <1>10 DEF Next

-----------------------------------------------------------------------------
LEMMA VerdictInit == Init => VerdictInv
PROOF
<1> SUFFICES ASSUME Init PROVE VerdictInv
    OBVIOUS
<1>1. IInv
      BY InitInv
<1>2. mined = <<>> /\ \A r \in Request : outcome[r] = "UNSEEN"
      BY DEF Init, ArcInit
<1>3. ChainSound
      BY <1>2 DEF ChainSound
<1>4. JournalIsTrue
      BY DEF Init, JournalInit, ArcInit, NoRow, JournalIsTrue
<1>5. \A r \in Request : FailureHasTx(r)
      BY DEF Init, JournalInit, NoRow, FailureHasTx
<1> QED BY <1>1, <1>3, <1>4, <1>5 DEF VerdictInv

\* What was sent stays sent.
LEMMA SentGrows ==
    ASSUME [Next]_vars
    PROVE  sent \subseteq sent'
PROOF
<1>1. ASSUME NEW w \in Worker, Tick(w) PROVE sent \subseteq sent'
      BY <1>1 DEF Tick, Resolved, Reserving, Signing, Broadcasting, Reconciling,
                  Claim, ResolveFails, ResumeReceipt, ResumeBroadcast,
                  ResumeConstruct, ParseClarifies, ParseSucceeds, Proceed,
                  BeginReserve, QueryInFlight, CommitReserve, GuardBlocks, Sign,
                  RecordSigned, BroadcastAccepted, Accept, BroadcastNonceTooLow,
                  RefuseNonce, BroadcastAmbiguous, Lose, RecordBroadcast,
                  ReceiptReconciles, ReceiptOfReplacement, ReceiptUnresolved, arcVars
<1>2. CASE (\E r \in Request : Enqueue(r) \/ LeaseLapses(r))
              \/ (\E w \in Worker : Abandon(w)) \/ Mine \/ Evict \/ UNCHANGED vars
      BY <1>2 DEF Enqueue, LeaseLapses, Abandon, Mine, Include, Evict, Drop, vars,
                  arcVars
<1> QED BY <1>1, <1>2 DEF Next

\* An inclusion appends the stored transaction of its request at its nonce.
LEMMA Included ==
    ASSUME VerdictInv, Mine
    PROVE  /\ UNCHANGED rows
           /\ \E tx \in sent, status \in {"success", "reverted"} :
                /\ tx \in Tx /\ tx.req \in Request
                /\ rows[tx.req].raw = tx
                /\ tx.nonce = Len(mined)
                /\ mined' = Append(mined, [tx |-> tx, status |-> status])
                /\ \A q \in Request : q # tx.req => outcome'[q] = outcome[q]
                /\ outcome[tx.req] # "UNSEEN" => outcome'[tx.req] = outcome[tx.req]
                /\ outcome'[tx.req] # outcome[tx.req] =>
                      status = "success" /\ outcome'[tx.req] \in Outcome \ {"UNSEEN"}
                /\ outcome' \in [Request -> Outcome]
PROOF
<1>1. PICK tx \in waiting : Include(tx) /\ UNCHANGED <<journalVars, workerVars>>
      BY DEF Mine
<1>2. tx \in sent /\ tx \in Tx /\ tx.req \in Request /\ rows[tx.req].raw = tx
      BY DEF VerdictInv, IInv, TypeOK, StoredBeforeSent, Tx
<1>3. tx.nonce = Len(mined)
      BY <1>1 DEF Include, LatestNonce
<1>4. outcome \in [Request -> Outcome]
      BY DEF VerdictInv, IInv, TypeOK
<1>5. \E status \in {"success", "reverted"} :
          /\ mined' = Append(mined, [tx |-> tx, status |-> status])
          /\ \/ outcome' = outcome
             \/ /\ status = "success"
                /\ outcome[tx.req] = "UNSEEN"
                /\ \E o \in Outcome \ {"UNSEEN"} :
                      outcome' = [outcome EXCEPT ![tx.req] = o]
      BY <1>1 DEF Include
<1>6. PICK status \in {"success", "reverted"} :
          /\ mined' = Append(mined, [tx |-> tx, status |-> status])
          /\ \/ outcome' = outcome
             \/ /\ status = "success"
                /\ outcome[tx.req] = "UNSEEN"
                /\ \E o \in Outcome \ {"UNSEEN"} :
                      outcome' = [outcome EXCEPT ![tx.req] = o]
      BY <1>5
<1>7. /\ \A q \in Request : q # tx.req => outcome'[q] = outcome[q]
      /\ outcome[tx.req] # "UNSEEN" => outcome'[tx.req] = outcome[tx.req]
      /\ outcome'[tx.req] # outcome[tx.req] =>
            status = "success" /\ outcome'[tx.req] \in Outcome \ {"UNSEEN"}
      /\ outcome' \in [Request -> Outcome]
      BY <1>2, <1>4, <1>6
<1> QED BY <1>1, <1>2, <1>3, <1>6, <1>7 DEF journalVars

LEMMA ChainStep ==
    ASSUME VerdictInv, [Next]_vars
    PROVE  ChainSound'
PROOF
<1>1. sent \subseteq sent'
      BY SentGrows
<1>2. CASE UNCHANGED <<mined, outcome>>
      BY <1>1, <1>2 DEF VerdictInv, ChainSound
<1>3. CASE Mine
    <2>1. PICK tx \in sent, status \in {"success", "reverted"} :
                /\ tx \in Tx /\ tx.req \in Request
                /\ tx.nonce = Len(mined)
                /\ mined' = Append(mined, [tx |-> tx, status |-> status])
                /\ \A q \in Request : q # tx.req => outcome'[q] = outcome[q]
                /\ outcome'[tx.req] # outcome[tx.req] => status = "success"
          BY <1>3, Included
    <2> DEFINE n == Len(mined)
               new == [tx |-> tx, status |-> status]
    <2>2. mined \in Seq(Receipt) /\ new \in Receipt /\ n \in Nat
          BY <2>1, LenProperties DEF VerdictInv, IInv, TypeOK, Receipt
    <2>3. /\ Len(mined') = n + 1
          /\ \A i \in 1..n : mined'[i] = mined[i]
          /\ mined'[n + 1] = new
          BY <2>1, <2>2, AppendProperties
    <2>4. new.tx = tx /\ new.status = status
          OBVIOUS
    <2>5. /\ \A i \in 1..n : mined[i].tx \in sent /\ mined[i].tx.nonce = i - 1
          /\ \A r \in Request : outcome[r] # "UNSEEN" =>
                \E i \in 1..n : mined[i].tx.req = r /\ mined[i].status = "success"
          BY DEF VerdictInv, ChainSound
    <2>6. tx.nonce = n
          BY <2>1
    <2> HIDE DEF n, new
    <2>7. ASSUME NEW i \in 1..(n + 1)
          PROVE  mined'[i].tx \in sent' /\ mined'[i].tx.nonce = i - 1
        <3>1. CASE i \in 1..n
              BY <1>1, <2>3, <2>5, <3>1
        <3>2. CASE i = n + 1
              BY <1>1, <2>1, <2>2, <2>3, <2>4, <2>6, <3>2
        <3> QED BY <2>2, <3>1, <3>2
    <2>8. ASSUME NEW r \in Request, outcome'[r] # "UNSEEN"
          PROVE  \E i \in 1..(n + 1) : mined'[i].tx.req = r /\ mined'[i].status = "success"
        <3>1. CASE outcome'[r] = outcome[r]
            <4>1. PICK i \in 1..n : mined[i].tx.req = r /\ mined[i].status = "success"
                  BY <2>5, <2>8, <3>1
            <4>2. i \in 1..(n + 1) /\ mined'[i] = mined[i]
                  BY <2>2, <2>3
            <4> QED BY <4>1, <4>2
        <3>2. CASE outcome'[r] # outcome[r]
            <4>1. r = tx.req /\ status = "success"
                  BY <2>1, <3>2
            <4>2. n + 1 \in 1..(n + 1)
                  BY <2>2
            <4> QED BY <2>3, <2>4, <4>1, <4>2
        <3> QED BY <3>1, <3>2
    <2> QED BY <2>3, <2>7, <2>8 DEF ChainSound
<1> QED BY <1>2, <1>3, StepKinds DEF Enqueue, Verdict, Unseen, arcVars

\* What the verdict in a row says.
Stands(r) ==
    /\ rows[r].state = "executed" => outcome[r] = "EXECUTED"
    /\ rows[r].state = "refused" => outcome[r] = "REFUSED"
    /\ rows[r].state = "technical_failure" => /\ rows[r].raw \in Tx
                                              /\ NonceTooLow(rows[r].raw)
                                              /\ outcome[r] = "UNSEEN"

\* A verdict stays true: its row is closed, and no transaction of it is left.
LEMMA JournalStep ==
    ASSUME VerdictInv, [Next]_vars, IInv'
    PROVE  JournalIsTrue' /\ \A r \in Request : FailureHasTx(r)'
PROOF
<1> SUFFICES ASSUME NEW r \in Request
             PROVE  Stands(r)' /\ (rows[r].state = "needs_clarification" => SentFor(r) = {})'
    BY DEF JournalIsTrue, Stands, FailureHasTx
<1>1. (rows[r].state = "needs_clarification" => SentFor(r) = {})'
    <2>1. rows'[r].state = "needs_clarification" => rows'[r].raw = NoTx
          BY DEF IInv, RowSound, Unsigned
    <2>2. \A tx \in sent' : tx \in Tx /\ rows'[tx.req].raw = tx
          BY DEF IInv, TypeOK, StoredBeforeSent
    <2> QED BY <2>1, <2>2, NoTxAssumption DEF SentFor
<1>2. RowKept(r)
      BY StepKeepsRow DEF VerdictInv
<1>3. Stands(r)
      BY DEF VerdictInv, JournalIsTrue, FailureHasTx, Stands
<1>4. ASSUME UNCHANGED <<mined, outcome>>,
             rows'[r].state \in Settled => rows'[r] = rows[r]
      PROVE  Stands(r)'
      BY <1>3, <1>4 DEF Stands, Settled, NonceTooLow, LatestNonce
<1>5. CASE \E q \in Request : Enqueue(q)
    <2>1. rows'[r].state \in Settled => rows'[r] = rows[r]
          BY <1>5 DEF Enqueue, Insert, Settled, VerdictInv, IInv, TypeOK, Row
    <2> QED BY <1>1, <1>4, <1>5, <2>1 DEF Enqueue, arcVars
<1>6. CASE Unseen
    <2>1. rows'[r].state \in State /\ rows[r].state \in State
          BY DEF VerdictInv, IInv, TypeOK, Row
    <2>2. rows'[r].state \in Settled => rows'[r].state = rows[r].state
          BY <1>6, <2>1 DEF Unseen, Answer, Settled, State, InFlight
    <2>3. rows'[r].state \in Settled => rows'[r] = rows[r]
          BY <1>2, <2>2 DEF RowKept
    <2> QED BY <1>1, <1>4, <1>6, <2>3 DEF Unseen
<1>7. ASSUME NEW w \in Worker, NEW state \in Settled \cup {"unknown"}, Verdict(w, state)
      PROVE  Stands(r)'
    <2>1. job[w].req \in Request /\ state \in State
          BY DEF VerdictInv, IInv, TypeOK, Job, State
    <2>2. /\ \A q \in Request :
                q # job[w].req \/ ~ Holds(w, job[w].req) => rows'[q] = rows[q]
          /\ Holds(w, job[w].req) => /\ rows'[job[w].req].state = state
                                     /\ rows'[job[w].req].raw = rows[job[w].req].raw
          BY <1>7, <2>1, FinishRows DEF Verdict, FinishAs, VerdictInv, IInv
    <2>3. CASE rows'[r] = rows[r]
          BY <1>4, <1>7, <2>3 DEF Verdict
    <2>4. CASE r = job[w].req /\ Holds(w, r)
        <3>1. Justified(r, state) /\ rows'[r].state = state
              /\ rows'[r].raw = rows[r].raw /\ UNCHANGED <<mined, outcome>>
              BY <1>7, <2>2, <2>4 DEF Verdict
        <3> QED BY <3>1 DEF Stands, Justified, NonceTooLow, LatestNonce
    <2> QED BY <2>2, <2>3, <2>4
<1>8. CASE Mine
    <2>1. PICK tx \in sent, status \in {"success", "reverted"} :
                /\ tx \in Tx /\ rows[tx.req].raw = tx
                /\ tx.nonce = Len(mined)
                /\ mined' = Append(mined, [tx |-> tx, status |-> status])
                /\ \A q \in Request : q # tx.req => outcome'[q] = outcome[q]
                /\ outcome[tx.req] # "UNSEEN" => outcome'[tx.req] = outcome[tx.req]
          BY <1>8, Included
    <2>2. rows'[r] = rows[r]
          BY <1>8, Included
    <2>3. mined \in Seq(Receipt) /\ [tx |-> tx, status |-> status] \in Receipt
          BY <2>1 DEF VerdictInv, IInv, TypeOK, Receipt
    <2>4. Len(mined') = Len(mined) + 1 /\ Len(mined) \in Nat
          BY <2>1, <2>3, AppendProperties, LenProperties
    <2>5. outcome[r] # "UNSEEN" => outcome'[r] = outcome[r]
          BY <2>1
    <2>6. ASSUME rows[r].state = "technical_failure"
          PROVE  NonceTooLow(rows[r].raw)' /\ outcome'[r] = "UNSEEN"
        <3>1. /\ rows[r].raw \in Tx /\ rows[r].raw.nonce < Len(mined)
              /\ outcome[r] = "UNSEEN"
              BY <1>3, <2>6 DEF Stands, NonceTooLow, LatestNonce
        <3>2. tx.req # r
              BY <2>1, <2>4, <3>1
        <3>3. outcome'[r] = "UNSEEN"
              BY <2>1, <3>1, <3>2
        <3>4. rows[r].raw.nonce < Len(mined')
            <4>1. rows[r].raw.nonce \in Nat
                  BY <3>1 DEF Tx
            <4> QED BY <2>4, <3>1, <4>1
        <3> QED BY <2>2, <3>3, <3>4 DEF NonceTooLow, LatestNonce
    <2> QED BY <1>1, <1>3, <2>2, <2>5, <2>6 DEF Stands
<1> QED BY <1>1, <1>5, <1>6, <1>7, <1>8, StepKinds

LEMMA VerdictStep == VerdictInv /\ [Next]_vars => VerdictInv'
PROOF
<1> SUFFICES ASSUME VerdictInv, [Next]_vars PROVE VerdictInv'
    OBVIOUS
<1>1. IInv'
      BY StepInv DEF VerdictInv
<1> QED BY <1>1, ChainStep, JournalStep DEF VerdictInv

THEOREM VerdictInvariance == Spec => []VerdictInv
PROOF BY VerdictInit, VerdictStep, PTL DEF Spec

\* What a settled row tells the user is what the chain did, for good: no refusal
\* or failure is followed by a payment, whichever receipt it was read from.
THEOREM JournalTellsTheTruth == Spec => []JournalIsTrue
PROOF
<1>1. VerdictInv => JournalIsTrue
      BY DEF VerdictInv
<1> QED BY <1>1, VerdictInvariance, PTL

-----------------------------------------------------------------------------
(* The refinement *)

ToldNow == [r \in Request |-> Answer(rows[r].state)]

LEMMA LifecycleInitially == Init => Lifecycle!LifecycleInit
PROOF
<1> SUFFICES ASSUME Init PROVE Lifecycle!LifecycleInit
    OBVIOUS
<1>1. \A r \in Request : Answer(rows[r].state) = "absent"
      BY DEF Init, JournalInit, NoRow, Answer, InFlight
<1>2. outcome = [r \in Request |-> "UNSEEN"]
      BY DEF Init, ArcInit
<1> QED BY <1>1, <1>2 DEF Lifecycle!LifecycleInit

\* A new row is an accepted request.
LEMMA EnqueueAccepts ==
    ASSUME VerdictInv, NEW r \in Request, Enqueue(r)
    PROVE  Lifecycle!Accept(r)
PROOF
<1>1. rows[r].state = "absent" /\ rows'[r].state = "queued"
      /\ \A q \in Request : q # r => rows'[q] = rows[q]
      BY DEF Enqueue, Insert, VerdictInv, IInv, TypeOK, Row
<1>2. outcome' = outcome
      BY DEF Enqueue, arcVars
<1>3. /\ ToldNow[r] = "absent"
      /\ ToldNow' = [ToldNow EXCEPT ![r] = "working"]
      BY <1>1 DEF ToldNow, Answer, InFlight
<1> QED BY <1>2, <1>3 DEF Lifecycle!Accept, ToldNow

\* An inclusion takes effect once, and never for a request that was told "no".
LEMMA InclusionTakesEffect ==
    ASSUME VerdictInv, Mine
    PROVE  \/ \E r \in Request, o \in Lifecycle!Effect : Lifecycle!TakeEffect(r, o)
           \/ UNCHANGED <<ToldNow, outcome>>
PROOF
<1>1. PICK tx \in sent, status \in {"success", "reverted"} :
            /\ tx \in Tx /\ tx.req \in Request
            /\ rows[tx.req].raw = tx
            /\ tx.nonce = Len(mined)
            /\ \A q \in Request : q # tx.req => outcome'[q] = outcome[q]
            /\ outcome[tx.req] # "UNSEEN" => outcome'[tx.req] = outcome[tx.req]
            /\ outcome'[tx.req] # outcome[tx.req] =>
                  outcome'[tx.req] \in Outcome \ {"UNSEEN"}
            /\ outcome' \in [Request -> Outcome]
      BY Included
<1> DEFINE r == tx.req
<1>2. rows' = rows /\ ToldNow' = ToldNow
      BY Included DEF ToldNow
<1>3. outcome \in [Request -> Outcome] /\ rows[r].state \in State /\ Len(mined) \in Nat
      BY <1>1, LenProperties DEF VerdictInv, IInv, TypeOK, Row
<1>4. CASE outcome'[r] = outcome[r]
    <2>1. outcome' = outcome
          BY <1>1, <1>3, <1>4
    <2> QED BY <1>2, <2>1
<1>5. CASE outcome'[r] # outcome[r]
    <2>1. outcome[r] = "UNSEEN" /\ outcome'[r] \in Outcome \ {"UNSEEN"}
          BY <1>1, <1>5
    <2>2. outcome' = [outcome EXCEPT ![r] = outcome'[r]]
          BY <1>1, <1>3
    <2>3. rows[r].state \notin Unsigned
          BY <1>1, NoTxAssumption DEF VerdictInv, IInv, RowSound
    <2>4. rows[r].state \notin {"executed", "refused"}
          BY <1>1, <2>1 DEF VerdictInv, JournalIsTrue
    <2>5. rows[r].state # "technical_failure"
          BY <1>1, <1>3 DEF VerdictInv, JournalIsTrue, NonceTooLow, LatestNonce, Tx
    <2>6. ToldNow[r] \in Lifecycle!Open \cup {"signer_blocked"}
          BY <1>1, <1>3, <2>3, <2>4, <2>5
             DEF ToldNow, Answer, State, Settled, InFlight, Unsigned, Lifecycle!Open
    <2>7. PICK o \in Outcome : o = outcome'[r]
          BY <2>1
    <2>8. Lifecycle!TakeEffect(r, o)
          BY <1>2, <2>1, <2>2, <2>6, <2>7 DEF Lifecycle!TakeEffect, ToldNow
    <2> QED BY <1>1, <2>8 DEF Lifecycle!Effect, Outcome
<1> QED BY <1>4, <1>5

\* Ending a tick parks the request or settles it with a verdict that fits.
LEMMA VerdictSettles ==
    ASSUME VerdictInv, NEW w \in Worker, NEW state \in Settled \cup {"unknown"},
           Verdict(w, state)
    PROVE  \/ \E r \in Request : Lifecycle!Park(r)
           \/ \E r \in Request, verdict \in Lifecycle!Final : Lifecycle!Settle(r, verdict)
           \/ UNCHANGED <<ToldNow, outcome>>
PROOF
<1>1. PICK r \in Request : r = job[w].req
      BY DEF VerdictInv, IInv, TypeOK, Job
<1>2. outcome' = outcome /\ state \in State
      BY DEF Verdict, State
<1>3. /\ \A q \in Request : q # r \/ ~ Holds(w, r) => rows'[q] = rows[q]
      /\ Holds(w, r) => rows'[r].state = state
      BY <1>1, <1>2, FinishRows DEF Verdict, FinishAs, VerdictInv, IInv
<1>4. CASE ~ Holds(w, r)
    <2>1. ToldNow' = ToldNow
          BY <1>3, <1>4 DEF ToldNow
    <2> QED BY <1>2, <2>1
<1>5. CASE Holds(w, r)
    <2>1. rows[r].state \in State \ (Settled \cup {"absent"})
          BY <1>5, WorkerAssumption DEF Holds, VerdictInv, IInv, TypeOK, Row, RowSound
    <2>2. ToldNow[r] \in Lifecycle!Open
          BY <2>1 DEF ToldNow, Answer, State, Settled, InFlight, Lifecycle!Open
    <2>3. Answer(state) = state
          BY DEF Answer, Settled, InFlight
    <2>4. ToldNow' = [ToldNow EXCEPT ![r] = state]
          BY <1>3, <1>5, <2>3 DEF ToldNow
    <2>5. Justified(r, state)
          BY <1>1, <1>5 DEF Verdict
    <2>6. CASE state = "unknown"
        <3>1. CASE ToldNow[r] = "working"
            <4>1. Lifecycle!Park(r)
                  BY <1>2, <2>4, <2>6, <3>1 DEF Lifecycle!Park, ToldNow
            <4> QED BY <4>1
        <3>2. CASE ToldNow[r] = "unknown"
            <4>1. ToldNow' = ToldNow
                  BY <2>4, <2>6, <3>2 DEF ToldNow
            <4> QED BY <1>2, <4>1
        <3> QED BY <2>2, <3>1, <3>2 DEF Lifecycle!Open
    <2>7. CASE state \in Settled
        <3>1. outcome[r] \in Lifecycle!Effect
              BY DEF VerdictInv, IInv, TypeOK, Outcome, Lifecycle!Effect
        <3>2. outcome[r] \in Lifecycle!EffectOf(state)
              BY <2>5, <2>7, <3>1 DEF Justified, Settled, Lifecycle!EffectOf
        <3>3. Lifecycle!Settle(r, state)
              BY <1>2, <2>2, <2>4, <3>2 DEF Lifecycle!Settle, ToldNow
        <3> QED BY <2>7, <3>3 DEF Settled, Lifecycle!Final
    <2> QED BY <2>6, <2>7
<1> QED BY <1>4, <1>5

LEMMA LifecycleStep ==
    VerdictInv /\ [Next]_vars =>
        Lifecycle!LifecycleNext \/ UNCHANGED <<ToldNow, outcome>>
PROOF
<1> SUFFICES ASSUME VerdictInv, [Next]_vars
             PROVE  Lifecycle!LifecycleNext \/ UNCHANGED <<ToldNow, outcome>>
    OBVIOUS
<1>1. ASSUME NEW r \in Request, Enqueue(r) PROVE Lifecycle!LifecycleNext
    <2>1. Lifecycle!Accept(r)
          BY <1>1, EnqueueAccepts
    <2> QED BY <2>1 DEF Lifecycle!LifecycleNext
<1>2. CASE Mine
      BY <1>2, InclusionTakesEffect DEF Lifecycle!LifecycleNext
<1>3. ASSUME NEW w \in Worker, NEW state \in Settled \cup {"unknown"}, Verdict(w, state)
      PROVE  Lifecycle!LifecycleNext \/ UNCHANGED <<ToldNow, outcome>>
      BY <1>3, VerdictSettles DEF Lifecycle!LifecycleNext
<1>4. CASE Unseen
    <2>1. ToldNow' = ToldNow
          BY <1>4 DEF Unseen, ToldNow
    <2> QED BY <1>4, <2>1 DEF Unseen
<1> QED BY <1>1, <1>2, <1>3, <1>4, StepKinds

\* Across crashes, lapsed leases, second signatures and lost answers each request
\* takes effect at most once, never after a final "no", and its verdict agrees.
THEOREM ImplementsTheLifecycle == Spec => ImplementsLifecycle
PROOF
<1>1. VerdictInv /\ [Next]_vars => [Lifecycle!LifecycleNext]_(Lifecycle!lifecycleVars)
      BY LifecycleStep DEF ToldNow, Lifecycle!lifecycleVars
<1> QED BY <1>1, LifecycleInitially, VerdictInvariance, PTL
           DEF Spec, ImplementsLifecycle, Lifecycle!LifecycleSpec

-----------------------------------------------------------------------------
(* Reservations skip no nonce.  A reservation looks at the chain and at the    *)
(* rows in flight at different moments; what it has seen is covered by rows,   *)
(* and stays covered, because a row's nonce is for good and the chain only     *)
(* grows.                                                                      *)

Covered(limit) ==
    \A n \in LatestNonce..(limit - 1) : \E q \in Request : rows[q].nonce = n

NonceSound(r) ==
    /\ rows[r].raw # NoTx => rows[r].raw.nonce = rows[r].nonce
    /\ rows[r].state \in {"absent", "queued"} => rows[r].nonce = NoNonce
    /\ rows[r].state \in InFlight => Covered(rows[r].nonce)

\* The nonce in a worker's copy is the one of the row it holds.
NonceCopy(w) ==
    LET r == job[w].req IN
    /\ pc[w] = "resolve" /\ Holds(w, r) /\ rows[r].nonce \in Nat =>
          job[w].nonce = rows[r].nonce
    /\ pc[w] \in {"construct", "record"} /\ Holds(w, r) =>
          job[w].nonce = rows[r].nonce
    /\ pc[w] = "record" => job[w].raw.nonce = job[w].nonce
    /\ pc[w] \in {"query", "commit"} => Covered(job[w].nonce)

NonceInv ==
    /\ IInv
    /\ \A r \in Request : NonceSound(r)
    /\ \A w \in Worker : NonceCopy(w)

\* A nonce once given to a row stays with it, and the chain only grows.
NoncesStay ==
    /\ LatestNonce \in Nat /\ LatestNonce' \in Nat /\ LatestNonce <= LatestNonce'
    /\ \A q \in Request : rows[q].nonce \in Nat => rows'[q].nonce = rows[q].nonce

NonceKept(r) ==
    /\ rows'[r].nonce = rows[r].nonce
    /\ rows'[r].raw = rows[r].raw
    /\ rows'[r].state \in InFlight => rows[r].state \in InFlight
    /\ rows'[r].state \in {"absent", "queued"} => rows[r].state \in {"absent", "queued"}

LEMMA CoveredStays ==
    ASSUME NoncesStay, NEW limit \in Nat, Covered(limit)
    PROVE  \A n \in LatestNonce'..(limit - 1) : \E q \in Request : rows'[q].nonce = n
PROOF
<1> SUFFICES ASSUME NEW n \in LatestNonce'..(limit - 1)
             PROVE  \E q \in Request : rows'[q].nonce = n
    OBVIOUS
<1>1. n \in Nat /\ n \in LatestNonce..(limit - 1)
      BY DEF NoncesStay
<1>2. PICK q \in Request : rows[q].nonce = n
      BY <1>1 DEF Covered
<1> QED BY <1>1, <1>2 DEF NoncesStay

\* Whoever acts, if a worker, has a sound copy after it; the others keep their
\* copies and their rows.
LEMMA NonceFrame ==
    ASSUME NonceInv, NoncesStay, NEW actor,
           \A v \in Worker \ {actor} :
              /\ pc'[v] = pc[v] /\ job'[v] = job[v]
              /\ \A r \in Request : rows'[r].owner = v =>
                    rows[r].owner = v /\ rows'[r].nonce = rows[r].nonce,
           \A r \in Request : NonceKept(r) \/ NonceSound(r)',
           actor \in Worker => NonceCopy(actor)'
    PROVE  /\ \A r \in Request : NonceSound(r)'
           /\ \A w \in Worker : NonceCopy(w)'
PROOF
<1>1. ASSUME NEW r \in Request, NonceKept(r) PROVE NonceSound(r)'
    <2>1. NonceSound(r)
          BY DEF NonceInv
    <2>2. ASSUME rows'[r].state \in InFlight PROVE Covered(rows[r].nonce)'
        <3>1. rows[r].nonce \in Nat /\ Covered(rows[r].nonce)
              BY <1>1, <2>1, <2>2 DEF NonceInv, IInv, RowSound, NonceKept, NonceSound
        <3>2. \A n \in LatestNonce'..(rows[r].nonce - 1) :
                 \E q \in Request : rows'[q].nonce = n
              BY <3>1, CoveredStays
        <3> QED BY <1>1, <3>2 DEF NonceKept, Covered
    <2> QED BY <1>1, <2>1, <2>2 DEF NonceKept, NonceSound
<1>2. ASSUME NEW v \in Worker \ {actor} PROVE NonceCopy(v)'
    <2>1. job[v] \in Job /\ job[v].req \in Request /\ job[v].nonce \in Nat
          BY DEF NonceInv, IInv, TypeOK, Job
    <2>2. NonceCopy(v) /\ pc'[v] = pc[v] /\ job'[v] = job[v]
          BY DEF NonceInv
    <2>3. Holds(v, job[v].req)' => /\ Holds(v, job[v].req)
                                  /\ rows'[job[v].req].nonce = rows[job[v].req].nonce
          BY <2>1, <2>2 DEF Holds
    <2>4. Covered(job[v].nonce) => Covered(job[v].nonce)'
          BY <2>1, <2>2, CoveredStays DEF Covered
    <2> QED BY <2>2, <2>3, <2>4 DEF NonceCopy, Holds
<1> QED BY <1>1, <1>2

LEMMA NonceInit == Init => NonceInv
PROOF
<1> SUFFICES ASSUME Init PROVE NonceInv
    OBVIOUS
<1>1. IInv
      BY InitInv
<1>2. \A r \in Request : NonceSound(r)
      BY DEF Init, JournalInit, NoRow, NonceSound, InFlight
<1>3. \A w \in Worker : NonceCopy(w)
      BY DEF Init, NonceCopy
<1> QED BY <1>1, <1>2, <1>3 DEF NonceInv

LEMMA ChainStill ==
    ASSUME NonceInv, UNCHANGED mined,
           \A q \in Request : rows[q].nonce \in Nat => rows'[q].nonce = rows[q].nonce
    PROVE  NoncesStay
PROOF
<1>1. LatestNonce \in Nat /\ LatestNonce' = LatestNonce
      BY LenProperties DEF NonceInv, IInv, TypeOK, LatestNonce
<1> QED BY <1>1 DEF NoncesStay

\* A step of one worker, or of none, that leaves rows and chain alone.
LEMMA RowsStill ==
    ASSUME NonceInv, UNCHANGED <<rows, mined>>, NEW actor,
           \A v \in Worker \ {actor} : pc'[v] = pc[v] /\ job'[v] = job[v],
           actor \in Worker => NonceCopy(actor)'
    PROVE  /\ \A r \in Request : NonceSound(r)'
           /\ \A w \in Worker : NonceCopy(w)'
PROOF
<1>1. NoncesStay
      BY ChainStill
<1>2. \A r \in Request : NonceKept(r)
      BY DEF NonceKept
<1> QED BY <1>1, <1>2, NonceFrame

\* What a step that ends a tick leaves behind.
LEMMA IdleCopy ==
    ASSUME NEW w \in Worker, pc'[w] = "idle" \/ pc'[w] = "broadcast"
              \/ pc'[w] = "recordBroadcast" \/ pc'[w] = "receipt" \/ pc'[w] = "reserve"
    PROVE  NonceCopy(w)'
PROOF BY DEF NonceCopy

LEMMA EnqueueNonces ==
    ASSUME NonceInv, NEW r \in Request, Enqueue(r) \/ LeaseLapses(r)
    PROVE  (\A q \in Request : NonceSound(q)') /\ (\A w \in Worker : NonceCopy(w)')
PROOF
<1>1. /\ rows \in [Request -> Row]
      /\ UNCHANGED <<mined, pc, job>>
      BY DEF Enqueue, LeaseLapses, arcVars, workerVars, NonceInv, IInv, TypeOK
<1>2. \A q \in Request : NonceKept(q) /\ rows'[q].owner = rows[q].owner
      BY <1>1 DEF Enqueue, Insert, LeaseLapses, Lapse, NonceKept, Row, InFlight
<1>3. NoncesStay
      BY <1>1, <1>2, ChainStill DEF NonceKept
<1>4. \A v \in Worker \ {NoWorker} :
              /\ pc'[v] = pc[v] /\ job'[v] = job[v]
              /\ \A q \in Request : rows'[q].owner = v =>
                    rows[q].owner = v /\ rows'[q].nonce = rows[q].nonce
      BY <1>1, <1>2 DEF NonceKept
<1> QED BY <1>2, <1>3, <1>4, NonceFrame, WorkerAssumption

LEMMA MineNonces ==
    ASSUME NonceInv, Mine
    PROVE  (\A q \in Request : NonceSound(q)') /\ (\A w \in Worker : NonceCopy(w)')
PROOF
<1>1. UNCHANGED <<rows, pc, job>>
      BY DEF Mine, journalVars, workerVars
<1>2. PICK tx \in waiting, status \in {"success", "reverted"} :
          mined' = Append(mined, [tx |-> tx, status |-> status])
      BY DEF Mine, Include
<1>3. mined \in Seq(Receipt) /\ [tx |-> tx, status |-> status] \in Receipt
      BY DEF NonceInv, IInv, TypeOK, Receipt
<1>4. Len(mined') = Len(mined) + 1 /\ Len(mined) \in Nat
      BY <1>2, <1>3, AppendProperties, LenProperties
<1>5. NoncesStay
      BY <1>1, <1>4 DEF NoncesStay, LatestNonce
<1>6. \A q \in Request : NonceKept(q)
      BY <1>1 DEF NonceKept
<1>7. \A v \in Worker \ {NoWorker} :
              /\ pc'[v] = pc[v] /\ job'[v] = job[v]
              /\ \A q \in Request : rows'[q].owner = v =>
                    rows[q].owner = v /\ rows'[q].nonce = rows[q].nonce
      BY <1>1
<1> QED BY <1>5, <1>6, <1>7, NonceFrame, WorkerAssumption

\* The copy is taken with the row's nonce, if it has one.
LEMMA ClaimNonces ==
    ASSUME NonceInv, NEW w \in Worker, NEW r \in Request, Claim(w, r)
    PROVE  (\A q \in Request : NonceSound(q)') /\ (\A v \in Worker : NonceCopy(v)')
PROOF
<1>1. /\ rows \in [Request -> Row] /\ pc \in [Worker -> Step] /\ job \in [Worker -> Job]
      /\ UNCHANGED mined
      BY DEF Claim, arcVars, NonceInv, IInv, TypeOK
<1>2. \A q \in Request : NonceKept(q) /\ (rows'[q].owner = IF q = r THEN w ELSE rows[q].owner)
      BY <1>1 DEF Claim, Lease, NonceKept, Row
<1>3. /\ pc'[w] = "resolve" /\ job'[w].req = r
      /\ rows[r].nonce # NoNonce => job'[w].nonce = rows[r].nonce
      /\ \A v \in Worker \ {w} : pc'[v] = pc[v] /\ job'[v] = job[v]
      BY <1>1 DEF Claim, Goto
<1>4. NonceCopy(w)'
      BY <1>2, <1>3, NonceAssumption DEF NonceCopy, NonceKept
<1>5. NoncesStay
      BY <1>1, <1>2, ChainStill DEF NonceKept
<1>6. \A v \in Worker \ {w} :
              /\ pc'[v] = pc[v] /\ job'[v] = job[v]
              /\ \A q \in Request : rows'[q].owner = v =>
                    rows[q].owner = v /\ rows'[q].nonce = rows[q].nonce
      BY <1>2, <1>3 DEF NonceKept
<1> QED BY <1>2, <1>4, <1>5, <1>6, NonceFrame

\* A row is resumed under the nonce it was reserved with.
LEMMA ResumeNonces ==
    ASSUME NonceInv, NEW w \in Worker,
           \/ ResumeReceipt(w) \/ ResumeBroadcast(w) \/ ResumeConstruct(w)
           \/ ParseSucceeds(w) \/ BroadcastAccepted(w) \/ BroadcastNonceTooLow(w)
           \/ Abandon(w)
    PROVE  (\A q \in Request : NonceSound(q)') /\ (\A v \in Worker : NonceCopy(v)')
PROOF
<1>1. /\ UNCHANGED <<rows, mined, job>>
      /\ \E step \in {"receipt", "broadcast", "construct", "reserve",
                      "recordBroadcast", "idle"} :
            pc' = [pc EXCEPT ![w] = step] /\ (step = "construct" => ResumeConstruct(w))
      BY DEF ResumeReceipt, ResumeBroadcast, ResumeConstruct, ParseSucceeds, Proceed,
             BroadcastAccepted, Accept, BroadcastNonceTooLow, RefuseNonce, Abandon,
             Goto, journalVars, arcVars
<1>2. PICK step \in {"receipt", "broadcast", "construct", "reserve",
                      "recordBroadcast", "idle"} :
            pc' = [pc EXCEPT ![w] = step] /\ (step = "construct" => ResumeConstruct(w))
      BY <1>1
<1>3. pc \in [Worker -> Step] /\ job[w].req \in Request
      BY DEF NonceInv, IInv, TypeOK, Job
<1>4. pc'[w] = step /\ \A v \in Worker \ {w} : pc'[v] = pc[v]
      BY <1>2, <1>3
<1>5. CASE step = "construct"
    <2> DEFINE r == job[w].req
    <2>1. pc[w] = "resolve" /\ job[w].state = "signing_prepared"
          BY <1>2, <1>5 DEF ResumeConstruct
    <2>2. Holds(w, r) => rows[r].state \in InFlight
          BY <2>1 DEF NonceInv, IInv, CopySound, InFlight
    <2>3. Holds(w, r) => rows[r].nonce \in Nat
          BY <1>3, <2>2 DEF NonceInv, IInv, RowSound
    <2>4. Holds(w, r) => job[w].nonce = rows[r].nonce
          BY <2>1, <2>3 DEF NonceInv, NonceCopy
    <2> QED BY <1>1, <1>4, <1>5, <2>4, RowsStill DEF NonceCopy, Holds
<1>6. CASE step # "construct"
    <2>1. NonceCopy(w)'
          BY <1>4, <1>6, IdleCopy
    <2> QED BY <1>1, <1>4, <2>1, RowsStill
<1> QED BY <1>5, <1>6

\* Up to the pending nonce the chain or waiting transactions have every nonce, and
\* a waiting transaction is the stored one of its row.
LEMMA PendingCovered ==
    ASSUME NonceInv, NEW limit \in PendingNonces
    PROVE  limit \in Nat /\ Covered(limit)
PROOF
<1>1. LatestNonce \in Nat
      BY LenProperties DEF NonceInv, IInv, TypeOK, LatestNonce
<1>2. \A tx \in waiting : /\ tx \in Tx /\ tx.req \in Request
                          /\ rows[tx.req].raw = tx
      BY DEF NonceInv, IInv, TypeOK, StoredBeforeSent, Tx
<1>3. \A tx \in waiting : tx.nonce \in Nat /\ rows[tx.req].nonce = tx.nonce
      BY <1>2, NoTxAssumption DEF NonceInv, NonceSound, Tx
<1>4. limit \in Nat
      BY <1>1, <1>3 DEF PendingNonces
<1>5. \A n \in LatestNonce..(limit - 1) : \E tx \in waiting : tx.nonce = n
      BY DEF PendingNonces
<1> QED BY <1>2, <1>3, <1>4, <1>5 DEF Covered

LEMMA BeginReserveNonces ==
    ASSUME NonceInv, NEW w \in Worker, BeginReserve(w)
    PROVE  (\A q \in Request : NonceSound(q)') /\ (\A v \in Worker : NonceCopy(v)')
PROOF
<1>1. /\ UNCHANGED <<rows, mined>>
      /\ pc \in [Worker -> Step] /\ job \in [Worker -> Job]
      BY DEF BeginReserve, arcVars, NonceInv, IInv, TypeOK
<1>2. CASE ~ CanReserve(w, job[w].req)
    <2>1. pc'[w] = "idle" /\ \A v \in Worker \ {w} : pc'[v] = pc[v] /\ job'[v] = job[v]
          BY <1>1, <1>2 DEF BeginReserve, Goto
    <2> QED BY <1>1, <2>1, IdleCopy, RowsStill
<1>3. CASE CanReserve(w, job[w].req)
    <2>1. PICK n \in PendingNonces : job' = [job EXCEPT ![w].nonce = n]
          BY <1>3 DEF BeginReserve
    <2>2. /\ pc'[w] = "query" /\ job'[w].nonce = n
          /\ \A v \in Worker \ {w} : pc'[v] = pc[v] /\ job'[v] = job[v]
          BY <1>1, <1>3, <2>1 DEF BeginReserve, Goto, Job
    <2>3. Covered(n)
          BY PendingCovered
    <2>4. Covered(job[w].nonce)'
          BY <1>1, <2>2, <2>3 DEF Covered, LatestNonce
    <2>5. NonceCopy(w)'
          BY <2>2, <2>4 DEF NonceCopy
    <2> QED BY <1>1, <2>2, <2>5, RowsStill
<1> QED BY <1>2, <1>3

\* Above the pending nonce the rows in flight have every nonce.
LEMMA QueryNonces ==
    ASSUME NonceInv, NEW w \in Worker, QueryInFlight(w)
    PROVE  (\A q \in Request : NonceSound(q)') /\ (\A v \in Worker : NonceCopy(v)')
PROOF
<1> DEFINE r == job[w].req
           pending == job[w].nonce
<1>1. /\ UNCHANGED <<rows, mined>>
      /\ pc \in [Worker -> Step] /\ job \in [Worker -> Job]
      /\ pc[w] = "query" /\ pending \in Nat
      BY DEF QueryInFlight, journalVars, arcVars, NonceInv, IInv, TypeOK, Job
<1>2. PICK n \in NoncesAfter(r, pending) : job' = [job EXCEPT ![w].nonce = n]
      BY DEF QueryInFlight
<1>3. /\ pc'[w] = "commit" /\ job'[w].nonce = n
      /\ \A v \in Worker \ {w} : pc'[v] = pc[v] /\ job'[v] = job[v]
      BY <1>1, <1>2 DEF QueryInFlight, Goto, Job
<1>4. Covered(n)
    <2>1. CASE n = pending
          BY <1>1, <2>1 DEF NonceInv, NonceCopy
    <2>2. ASSUME NEW q \in Request, rows[q].state \in InFlight, n = rows[q].nonce + 1
          PROVE  Covered(n)
        <3>1. rows[q].nonce \in Nat /\ Covered(rows[q].nonce)
              BY <2>2 DEF NonceInv, IInv, RowSound, NonceSound
        <3>2. LatestNonce \in Nat
              BY LenProperties DEF NonceInv, IInv, TypeOK, LatestNonce
        <3>3. ASSUME NEW k \in LatestNonce..(n - 1)
              PROVE  \E p \in Request : rows[p].nonce = k
            <4>1. CASE k = rows[q].nonce
                  BY <4>1
            <4>2. CASE k # rows[q].nonce
                <5>1. k \in LatestNonce..(rows[q].nonce - 1)
                      BY <2>2, <3>1, <3>2, <4>2
                <5> QED BY <3>1, <5>1 DEF Covered
            <4> QED BY <4>1, <4>2
        <3> QED BY <3>3 DEF Covered
    <2>3. n = pending \/ \E q \in Request :
                            rows[q].state \in InFlight /\ n = rows[q].nonce + 1
          BY <1>2 DEF NoncesAfter, InFlightNonces
    <2> QED BY <2>1, <2>2, <2>3
<1>5. Covered(job[w].nonce)'
      BY <1>1, <1>3, <1>4 DEF Covered, LatestNonce
<1>6. NonceCopy(w)'
      BY <1>3, <1>5 DEF NonceCopy
<1> QED BY <1>1, <1>3, <1>6, RowsStill

\* The reserved nonce is covered when it is chosen, and so it is when it is written.
LEMMA CommitNonces ==
    ASSUME NonceInv, NEW w \in Worker, CommitReserve(w)
    PROVE  (\A q \in Request : NonceSound(q)') /\ (\A v \in Worker : NonceCopy(v)')
PROOF
<1>0. PICK r \in Request, n \in Nat : r = job[w].req /\ n = job[w].nonce
      BY DEF CommitReserve, NonceInv, IInv, TypeOK, Job
<1>1. /\ pc \in [Worker -> Step] /\ rows \in [Request -> Row]
      /\ pc[w] = "commit" /\ UNCHANGED <<mined, job>>
      BY DEF CommitReserve, arcVars, NonceInv, IInv, TypeOK, Job
<1>2. CASE ~ CanReserve(w, r)
    <2>1. UNCHANGED rows /\ pc'[w] = "idle"
          /\ \A v \in Worker \ {w} : pc'[v] = pc[v]
          BY <1>0, <1>1, <1>2 DEF CommitReserve, Goto
    <2> QED BY <1>1, <2>1, IdleCopy, RowsStill
<1>3. CASE CanReserve(w, r)
    <2>1. /\ pc'[w] = "construct" /\ \A v \in Worker \ {w} : pc'[v] = pc[v]
          /\ rows[r].state = "queued" /\ rows[r].owner = w
          /\ rows[r].nonce = NoNonce /\ rows[r].raw = NoTx
          BY <1>0, <1>1, <1>3 DEF CommitReserve, Goto, CanReserve, Holds, NonceInv,
                            NonceSound, IInv, RowSound, Unsigned
    <2>2. /\ rows'[r].state = "signing_prepared" /\ rows'[r].nonce = n
          /\ rows'[r].raw = NoTx /\ rows'[r].owner = w
          /\ \A q \in Request : q # r => rows'[q] = rows[q]
          BY <1>0, <1>1, <1>3, <2>1 DEF CommitReserve, Reserve, Row
    <2>3. NoncesStay
          BY <1>1, <2>1, <2>2, ChainStill, NonceAssumption
    <2>4. \A k \in LatestNonce'..(n - 1) : \E q \in Request : rows'[q].nonce = k
        <3>1. Covered(n)
              BY <1>0, <1>1 DEF NonceInv, NonceCopy
        <3> QED BY <1>1, <2>3, <3>1, CoveredStays
    <2>5. Covered(rows[r].nonce)'
          BY <2>2, <2>4 DEF Covered
    <2>6. NonceSound(r)'
          BY <2>2, <2>5 DEF NonceSound
    <2>7. \A q \in Request : NonceKept(q) \/ NonceSound(q)'
          BY <2>2, <2>6 DEF NonceKept
    <2>8. NonceCopy(w)'
          BY <1>0, <1>1, <2>1, <2>2 DEF NonceCopy, Holds
    <2>9. \A v \in Worker \ {w} :
              /\ pc'[v] = pc[v] /\ job'[v] = job[v]
              /\ \A q \in Request : rows'[q].owner = v =>
                    rows[q].owner = v /\ rows'[q].nonce = rows[q].nonce
          BY <1>1, <2>1, <2>2
    <2> QED BY <2>3, <2>7, <2>8, <2>9, NonceFrame
<1> QED BY <1>2, <1>3

LEMMA SignNonces ==
    ASSUME NonceInv, NEW w \in Worker, Sign(w)
    PROVE  (\A q \in Request : NonceSound(q)') /\ (\A v \in Worker : NonceCopy(v)')
PROOF
<1> DEFINE r == job[w].req
           tx == [req |-> r, nonce |-> job[w].nonce, sig |-> signatures[r] + 1]
<1>1. /\ pc \in [Worker -> Step] /\ job \in [Worker -> Job]
      /\ pc[w] = "construct" /\ UNCHANGED <<rows, mined>>
      /\ job' = [job EXCEPT ![w].raw = tx]
      /\ pc' = [pc EXCEPT ![w] = "record"]
      BY DEF Sign, Goto, journalVars, arcVars, NonceInv, IInv, TypeOK
<1>2. tx.nonce = job[w].nonce
      OBVIOUS
<1> HIDE DEF tx
<1>3. /\ pc'[w] = "record" /\ job'[w].req = r /\ job'[w].raw = tx
      /\ job'[w].nonce = job[w].nonce
      /\ \A v \in Worker \ {w} : pc'[v] = pc[v] /\ job'[v] = job[v]
      BY <1>1 DEF Job
<1>4. Holds(w, r) => job[w].nonce = rows[r].nonce
      BY <1>1 DEF NonceInv, NonceCopy
<1>5. NonceCopy(w)'
      BY <1>1, <1>2, <1>3, <1>4 DEF NonceCopy, Holds
<1> QED BY <1>1, <1>3, <1>5, RowsStill

\* The stored bytes are signed under the row's nonce.
LEMMA RecordNonces ==
    ASSUME NonceInv, NEW w \in Worker, RecordSigned(w) \/ RecordBroadcast(w)
    PROVE  (\A q \in Request : NonceSound(q)') /\ (\A v \in Worker : NonceCopy(v)')
PROOF
<1>0. PICK r \in Request : r = job[w].req
      BY DEF RecordSigned, RecordBroadcast, NonceInv, IInv, TypeOK, Job
<1>1. /\ pc \in [Worker -> Step] /\ rows \in [Request -> Row]
      /\ UNCHANGED <<mined, job>>
      /\ \E step \in {"idle", "broadcast", "receipt"} : pc' = [pc EXCEPT ![w] = step]
      BY DEF RecordSigned, RecordBroadcast, Goto, arcVars, NonceInv, IInv, TypeOK, Job
<1>2. /\ NonceCopy(w)'
      /\ \A v \in Worker \ {w} : pc'[v] = pc[v] /\ job'[v] = job[v]
      BY <1>1, IdleCopy
<1>3. CASE UNCHANGED rows
      BY <1>1, <1>2, <1>3, RowsStill
<1>4. CASE RecordSigned(w) /\ CanRecordSigned(w, r)
    <2>1. /\ rows'[r].state = "signed" /\ rows'[r].raw = job[w].raw
          /\ rows'[r].nonce = rows[r].nonce /\ rows'[r].owner = rows[r].owner
          /\ \A q \in Request : q # r => rows'[q] = rows[q]
          BY <1>0, <1>1, <1>4 DEF RecordSigned, StoreSigned, Row
    <2>2. /\ rows[r].state \in InFlight /\ pc[w] = "record" /\ Holds(w, r)
          BY <1>0, <1>4 DEF RecordSigned, CanRecordSigned, InFlight
    <2>3. job[w].raw.nonce = rows[r].nonce
          BY <1>0, <2>2 DEF NonceInv, NonceCopy
    <2>4. NoncesStay
          BY <1>1, <2>1, ChainStill
    <2>5. Covered(rows[r].nonce)'
        <3>1. rows[r].nonce \in Nat /\ Covered(rows[r].nonce)
              BY <1>1, <2>2 DEF NonceInv, IInv, RowSound, NonceSound
        <3>2. \A n \in LatestNonce'..(rows[r].nonce - 1) :
                 \E q \in Request : rows'[q].nonce = n
              BY <2>4, <3>1, CoveredStays
        <3> QED BY <2>1, <3>2 DEF Covered
    <2>6. NonceSound(r)'
          BY <2>1, <2>3, <2>5 DEF NonceSound
    <2>7. \A q \in Request : NonceKept(q) \/ NonceSound(q)'
          BY <2>1, <2>6 DEF NonceKept
    <2>8. \A v \in Worker, q \in Request : rows'[q].owner = v =>
                    rows[q].owner = v /\ rows'[q].nonce = rows[q].nonce
          BY <2>1
    <2> QED BY <1>2, <2>4, <2>7, <2>8, NonceFrame
<1>5. CASE RecordBroadcast(w) /\ CanRecordBroadcast(w, r)
    <2>1. /\ rows[r].state \in InFlight
          /\ rows'[r].state = "submitted" /\ rows'[r].raw = rows[r].raw
          /\ rows'[r].nonce = rows[r].nonce /\ rows'[r].owner = rows[r].owner
          /\ \A q \in Request : q # r => rows'[q] = rows[q]
          BY <1>0, <1>1, <1>5 DEF RecordBroadcast, CanRecordBroadcast, StoreBroadcast, Row,
                            InFlight
    <2>2. \A q \in Request : NonceKept(q) /\ rows'[q].owner = rows[q].owner
          BY <2>1 DEF NonceKept
    <2>3. NoncesStay
          BY <1>1, <2>2, ChainStill DEF NonceKept
    <2>4. \A v \in Worker, q \in Request : rows'[q].owner = v =>
                    rows[q].owner = v /\ rows'[q].nonce = rows[q].nonce
          BY <2>2 DEF NonceKept
    <2> QED BY <1>2, <2>2, <2>3, <2>4, NonceFrame
<1> QED BY <1>0, <1>3, <1>4, <1>5 DEF RecordSigned, RecordBroadcast

LEMMA FinishNonces ==
    ASSUME NonceInv, NEW w \in Worker, NEW state \in Settled \cup {"unknown"},
           FinishAs(w, state), UNCHANGED mined
    PROVE  (\A q \in Request : NonceSound(q)') /\ (\A v \in Worker : NonceCopy(v)')
PROOF
<1> DEFINE r == job[w].req
<1>1. /\ pc \in [Worker -> Step] /\ r \in Request /\ UNCHANGED job
      /\ pc' = [pc EXCEPT ![w] = "idle"] /\ state \in State
      BY DEF FinishAs, Goto, NonceInv, IInv, TypeOK, Job, State
<1>2. /\ \A q \in Request : q # r \/ ~ Holds(w, r) => rows'[q] = rows[q]
      /\ Holds(w, r) => /\ rows'[r].state = state
                        /\ rows'[r].owner = NoWorker
                        /\ rows'[r].raw = rows[r].raw
                        /\ rows'[r].nonce = rows[r].nonce
      BY <1>1, FinishRows DEF FinishAs, NonceInv, IInv
<1>3. \A q \in Request : /\ NonceKept(q)
                         /\ rows'[q].owner \in {rows[q].owner, NoWorker}
    <2> SUFFICES ASSUME NEW q \in Request
                 PROVE  NonceKept(q) /\ rows'[q].owner \in {rows[q].owner, NoWorker}
        OBVIOUS
    <2>1. CASE rows'[q] = rows[q]
          BY <2>1 DEF NonceKept
    <2>2. CASE q = r /\ Holds(w, r)
          BY <1>2, <2>2 DEF NonceKept, Settled, InFlight
    <2> QED BY <1>2, <2>1, <2>2
<1>4. NonceCopy(w)' /\ \A v \in Worker \ {w} : pc'[v] = pc[v] /\ job'[v] = job[v]
      BY <1>1, IdleCopy
<1>5. NoncesStay
      BY <1>3, ChainStill DEF NonceKept
<1>6. \A v \in Worker, q \in Request : rows'[q].owner = v =>
                    rows[q].owner = v /\ rows'[q].nonce = rows[q].nonce
      BY <1>3, WorkerAssumption DEF NonceKept
<1> QED BY <1>3, <1>4, <1>5, <1>6, NonceFrame

LEMMA NonceStep == NonceInv /\ [Next]_vars => NonceInv'
PROOF
<1> SUFFICES ASSUME NonceInv, [Next]_vars
             PROVE  (\A q \in Request : NonceSound(q)') /\ (\A v \in Worker : NonceCopy(v)')
    BY StepInv DEF NonceInv
<1>1. CASE \E r \in Request : Enqueue(r) \/ LeaseLapses(r)
      BY <1>1, EnqueueNonces
<1>2. CASE Mine
      BY <1>2, MineNonces
<1>3. CASE Evict \/ UNCHANGED vars
    <2>1. UNCHANGED <<rows, mined, pc, job>>
          BY <1>3 DEF Evict, Drop, vars, journalVars, arcVars, workerVars
    <2> QED BY <2>1, RowsStill, WorkerAssumption
<1>4. ASSUME NEW w \in Worker, Tick(w) \/ Abandon(w)
             PROVE  (\A q \in Request : NonceSound(q)') /\ (\A v \in Worker : NonceCopy(v)')
    <2>1. CASE \E r \in Request : Claim(w, r)
          BY <2>1, ClaimNonces
    <2>2. CASE \/ ResolveFails(w) \/ ParseClarifies(w) \/ GuardBlocks(w)
               \/ BroadcastAmbiguous(w) \/ Reconciling(w)
        <3>1. \E state \in Settled \cup {"unknown"} : FinishAs(w, state)
            <4>1. ReconciledState(job[w].req, job[w].raw)
                      \in {"technical_failure", "executed", "refused", "unknown"}
                  BY DEF ReconciledState
            <4> QED BY <2>2, <4>1 DEF ResolveFails, ParseClarifies, GuardBlocks,
                       BroadcastAmbiguous, Reconciling, ReceiptReconciles,
                       ReceiptOfReplacement, ReceiptUnresolved, Settled
        <3>2. UNCHANGED mined
              BY <2>2 DEF ResolveFails, ParseClarifies, GuardBlocks,
                       BroadcastAmbiguous, Lose, Reconciling, ReceiptReconciles,
                       ReceiptOfReplacement, ReceiptUnresolved, arcVars
        <3> QED BY <3>1, <3>2, FinishNonces
    <2>3. CASE \/ ResumeReceipt(w) \/ ResumeBroadcast(w) \/ ResumeConstruct(w)
               \/ ParseSucceeds(w) \/ BroadcastAccepted(w) \/ BroadcastNonceTooLow(w)
               \/ Abandon(w)
          BY <2>3, ResumeNonces
    <2>4. CASE Reserving(w)
          BY <2>4, BeginReserveNonces, QueryNonces, CommitNonces DEF Reserving
    <2>5. CASE Sign(w) \/ RecordSigned(w) \/ RecordBroadcast(w)
          BY <2>5, SignNonces, RecordNonces
    <2> QED BY <1>4, <2>1, <2>2, <2>3, <2>4, <2>5
               DEF Tick, Resolved, Signing, Broadcasting
<1> QED BY <1>1, <1>2, <1>3, <1>4 DEF Next

\* Below the nonce of a request in flight every nonce was used on the chain or is
\* held by a row: only a row that gave up its nonce can hold up the key.
THEOREM NoGaps == Spec => []NoncesAreContiguous
PROOF
<1>1. NonceInv => NoncesAreContiguous
      BY DEF NonceInv, NonceSound, Covered, NoncesAreContiguous
<1>2. Spec => []NonceInv
      BY NonceInit, NonceStep, PTL DEF Spec
<1> QED BY <1>1, <1>2, PTL

=============================================================================
