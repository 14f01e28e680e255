------------------------- MODULE PaymentWorker_proofs -------------------------
(***************************************************************************)
(* Proofs about PaymentWorker, for any number of requests, workers,        *)
(* signatures and faults.                                                  *)
(*                                                                         *)
(* None of the properties is inductive alone: whether a write is safe      *)
(* depends on how a worker's copy of its row relates to the row, which is  *)
(* what CopySound says, point by point of the tick.                        *)
(***************************************************************************)
EXTENDS PaymentWorker, FiniteSetTheorems, SequenceTheorems, TLAPS

\* States before any signed bytes are stored.
Unsigned == {"absent", "queued", "signing_prepared", "needs_clarification"}

RowSound(r) ==
    /\ rows[r].state \in Unsigned => rows[r].raw = NoTx
    /\ rows[r].raw # NoTx => rows[r].raw.req = r
    /\ rows[r].state \in InFlight => rows[r].nonce \in Nat
    /\ rows[r].state = "unknown" => rows[r].raw # NoTx
    /\ rows[r].state \in Settled \cup {"absent"} => rows[r].owner = NoWorker

\* While w still holds its row the copy it decides on is the row; once there
\* are stored bytes the copy has them, held or not; and a worker between the
\* two reads of a reservation keeps every other reservation out.
CopySound(w) ==
    LET r == job[w].req IN
    /\ pc[w] = "resolve" /\ Holds(w, r) =>
          rows[r].state = job[w].state /\ rows[r].raw = job[w].raw
    /\ pc[w] = "resolve" /\ job[w].raw # NoTx => rows[r].raw = job[w].raw
    /\ pc[w] \in {"construct", "record"} /\ Holds(w, r) =>
          rows[r].state = "signing_prepared" /\ rows[r].raw = NoTx
    /\ pc[w] = "record" => job[w].raw \in Tx /\ job[w].raw.req = r
    /\ pc[w] \in {"broadcast", "recordBroadcast", "receipt"} =>
          job[w].raw \in Tx /\ rows[r].raw = job[w].raw
    /\ pc[w] \in {"query", "commit"} => signerLock = w
    /\ pc[w] = "commit" =>
          \A q \in Request \ {r} :
              rows[q].state \in InFlight => rows[q].nonce < job[w].nonce

IInv ==
    /\ TypeOK
    /\ \A r \in Request : RowSound(r)
    /\ \A w \in Worker : CopySound(w)
    /\ StoredBeforeSent
    /\ InFlightNoncesDistinct

-----------------------------------------------------------------------------
\* A step that is not v's own: it leaves v's copy, lock and stored bytes alone,
\* writes no row that v holds, and reserves nothing while v has the lock.
Undisturbed(v) ==
    /\ pc'[v] = pc[v]
    /\ job'[v] = job[v]
    /\ signerLock = v => signerLock' = v
    /\ \A r \in Request :
          /\ rows[r].raw # NoTx => rows'[r].raw = rows[r].raw
          /\ rows'[r].owner = v => /\ rows[r].owner = v
                                   /\ rows'[r].state = rows[r].state
                                   /\ rows'[r].raw = rows[r].raw
          /\ signerLock = v /\ rows'[r].state \in InFlight =>
                /\ rows[r].state \in InFlight
                /\ rows'[r].nonce = rows[r].nonce

LEMMA UndisturbedCopy ==
    ASSUME TypeOK, NEW v \in Worker, CopySound(v), Undisturbed(v)
    PROVE  CopySound(v)'
PROOF
<1> DEFINE r == job[v].req
<1>1. r \in Request /\ job'[v] = job[v] /\ pc'[v] = pc[v]
  BY DEF TypeOK, Job, Undisturbed
<1>2. Holds(v, r)' => /\ Holds(v, r)
                      /\ rows'[r].state = rows[r].state
                      /\ rows'[r].raw = rows[r].raw
  BY <1>1 DEF Undisturbed, Holds
<1>3. job[v].raw # NoTx /\ rows[r].raw = job[v].raw => rows'[r].raw = job[v].raw
  BY <1>1 DEF Undisturbed
<1>4. signerLock = v => signerLock' = v
  BY DEF Undisturbed
<1>5. ASSUME signerLock = v, NEW q \in Request \ {r},
             rows[q].state \in InFlight => rows[q].nonce < job[v].nonce,
             rows'[q].state \in InFlight
      PROVE  rows'[q].nonce < job[v].nonce
  BY <1>5 DEF Undisturbed
<1> QED
  BY <1>1, <1>2, <1>3, <1>4, <1>5, NoTxAssumption DEF CopySound, Holds

-----------------------------------------------------------------------------
(* What each statement of the journal does to the rows. *)

LEMMA FinishRows ==
    ASSUME TypeOK, NEW w \in Worker, NEW r \in Request, NEW state \in State,
           Finish(w, r, state)
    PROVE  /\ rows' \in [Request -> Row]
           /\ \A q \in Request : rows'[q].leased => rows'[q].owner \in Worker
           /\ \A q \in Request : q # r \/ ~ Holds(w, r) => rows'[q] = rows[q]
           /\ Holds(w, r) => /\ rows'[r].state = state
                             /\ rows'[r].owner = NoWorker
                             /\ rows'[r].raw = rows[r].raw
                             /\ rows'[r].nonce = rows[r].nonce
PROOF
<1>1. CASE ~ Holds(w, r)
  BY <1>1 DEF Finish, TypeOK
<1>2. CASE Holds(w, r)
  <2> DEFINE new == [rows[r] EXCEPT !.state = state, !.owner = NoWorker,
                                    !.leased = FALSE]
  <2>1. rows' = [rows EXCEPT ![r] = new]
    BY <1>2 DEF Finish, TypeOK, Row
  <2>2. rows[r] \in Row
    BY DEF TypeOK
  <2>3. new \in Row /\ ~ new.leased
    BY <2>2 DEF Row
  <2>4. /\ new.state = state /\ new.owner = NoWorker
        /\ new.raw = rows[r].raw /\ new.nonce = rows[r].nonce
    BY <2>2 DEF Row
  <2> HIDE DEF new
  <2> QED
    BY <1>2, <2>1, <2>3, <2>4 DEF TypeOK
<1> QED
  BY <1>1, <1>2

\* A step that keeps the rows and sends stored bytes at most.
LEMMA QuietStep ==
    ASSUME IInv, TypeOK', NEW w \in Worker, UNCHANGED rows,
           \A tx \in sent' \ sent : rows[tx.req].raw = tx,
           signerLock' = signerLock \/ signerLock \in {w, NoWorker},
           \A v \in Worker \ {w} : pc'[v] = pc[v] /\ job'[v] = job[v],
           CopySound(w)'
    PROVE  IInv'
PROOF
<1>1. \A r \in Request : RowSound(r)'
  BY DEF IInv, RowSound
<1>2. ASSUME NEW v \in Worker \ {w} PROVE CopySound(v)'
  BY UndisturbedCopy, WorkerAssumption DEF IInv, Undisturbed
<1>3. StoredBeforeSent' /\ InFlightNoncesDistinct'
  BY DEF IInv, StoredBeforeSent, InFlightNoncesDistinct
<1> QED
  BY <1>1, <1>2, <1>3 DEF IInv

\* Settling or parking the row is sound when `unknown' has its bytes and
\* `needs_clarification' has none.
LEMMA FinishInv ==
    ASSUME IInv, TypeOK', NEW w \in Worker,
           NEW state \in Settled \cup {"unknown"},
           FinishAs(w, state),
           Holds(w, job[w].req) =>
              /\ state = "unknown" => rows[job[w].req].raw # NoTx
              /\ state = "needs_clarification" => rows[job[w].req].raw = NoTx,
           \A tx \in sent' \ sent : rows[tx.req].raw = tx
    PROVE  IInv'
PROOF
<1> DEFINE r == job[w].req
<1>1. r \in Request /\ state \in State
  BY DEF IInv, TypeOK, Job, State
<1>2. /\ \A q \in Request : q # r \/ ~ Holds(w, r) => rows'[q] = rows[q]
      /\ Holds(w, r) => /\ rows'[r].state = state
                        /\ rows'[r].owner = NoWorker
                        /\ rows'[r].raw = rows[r].raw
                        /\ rows'[r].nonce = rows[r].nonce
  BY <1>1, FinishRows DEF IInv, FinishAs
<1>3. \A q \in Request : rows'[q].raw = rows[q].raw
  BY <1>1, <1>2
<1>4. /\ pc' = [pc EXCEPT ![w] = "idle"]
      /\ UNCHANGED <<signerLock, job>>
  BY DEF FinishAs, Goto
<1>5. ASSUME NEW q \in Request PROVE RowSound(q)'
  <2>1. CASE q # r \/ ~ Holds(w, r)
    BY <1>2, <2>1 DEF IInv, RowSound
  <2>2. CASE q = r /\ Holds(w, r)
    BY <1>1, <1>2, <2>2 DEF IInv, RowSound, Unsigned, InFlight, Settled
  <2> QED
    BY <2>1, <2>2
<1>6. ASSUME NEW v \in Worker \ {w} PROVE CopySound(v)'
  <2>1. pc'[v] = pc[v] /\ job'[v] = job[v] /\ signerLock' = signerLock
    BY <1>4 DEF IInv, TypeOK
  <2>2. ASSUME NEW q \in Request
        PROVE  /\ rows'[q].owner = v => /\ rows[q].owner = v
                                        /\ rows'[q].state = rows[q].state
               /\ rows'[q].state \in InFlight => /\ rows[q].state \in InFlight
                                                 /\ rows'[q].nonce = rows[q].nonce
    <3>1. CASE q # r \/ ~ Holds(w, r)
      BY <1>2, <3>1
    <3>2. CASE q = r /\ Holds(w, r)
      BY <1>2, <3>2, WorkerAssumption DEF InFlight, Settled
    <3> QED
      BY <3>1, <3>2
  <2>3. Undisturbed(v)
    BY <1>3, <2>1, <2>2 DEF Undisturbed
  <2> QED
    BY <2>3, UndisturbedCopy DEF IInv
<1>7. CopySound(w)'
  BY <1>4 DEF CopySound, IInv, TypeOK
<1>8. StoredBeforeSent'
  <2>1. \A tx \in sent' : tx.req \in Request
    BY DEF TypeOK, Tx
  <2> QED
    BY <1>3, <2>1 DEF IInv, StoredBeforeSent
<1>9. InFlightNoncesDistinct'
  <2>1. ASSUME NEW q \in Request, rows'[q].state \in InFlight
        PROVE  rows[q].state \in InFlight /\ rows'[q].nonce = rows[q].nonce
    <3>1. CASE q # r \/ ~ Holds(w, r)
      BY <1>2, <2>1, <3>1
    <3>2. CASE q = r /\ Holds(w, r)
      BY <1>2, <2>1, <3>2 DEF InFlight, Settled
    <3> QED
      BY <3>1, <3>2
  <2> QED
    BY <2>1 DEF IInv, InFlightNoncesDistinct
<1> QED
  BY <1>5, <1>6, <1>7, <1>8, <1>9 DEF IInv

-----------------------------------------------------------------------------
LEMMA InitInv == Init => IInv
PROOF
<1> SUFFICES ASSUME Init PROVE IInv
  OBVIOUS
<1> USE SignatureAssumption, FaultAssumption DEF Init, JournalInit, ArcInit
<1>1. TypeOK
  <2>1. NoRow \in Row
    BY DEF NoRow, Row, State
  <2>2. mined \in Seq(Receipt)
    OBVIOUS
  <2>3. job \in [Worker -> Job]
    BY DEF Job, State
  <2>4. \A r \in Request : ~ rows[r].leased
    BY DEF NoRow
  <2> QED
    BY <2>1, <2>2, <2>3, <2>4 DEF TypeOK, Outcome, Step
<1>2. \A r \in Request : RowSound(r)
  BY DEF RowSound, NoRow, InFlight
<1>3. \A w \in Worker : CopySound(w)
  BY DEF CopySound
<1>4. StoredBeforeSent /\ InFlightNoncesDistinct
  BY DEF StoredBeforeSent, InFlightNoncesDistinct, NoRow, InFlight
<1> QED
  BY <1>1, <1>2, <1>3, <1>4 DEF IInv

LEMMA EnqueueInv ==
    ASSUME IInv, NEW r \in Request, Enqueue(r)
    PROVE  IInv'
PROOF
<1> DEFINE n == Cardinality({q \in Request : rows[q].created > 0}) + 1
           new == [rows[r] EXCEPT !.state = "queued", !.created = n]
<1>1. n \in Nat
  <2>1. IsFiniteSet({q \in Request : rows[q].created > 0})
    BY RequestAssumption, FS_Subset
  <2> QED
    BY <2>1, FS_CardinalityType
<1>2. rows[r] \in Row /\ rows[r].state = "absent"
  BY DEF IInv, TypeOK, Enqueue, Insert
<1> HIDE DEF n
<1>3. rows' = [rows EXCEPT ![r] = new]
  BY DEF Enqueue, Insert, IInv, TypeOK, Row, n
<1>4. /\ new \in Row
      /\ new.state = "queued" /\ new.leased = rows[r].leased
      /\ new.owner = rows[r].owner /\ new.raw = rows[r].raw
  BY <1>1, <1>2 DEF Row, State
<1>5. UNCHANGED <<signerLock, arcVars, workerVars>>
  BY DEF Enqueue
<1> HIDE DEF new
<1>6. /\ rows'[r] = new
      /\ \A q \in Request : q # r => rows'[q] = rows[q]
      /\ rows' \in [Request -> Row]
  BY <1>3, <1>4 DEF IInv, TypeOK
<1>7. TypeOK'
  <2>1. \A q \in Request : rows'[q].leased => rows'[q].owner \in Worker
    BY <1>4, <1>6 DEF IInv, TypeOK
  <2> QED
    BY <1>5, <1>6, <2>1 DEF IInv, TypeOK, arcVars, workerVars
<1>8. rows[r].owner = NoWorker /\ rows[r].raw = NoTx
  BY <1>2 DEF IInv, RowSound, Unsigned
<1>9. ASSUME NEW q \in Request PROVE RowSound(q)'
  BY <1>4, <1>6, <1>8 DEF IInv, RowSound, Unsigned, InFlight, Settled
<1>10. ASSUME NEW v \in Worker PROVE CopySound(v)'
  <2>1. Undisturbed(v)
    BY <1>4, <1>5, <1>6, <1>8, WorkerAssumption
       DEF Undisturbed, workerVars, InFlight
  <2> QED
    BY <2>1, UndisturbedCopy DEF IInv
<1>11. StoredBeforeSent'
  BY <1>4, <1>5, <1>6 DEF IInv, TypeOK, Tx, StoredBeforeSent, arcVars
<1>12. InFlightNoncesDistinct'
  BY <1>4, <1>6 DEF IInv, InFlightNoncesDistinct, InFlight
<1> QED
  BY <1>7, <1>9, <1>10, <1>11, <1>12 DEF IInv

\* A lapsed lease leaves the owner's name, so it disturbs no copy.
LEMMA LeaseLapsesInv ==
    ASSUME IInv, NEW r \in Request, LeaseLapses(r)
    PROVE  IInv'
PROOF
<1> DEFINE new == [rows[r] EXCEPT !.leased = FALSE]
<1>1. rows[r] \in Row
  BY DEF IInv, TypeOK
<1>2. rows' = [rows EXCEPT ![r] = new]
  BY DEF LeaseLapses, Lapse, IInv, TypeOK, Row
<1>3. /\ new \in Row /\ ~ new.leased
      /\ new.state = rows[r].state /\ new.owner = rows[r].owner
      /\ new.raw = rows[r].raw /\ new.nonce = rows[r].nonce
  BY <1>1 DEF Row
<1> HIDE DEF new
<1>4. /\ rows' \in [Request -> Row]
      /\ \A q \in Request :
            /\ rows'[q].leased => rows'[q].owner \in Worker
            /\ rows'[q].state = rows[q].state /\ rows'[q].owner = rows[q].owner
            /\ rows'[q].raw = rows[q].raw /\ rows'[q].nonce = rows[q].nonce
  BY <1>2, <1>3 DEF IInv, TypeOK
<1>5. UNCHANGED <<signerLock, arcVars, pc, job, signatures>>
  BY DEF LeaseLapses
<1>6. faults' \in 0..MaxFaults
  BY FaultAssumption DEF LeaseLapses, Fault, NoFault, IInv, TypeOK
<1>7. TypeOK'
  BY <1>4, <1>5, <1>6 DEF IInv, TypeOK, arcVars
<1>8. \A q \in Request : RowSound(q)'
  BY <1>4 DEF IInv, RowSound
<1>9. ASSUME NEW v \in Worker PROVE CopySound(v)'
  BY <1>4, <1>5, UndisturbedCopy DEF IInv, Undisturbed
<1>10. StoredBeforeSent' /\ InFlightNoncesDistinct'
  BY <1>4, <1>5 DEF IInv, TypeOK, Tx, StoredBeforeSent, InFlightNoncesDistinct,
                    arcVars
<1> QED
  BY <1>7, <1>8, <1>9, <1>10 DEF IInv

LEMMA MineInv ==
    ASSUME IInv, Mine
    PROVE  IInv'
PROOF
<1>1. PICK tx \in waiting : Include(tx)
  BY DEF Mine
<1>2. UNCHANGED <<rows, signerLock, sent, pc, job, signatures, faults>>
  BY DEF Mine, Include, journalVars, workerVars
<1>3. tx \in Tx /\ tx.req \in Request
  BY DEF IInv, TypeOK, Tx
<1>4. mined' \in Seq(Receipt)
  <2>1. PICK status \in {"success", "reverted"} :
            mined' = Append(mined, [tx |-> tx, status |-> status])
    BY <1>1 DEF Include
  <2>2. [tx |-> tx, status |-> status] \in Receipt
    BY <1>3 DEF Receipt
  <2> QED
    BY <2>1, <2>2 DEF IInv, TypeOK
<1>5. outcome' \in [Request -> Outcome]
  BY <1>1, <1>3 DEF Include, IInv, TypeOK
<1>6. waiting' \subseteq sent'
  BY <1>1, <1>2 DEF Include, IInv, TypeOK
<1>7. TypeOK'
  BY <1>2, <1>4, <1>5, <1>6 DEF IInv, TypeOK
<1>8. (\A r \in Request : RowSound(r)') /\ StoredBeforeSent'
      /\ InFlightNoncesDistinct'
  BY <1>2 DEF IInv, RowSound, StoredBeforeSent, InFlightNoncesDistinct
<1>9. \A w \in Worker : CopySound(w)'
  BY <1>2 DEF IInv, CopySound, Holds
<1> QED
  BY <1>7, <1>8, <1>9 DEF IInv

LEMMA EvictInv ==
    ASSUME IInv, Evict
    PROVE  IInv'
PROOF
<1>1. PICK tx \in waiting : Drop(tx)
  BY DEF Evict
<1>2. UNCHANGED <<rows, signerLock, sent, mined, outcome, pc, job, signatures>>
  BY <1>1 DEF Evict, Drop, journalVars
<1>3. waiting' \subseteq sent' /\ faults' \in 0..MaxFaults
  BY <1>1, FaultAssumption DEF Evict, Fault, Drop, IInv, TypeOK
<1>4. TypeOK'
  BY <1>2, <1>3 DEF IInv, TypeOK
<1>5. (\A r \in Request : RowSound(r)') /\ StoredBeforeSent'
      /\ InFlightNoncesDistinct'
  BY <1>2 DEF IInv, RowSound, StoredBeforeSent, InFlightNoncesDistinct
<1>6. \A w \in Worker : CopySound(w)'
  BY <1>2 DEF IInv, CopySound, Holds
<1> QED
  BY <1>4, <1>5, <1>6 DEF IInv

LEMMA AbandonInv ==
    ASSUME IInv, NEW w \in Worker, Abandon(w)
    PROVE  IInv'
PROOF
<1>1. /\ pc' = [pc EXCEPT ![w] = "idle"]
      /\ signerLock' = IF signerLock = w THEN NoWorker ELSE signerLock
      /\ UNCHANGED <<rows, arcVars, job, signatures>>
  BY DEF Abandon, Goto
<1>2. faults' \in 0..MaxFaults
  BY FaultAssumption DEF Abandon, Fault, IInv, TypeOK
<1>3. TypeOK'
  BY <1>1, <1>2 DEF IInv, TypeOK, arcVars, Step
<1>4. CopySound(w)'
  BY <1>1 DEF IInv, TypeOK, CopySound
<1>5. \A v \in Worker \ {w} : pc'[v] = pc[v] /\ job'[v] = job[v]
  BY <1>1 DEF IInv, TypeOK
<1>6. ASSUME NEW v \in Worker \ {w} PROVE CopySound(v)'
  BY <1>1, <1>5, UndisturbedCopy DEF IInv, Undisturbed
<1>7. (\A r \in Request : RowSound(r)') /\ StoredBeforeSent'
      /\ InFlightNoncesDistinct'
  BY <1>1 DEF IInv, RowSound, StoredBeforeSent, InFlightNoncesDistinct, arcVars
<1> QED
  BY <1>3, <1>4, <1>6, <1>7 DEF IInv

-----------------------------------------------------------------------------
(* The steps of a tick. *)

\* The copy is taken from the row it claims.
LEMMA ClaimInv ==
    ASSUME IInv, NEW w \in Worker, NEW r \in Request, Claim(w, r)
    PROVE  IInv'
PROOF
<1> DEFINE new == [rows[r] EXCEPT !.owner = w, !.leased = TRUE]
           copy == [req |-> r, state |-> rows[r].state,
                    nonce |-> IF rows[r].nonce = NoNonce THEN 0 ELSE rows[r].nonce,
                    raw |-> rows[r].raw]
<1>1. rows[r] \in Row
  BY DEF IInv, TypeOK
<1>2. /\ rows' = [rows EXCEPT ![r] = new]
      /\ job' = [job EXCEPT ![w] = copy]
      /\ pc' = [pc EXCEPT ![w] = "resolve"]
      /\ UNCHANGED <<signerLock, arcVars, signatures, faults>>
  BY DEF Claim, Lease, Goto, IInv, TypeOK, Row
<1>3. /\ new \in Row /\ new.owner = w
      /\ new.state = rows[r].state /\ new.raw = rows[r].raw
      /\ new.nonce = rows[r].nonce
  BY <1>1 DEF Row
<1>4. /\ copy \in Job /\ copy.req = r
      /\ copy.state = rows[r].state /\ copy.raw = rows[r].raw
  BY <1>1 DEF Row, Job
<1> HIDE DEF new, copy
<1>5. /\ rows' \in [Request -> Row]
      /\ rows'[r] = new
      /\ \A q \in Request : q # r => rows'[q] = rows[q]
  BY <1>2, <1>3 DEF IInv, TypeOK
<1>6. TypeOK'
  <2>1. \A q \in Request : rows'[q].leased => rows'[q].owner \in Worker
    BY <1>3, <1>5 DEF IInv, TypeOK
  <2> QED
    BY <1>2, <1>4, <1>5, <2>1 DEF IInv, TypeOK, arcVars, Step
<1>7. rows[r].state \notin Settled \cup {"absent"}
  BY DEF Claim, Lease, Claimable, InFlight, Settled
<1>8. ASSUME NEW q \in Request PROVE RowSound(q)'
  BY <1>3, <1>5, <1>7 DEF IInv, RowSound
<1>9. ASSUME NEW v \in Worker \ {w} PROVE CopySound(v)'
  <2>1. pc'[v] = pc[v] /\ job'[v] = job[v]
    BY <1>2 DEF IInv, TypeOK
  <2>2. Undisturbed(v)
    BY <1>2, <1>3, <1>5, <2>1 DEF Undisturbed
  <2> QED
    BY <2>2, UndisturbedCopy DEF IInv
<1>10. CopySound(w)'
  <2>1. pc'[w] = "resolve" /\ job'[w] = copy
    BY <1>2 DEF IInv, TypeOK
  <2> QED
    BY <1>3, <1>4, <1>5, <2>1 DEF CopySound
<1>11. StoredBeforeSent' /\ InFlightNoncesDistinct'
  BY <1>2, <1>3, <1>5 DEF IInv, TypeOK, Tx, StoredBeforeSent,
                          InFlightNoncesDistinct, arcVars
<1> QED
  BY <1>6, <1>8, <1>9, <1>10, <1>11 DEF IInv

LEMMA FaultType ==
    ASSUME TypeOK, Fault \/ NoFault
    PROVE  faults' \in 0..MaxFaults
PROOF BY FaultAssumption DEF Fault, NoFault, TypeOK

\* The resuming steps leave everything but pc and the fault count alone.
LEMMA ResumeInv ==
    ASSUME IInv, NEW w \in Worker,
           ResumeReceipt(w) \/ ResumeBroadcast(w) \/ ResumeConstruct(w)
              \/ ParseSucceeds(w)
    PROVE  IInv'
PROOF
<1>1. /\ UNCHANGED <<rows, signerLock, arcVars, job, signatures>>
      /\ Fault \/ NoFault
      /\ pc[w] = "resolve"
      /\ \/ pc' = [pc EXCEPT ![w] = "receipt"] /\ job[w].raw # NoTx
         \/ pc' = [pc EXCEPT ![w] = "broadcast"] /\ job[w].raw # NoTx
         \/ pc' = [pc EXCEPT ![w] = "construct"] /\ job[w].raw = NoTx
               /\ job[w].state = "signing_prepared"
         \/ pc' = [pc EXCEPT ![w] = "reserve"]
  BY DEF ResumeReceipt, ResumeBroadcast, ResumeConstruct, ParseSucceeds,
         Proceed, Goto, journalVars, NoFault
<1>2. faults' \in 0..MaxFaults
  BY <1>1, FaultType DEF IInv
<1>3. TypeOK'
  BY <1>1, <1>2 DEF IInv, TypeOK, arcVars, Step
<1>4. job[w].raw # NoTx => job[w].raw \in Tx
  BY DEF IInv, TypeOK, Job
<1>5. CopySound(w)'
  BY <1>1, <1>4 DEF IInv, TypeOK, CopySound, Holds
<1>6. \A v \in Worker \ {w} : pc'[v] = pc[v] /\ job'[v] = job[v]
  BY <1>1 DEF IInv, TypeOK
<1> QED
  BY <1>1, <1>3, <1>5, <1>6, QuietStep DEF arcVars

\* The lock is taken when it is free, and the nonce is read under it.
LEMMA BeginReserveInv ==
    ASSUME IInv, NEW w \in Worker, BeginReserve(w)
    PROVE  IInv'
PROOF
<1>1. signerLock = NoWorker /\ UNCHANGED <<rows, arcVars, signatures, faults>>
  BY DEF BeginReserve, LockFree
<1>2. CASE CanReserve(w, job[w].req)
  <2>1. PICK n \in PendingNonces : job' = [job EXCEPT ![w].nonce = n]
    BY <1>2 DEF BeginReserve
  <2>2. n \in Nat
    <3>1. LatestNonce \in Nat
      BY LenProperties DEF IInv, TypeOK, LatestNonce
    <3>2. \A tx \in waiting : tx.nonce + 1 \in Nat
      BY DEF IInv, TypeOK, Tx
    <3> QED
      BY <3>1, <3>2 DEF PendingNonces
  <2>3. job' \in [Worker -> Job]
    BY <2>1, <2>2 DEF IInv, TypeOK, Job
  <2>4. signerLock' = w /\ pc' = [pc EXCEPT ![w] = "query"]
    BY <1>2 DEF BeginReserve, Goto
  <2>5. TypeOK'
    BY <1>1, <2>3, <2>4 DEF IInv, TypeOK, arcVars, Step
  <2>6. CopySound(w)'
    BY <2>4 DEF IInv, TypeOK, CopySound
  <2>7. \A v \in Worker \ {w} : pc'[v] = pc[v] /\ job'[v] = job[v]
    BY <2>1, <2>4 DEF IInv, TypeOK
  <2> QED
    BY <1>1, <2>5, <2>6, <2>7, QuietStep DEF arcVars
<1>3. CASE ~ CanReserve(w, job[w].req)
  <2>1. pc' = [pc EXCEPT ![w] = "idle"] /\ UNCHANGED <<signerLock, job>>
    BY <1>3 DEF BeginReserve, Goto
  <2>2. TypeOK'
    BY <1>1, <2>1 DEF IInv, TypeOK, arcVars, Step
  <2>3. CopySound(w)'
    BY <2>1 DEF IInv, TypeOK, CopySound
  <2>4. \A v \in Worker \ {w} : pc'[v] = pc[v] /\ job'[v] = job[v]
    BY <2>1 DEF IInv, TypeOK
  <2> QED
    BY <1>1, <2>1, <2>2, <2>3, <2>4, QuietStep DEF arcVars
<1> QED
  BY <1>2, <1>3

\* The chosen nonce is above every nonce in flight, and w has the lock.
LEMMA QueryInFlightInv ==
    ASSUME IInv, NEW w \in Worker, QueryInFlight(w)
    PROVE  IInv'
PROOF
<1> DEFINE r == job[w].req
<1>1. PICK n \in NoncesAfter(r, job[w].nonce) : job' = [job EXCEPT ![w].nonce = n]
  BY DEF QueryInFlight
<1>2. /\ pc[w] = "query" /\ pc' = [pc EXCEPT ![w] = "commit"]
      /\ UNCHANGED <<rows, signerLock, arcVars, signatures, faults>>
  BY DEF QueryInFlight, Goto, journalVars
<1>3. InFlightNonces(r) \subseteq Nat
  BY DEF InFlightNonces, IInv, RowSound
<1>4. n \in Nat /\ \A k \in InFlightNonces(r) : k < n
  BY <1>3 DEF NoncesAfter, IInv, TypeOK, Job
<1>5. /\ job' \in [Worker -> Job]
      /\ job'[w].req = r /\ job'[w].nonce = n
      /\ \A v \in Worker \ {w} : job'[v] = job[v]
  BY <1>1, <1>4 DEF IInv, TypeOK, Job
<1>6. TypeOK'
  BY <1>2, <1>5 DEF IInv, TypeOK, arcVars, Step
<1>7. CopySound(w)'
  <2>1. \A q \in Request \ {r} : rows[q].state \in InFlight => rows[q].nonce < n
    BY <1>4 DEF InFlightNonces
  <2>2. pc'[w] = "commit" /\ signerLock' = w /\ rows' = rows
    BY <1>2 DEF IInv, TypeOK, CopySound
  <2> QED
    BY <1>5, <2>1, <2>2 DEF CopySound
<1>8. \A v \in Worker \ {w} : pc'[v] = pc[v] /\ job'[v] = job[v]
  BY <1>2, <1>5 DEF IInv, TypeOK
<1> QED
  BY <1>2, <1>6, <1>7, <1>8, QuietStep DEF arcVars

\* The reserved nonce is distinct from those in flight, and nothing is signed.
LEMMA CommitReserveInv ==
    ASSUME IInv, NEW w \in Worker, CommitReserve(w)
    PROVE  IInv'
PROOF
<1> DEFINE r == job[w].req
           n == job[w].nonce
           new == [rows[r] EXCEPT !.state = "signing_prepared", !.nonce = n]
<1>1. /\ pc[w] = "commit" /\ signerLock = w /\ signerLock' = NoWorker
      /\ UNCHANGED <<arcVars, job, signatures, faults>>
  BY DEF CommitReserve, IInv, CopySound
<1>2. r \in Request /\ n \in Nat /\ rows[r] \in Row
  BY DEF IInv, TypeOK, Job
<1>3. CASE ~ CanReserve(w, r)
  <2>1. pc' = [pc EXCEPT ![w] = "idle"] /\ UNCHANGED rows
    BY <1>3 DEF CommitReserve, Goto
  <2>2. TypeOK'
    BY <1>1, <2>1 DEF IInv, TypeOK, arcVars, Step
  <2>3. CopySound(w)'
    BY <2>1 DEF IInv, TypeOK, CopySound
  <2>4. \A v \in Worker \ {w} : pc'[v] = pc[v] /\ job'[v] = job[v]
    BY <1>1, <2>1 DEF IInv, TypeOK
  <2> QED
    BY <1>1, <2>1, <2>2, <2>3, <2>4, QuietStep DEF arcVars
<1>4. CASE CanReserve(w, r)
  <2>1. /\ rows' = [rows EXCEPT ![r] = new]
        /\ pc' = [pc EXCEPT ![w] = "construct"]
    BY <1>4 DEF CommitReserve, Reserve, Goto, IInv, TypeOK, Row
  <2>2. /\ new \in Row /\ new.state = "signing_prepared" /\ new.nonce = n
        /\ new.raw = rows[r].raw /\ new.owner = rows[r].owner
        /\ new.leased = rows[r].leased
    BY <1>2 DEF Row, State, InFlight
  <2> HIDE DEF new
  <2>3. /\ rows' \in [Request -> Row]
        /\ rows'[r] = new
        /\ \A q \in Request : q # r => rows'[q] = rows[q]
    BY <1>2, <2>1, <2>2 DEF IInv, TypeOK
  <2>4. rows[r].owner = w /\ rows[r].state = "queued" /\ rows[r].raw = NoTx
    BY <1>2, <1>4 DEF CanReserve, Holds, IInv, RowSound, Unsigned
  <2>5. TypeOK'
    <3>1. \A q \in Request : rows'[q].leased => rows'[q].owner \in Worker
      BY <2>2, <2>3 DEF IInv, TypeOK
    <3> QED
      BY <1>1, <2>1, <2>3, <3>1 DEF IInv, TypeOK, arcVars, Step
  <2>6. ASSUME NEW q \in Request PROVE RowSound(q)'
    BY <1>2, <2>2, <2>3, <2>4
       DEF IInv, RowSound, Unsigned, InFlight, Settled
  <2>7. ASSUME NEW v \in Worker \ {w} PROVE CopySound(v)'
    <3>1. pc'[v] = pc[v] /\ job'[v] = job[v]
      BY <1>1, <2>1 DEF IInv, TypeOK
    <3>2. Undisturbed(v)
      BY <1>1, <2>2, <2>3, <2>4, <3>1 DEF Undisturbed
    <3> QED
      BY <3>2, UndisturbedCopy DEF IInv
  <2>8. CopySound(w)'
    <3>1. pc'[w] = "construct" /\ job'[w] = job[w]
      BY <1>1, <2>1 DEF IInv, TypeOK
    <3> QED
      BY <2>2, <2>3, <2>4, <3>1 DEF CopySound
  <2>9. StoredBeforeSent'
    BY <1>1, <2>2, <2>3 DEF IInv, TypeOK, Tx, StoredBeforeSent, arcVars
  <2>10. InFlightNoncesDistinct'
    <3>1. ASSUME NEW q \in Request, q # r, rows[q].state \in InFlight
          PROVE  rows[q].nonce # n
      BY <1>1, <1>2, <3>1 DEF IInv, CopySound, RowSound
    <3>2. SUFFICES ASSUME NEW p \in Request, NEW q \in Request, p # q,
                          rows'[p].state \in InFlight,
                          rows'[q].state \in InFlight
                   PROVE  rows'[p].nonce # rows'[q].nonce
      BY DEF InFlightNoncesDistinct
    <3>3. CASE p = r
      BY <2>2, <2>3, <3>1, <3>2, <3>3
    <3>4. CASE q = r
      BY <2>2, <2>3, <3>1, <3>2, <3>4
    <3>5. CASE p # r /\ q # r
      BY <2>3, <3>2, <3>5 DEF IInv, InFlightNoncesDistinct
    <3> QED
      BY <3>3, <3>4, <3>5
  <2> QED
    BY <2>5, <2>6, <2>7, <2>8, <2>9, <2>10 DEF IInv
<1> QED
  BY <1>3, <1>4

LEMMA SignInv ==
    ASSUME IInv, NEW w \in Worker, Sign(w)
    PROVE  IInv'
PROOF
<1> DEFINE r == job[w].req
           tx == [req |-> r, nonce |-> job[w].nonce, sig |-> signatures[r] + 1]
<1>1. /\ pc[w] = "construct" /\ pc' = [pc EXCEPT ![w] = "record"]
      /\ job' = [job EXCEPT ![w].raw = tx]
      /\ signatures' = [signatures EXCEPT ![r] = signatures[r] + 1]
      /\ signatures[r] < MaxSignatures
      /\ UNCHANGED <<rows, signerLock, arcVars, faults>>
  BY DEF Sign, Goto, journalVars
<1>2. r \in Request /\ job[w] \in Job /\ signatures[r] \in 0..MaxSignatures
  BY DEF IInv, TypeOK, Job
<1>3. tx \in Tx /\ signatures[r] + 1 \in 0..MaxSignatures
  BY <1>1, <1>2, SignatureAssumption DEF Tx, Job
<1>4. tx.req = r
  OBVIOUS
<1> HIDE DEF tx
<1>5. /\ job' \in [Worker -> Job]
      /\ job'[w].req = r /\ job'[w].raw = tx
      /\ \A v \in Worker \ {w} : job'[v] = job[v]
  BY <1>1, <1>2, <1>3 DEF IInv, TypeOK, Job
<1>6. TypeOK'
  BY <1>1, <1>3, <1>5 DEF IInv, TypeOK, arcVars, Step
<1>7. CopySound(w)'
  <2>1. pc'[w] = "record"
    BY <1>1 DEF IInv, TypeOK
  <2>2. Holds(w, r) => rows[r].state = "signing_prepared" /\ rows[r].raw = NoTx
    BY <1>1 DEF IInv, CopySound
  <2> QED
    BY <1>1, <1>3, <1>4, <1>5, <2>1, <2>2 DEF CopySound, Holds
<1>8. \A v \in Worker \ {w} : pc'[v] = pc[v] /\ job'[v] = job[v]
  BY <1>1, <1>5 DEF IInv, TypeOK
<1> QED
  BY <1>1, <1>6, <1>7, <1>8, QuietStep DEF arcVars

\* Bytes are stored where none were, so nothing sent is contradicted.
LEMMA RecordSignedInv ==
    ASSUME IInv, NEW w \in Worker, RecordSigned(w)
    PROVE  IInv'
PROOF
<1> DEFINE r == job[w].req
           tx == job[w].raw
           new == [rows[r] EXCEPT !.state = "signed", !.raw = tx]
<1>1. pc[w] = "record" /\ UNCHANGED <<signerLock, arcVars, job, signatures, faults>>
  BY DEF RecordSigned
<1>2. r \in Request /\ rows[r] \in Row /\ tx \in Tx /\ tx.req = r
  BY <1>1 DEF IInv, TypeOK, Job, CopySound
<1>3. CASE ~ CanRecordSigned(w, r)
  <2>1. pc' = [pc EXCEPT ![w] = "idle"] /\ UNCHANGED rows
    BY <1>3 DEF RecordSigned, Goto
  <2>2. TypeOK'
    BY <1>1, <2>1 DEF IInv, TypeOK, arcVars, Step
  <2>3. CopySound(w)'
    BY <2>1 DEF IInv, TypeOK, CopySound
  <2>4. \A v \in Worker \ {w} : pc'[v] = pc[v] /\ job'[v] = job[v]
    BY <1>1, <2>1 DEF IInv, TypeOK
  <2> QED
    BY <1>1, <2>1, <2>2, <2>3, <2>4, QuietStep DEF arcVars
<1>4. CASE CanRecordSigned(w, r)
  <2>1. /\ rows' = [rows EXCEPT ![r] = new]
        /\ pc' = [pc EXCEPT ![w] = "broadcast"]
    BY <1>4 DEF RecordSigned, StoreSigned, Goto, IInv, TypeOK, Row
  <2>2. /\ new \in Row /\ new.state = "signed" /\ new.raw = tx
        /\ new.nonce = rows[r].nonce /\ new.owner = rows[r].owner
        /\ new.leased = rows[r].leased
    BY <1>2 DEF Row, State, InFlight
  <2> HIDE DEF new
  <2>3. /\ rows' \in [Request -> Row]
        /\ rows'[r] = new
        /\ \A q \in Request : q # r => rows'[q] = rows[q]
    BY <1>2, <2>1, <2>2 DEF IInv, TypeOK
  <2>4. /\ rows[r].owner = w
        /\ rows[r].state = "signing_prepared" /\ rows[r].raw = NoTx
    BY <1>1, <1>4 DEF CanRecordSigned, Holds, IInv, CopySound
  <2>5. rows[r].nonce \in Nat
    BY <1>2, <2>4 DEF IInv, RowSound, InFlight
  <2>6. TypeOK'
    <3>1. \A q \in Request : rows'[q].leased => rows'[q].owner \in Worker
      BY <2>2, <2>3 DEF IInv, TypeOK
    <3> QED
      BY <1>1, <2>1, <2>3, <3>1 DEF IInv, TypeOK, arcVars, Step
  <2>7. ASSUME NEW q \in Request PROVE RowSound(q)'
    BY <1>2, <2>2, <2>3, <2>4, <2>5
       DEF IInv, RowSound, Unsigned, InFlight, Settled
  <2>8. ASSUME NEW v \in Worker \ {w} PROVE CopySound(v)'
    <3>1. pc'[v] = pc[v] /\ job'[v] = job[v]
      BY <1>1, <2>1 DEF IInv, TypeOK
    <3>2. Undisturbed(v)
      BY <1>1, <2>2, <2>3, <2>4, <3>1 DEF Undisturbed, InFlight
    <3> QED
      BY <3>2, UndisturbedCopy DEF IInv
  <2>9. CopySound(w)'
    <3>1. pc'[w] = "broadcast" /\ job'[w] = job[w]
      BY <1>1, <2>1 DEF IInv, TypeOK
    <3> QED
      BY <1>2, <2>2, <2>3, <3>1 DEF CopySound
  <2>10. StoredBeforeSent'
    <3>1. ASSUME NEW t \in sent PROVE rows'[t.req].raw = t
      <4>1. t \in Tx /\ t.req \in Request /\ rows[t.req].raw = t
        BY DEF IInv, TypeOK, Tx, StoredBeforeSent
      <4>2. t.req # r
        BY <2>4, <4>1, NoTxAssumption
      <4> QED
        BY <2>3, <4>1, <4>2
    <3> QED
      BY <1>1, <3>1 DEF StoredBeforeSent, arcVars
  <2>11. InFlightNoncesDistinct'
    BY <1>2, <2>2, <2>3, <2>4 DEF IInv, InFlightNoncesDistinct, InFlight
  <2> QED
    BY <2>6, <2>7, <2>8, <2>9, <2>10, <2>11 DEF IInv
<1> QED
  BY <1>3, <1>4

\* What reaches a node is the worker's copy of the stored bytes.
LEMMA SendInv ==
    ASSUME IInv, NEW w \in Worker, BroadcastAccepted(w) \/ BroadcastNonceTooLow(w)
    PROVE  IInv'
PROOF
<1> DEFINE r == job[w].req
           tx == job[w].raw
<1>1. /\ pc[w] = "broadcast"
      /\ \E step \in {"recordBroadcast", "receipt"} : pc' = [pc EXCEPT ![w] = step]
      /\ sent' = sent \cup {tx}
      /\ waiting' \subseteq waiting \cup {tx}
      /\ UNCHANGED <<rows, signerLock, mined, outcome, job, signatures, faults>>
  BY DEF BroadcastAccepted, BroadcastNonceTooLow, Accept, RefuseNonce, Goto,
         journalVars
<1>2. tx \in Tx /\ rows[r].raw = tx /\ r \in Request
  BY <1>1 DEF IInv, CopySound, TypeOK, Job
<1>3. rows[tx.req].raw = tx
  BY <1>2, NoTxAssumption DEF IInv, RowSound
<1>4. TypeOK'
  BY <1>1, <1>2 DEF IInv, TypeOK, Step
<1>5. CopySound(w)'
  <2>1. pc'[w] \in {"recordBroadcast", "receipt"} /\ job' = job /\ rows' = rows
    BY <1>1 DEF IInv, TypeOK
  <2> QED
    BY <1>2, <2>1 DEF CopySound
<1>6. \A v \in Worker \ {w} : pc'[v] = pc[v] /\ job'[v] = job[v]
  BY <1>1 DEF IInv, TypeOK
<1> QED
  BY <1>1, <1>3, <1>4, <1>5, <1>6, QuietStep

LEMMA RecordBroadcastInv ==
    ASSUME IInv, NEW w \in Worker, RecordBroadcast(w)
    PROVE  IInv'
PROOF
<1> DEFINE r == job[w].req
           new == [rows[r] EXCEPT !.state = "submitted"]
<1>1. /\ pc[w] = "recordBroadcast"
      /\ UNCHANGED <<signerLock, arcVars, job, signatures, faults>>
  BY DEF RecordBroadcast
<1>2. r \in Request /\ rows[r] \in Row /\ job[w].raw \in Tx
      /\ rows[r].raw = job[w].raw
  BY <1>1 DEF IInv, TypeOK, Job, CopySound
<1>3. CASE ~ CanRecordBroadcast(w, r)
  <2>1. pc' = [pc EXCEPT ![w] = "idle"] /\ UNCHANGED rows
    BY <1>3 DEF RecordBroadcast, Goto
  <2>2. TypeOK'
    BY <1>1, <2>1 DEF IInv, TypeOK, arcVars, Step
  <2>3. CopySound(w)'
    BY <2>1 DEF IInv, TypeOK, CopySound
  <2>4. \A v \in Worker \ {w} : pc'[v] = pc[v] /\ job'[v] = job[v]
    BY <1>1, <2>1 DEF IInv, TypeOK
  <2> QED
    BY <1>1, <2>1, <2>2, <2>3, <2>4, QuietStep DEF arcVars
<1>4. CASE CanRecordBroadcast(w, r)
  <2>1. /\ rows' = [rows EXCEPT ![r] = new]
        /\ pc' = [pc EXCEPT ![w] = "receipt"]
    BY <1>4 DEF RecordBroadcast, StoreBroadcast, Goto, IInv, TypeOK, Row
  <2>2. /\ new \in Row /\ new.state = "submitted" /\ new.raw = rows[r].raw
        /\ new.nonce = rows[r].nonce /\ new.owner = rows[r].owner
        /\ new.leased = rows[r].leased
    BY <1>2 DEF Row, State, InFlight
  <2> HIDE DEF new
  <2>3. /\ rows' \in [Request -> Row]
        /\ rows'[r] = new
        /\ \A q \in Request : q # r => rows'[q] = rows[q]
    BY <1>2, <2>1, <2>2 DEF IInv, TypeOK
  <2>4. rows[r].owner = w /\ rows[r].state \in {"signed", "submitted"}
    BY <1>4 DEF CanRecordBroadcast, Holds
  <2>5. rows[r].nonce \in Nat /\ rows[r].raw # NoTx
    BY <1>2, <2>4, NoTxAssumption DEF IInv, RowSound, InFlight
  <2>6. TypeOK'
    <3>1. \A q \in Request : rows'[q].leased => rows'[q].owner \in Worker
      BY <2>2, <2>3 DEF IInv, TypeOK
    <3> QED
      BY <1>1, <2>1, <2>3, <3>1 DEF IInv, TypeOK, arcVars, Step
  <2>7. ASSUME NEW q \in Request PROVE RowSound(q)'
    BY <1>2, <2>2, <2>3, <2>5
       DEF IInv, RowSound, Unsigned, InFlight, Settled
  <2>8. ASSUME NEW v \in Worker \ {w} PROVE CopySound(v)'
    <3>1. pc'[v] = pc[v] /\ job'[v] = job[v]
      BY <1>1, <2>1 DEF IInv, TypeOK
    <3>2. Undisturbed(v)
      BY <1>1, <2>2, <2>3, <2>4, <3>1 DEF Undisturbed, InFlight
    <3> QED
      BY <3>2, UndisturbedCopy DEF IInv
  <2>9. CopySound(w)'
    <3>1. pc'[w] = "receipt" /\ job'[w] = job[w]
      BY <1>1, <2>1 DEF IInv, TypeOK
    <3> QED
      BY <1>2, <2>2, <2>3, <3>1 DEF CopySound
  <2>10. StoredBeforeSent'
    BY <1>1, <2>2, <2>3 DEF IInv, TypeOK, Tx, StoredBeforeSent, arcVars
  <2>11. InFlightNoncesDistinct'
    BY <1>2, <2>2, <2>3, <2>4 DEF IInv, InFlightNoncesDistinct, InFlight
  <2> QED
    BY <2>6, <2>7, <2>8, <2>9, <2>10, <2>11 DEF IInv
<1> QED
  BY <1>3, <1>4

LEMMA FinishType ==
    ASSUME IInv, NEW w \in Worker, NEW state \in State, FinishAs(w, state),
           Fault \/ NoFault, UNCHANGED <<mined, outcome>>,
           sent' \subseteq Tx, waiting' \subseteq sent'
    PROVE  TypeOK'
PROOF
<1>1. job[w].req \in Request
  BY DEF IInv, TypeOK, Job
<1>2. /\ rows' \in [Request -> Row]
      /\ \A q \in Request : rows'[q].leased => rows'[q].owner \in Worker
  BY <1>1, FinishRows DEF IInv, FinishAs
<1>3. faults' \in 0..MaxFaults
  BY FaultType DEF IInv
<1> QED
  BY <1>2, <1>3 DEF IInv, TypeOK, FinishAs, Goto, Step

\* The ways a tick settles or parks its row.
LEMMA SettleInv ==
    ASSUME IInv, NEW w \in Worker,
           \/ ResolveFails(w) \/ ParseClarifies(w) \/ GuardBlocks(w)
           \/ BroadcastAmbiguous(w) \/ ReceiptReconciles(w)
           \/ ReceiptOfReplacement(w) \/ ReceiptUnresolved(w)
    PROVE  IInv'
PROOF
<1> DEFINE r == job[w].req
           tx == job[w].raw
<1>1. ASSUME NEW state \in Settled \cup {"unknown"}, FinishAs(w, state),
             Fault \/ NoFault, UNCHANGED arcVars,
             Holds(w, r) =>
                /\ state = "unknown" => rows[r].raw # NoTx
                /\ state = "needs_clarification" => rows[r].raw = NoTx
      PROVE  IInv'
  <2>1. TypeOK'
    BY <1>1, FinishType DEF State, IInv, TypeOK, arcVars
  <2> QED
    BY <1>1, <2>1, FinishInv DEF arcVars
<1>2. pc[w] \in {"broadcast", "receipt"} =>
          tx \in Tx /\ rows[r].raw = tx /\ rows[r].raw # NoTx
  BY NoTxAssumption DEF IInv, CopySound
<1>3. CASE ResolveFails(w) \/ GuardBlocks(w)
  BY <1>1, <1>3 DEF ResolveFails, GuardBlocks, Settled, NoFault
<1>4. CASE ParseClarifies(w)
  <2>1. Holds(w, r) => rows[r].raw = NoTx
    BY <1>4 DEF ParseClarifies, IInv, TypeOK, Job, CopySound, RowSound, Unsigned
  <2> QED
    BY <1>1, <1>4, <2>1 DEF ParseClarifies, Settled, NoFault
<1>5. CASE ReceiptUnresolved(w)
  BY <1>1, <1>2, <1>5 DEF ReceiptUnresolved, Settled
<1>6. CASE ReceiptReconciles(w)
  <2>1. ReconciledState(r, tx) \in {"technical_failure", "executed", "refused", "unknown"}
    BY DEF ReconciledState
  <2> QED
    BY <1>1, <1>2, <1>6, <2>1 DEF ReceiptReconciles, Settled, NoFault
<1>7. CASE ReceiptOfReplacement(w)
  BY <1>1, <1>7 DEF ReceiptOfReplacement, Settled, NoFault
<1>8. CASE BroadcastAmbiguous(w)
  <2>1. /\ pc[w] = "broadcast" /\ FinishAs(w, "unknown")
        /\ Fault \/ NoFault
        /\ sent' = sent \cup {tx} /\ waiting' \subseteq waiting \cup {tx}
        /\ UNCHANGED <<mined, outcome>>
    BY <1>8 DEF BroadcastAmbiguous, Lose
  <2>2. rows[tx.req].raw = tx
    BY <1>2, <2>1 DEF IInv, TypeOK, Job, RowSound
  <2>3. TypeOK'
    <3>1. sent' \subseteq Tx /\ waiting' \subseteq sent'
      BY <1>2, <2>1 DEF IInv, TypeOK
    <3> QED
      BY <2>1, <3>1, FinishType DEF State
  <2> QED
    BY <1>2, <2>1, <2>2, <2>3, FinishInv
<1> QED
  BY <1>3, <1>4, <1>5, <1>6, <1>7, <1>8

-----------------------------------------------------------------------------
LEMMA TickInv ==
    ASSUME IInv, NEW w \in Worker, Tick(w)
    PROVE  IInv'
PROOF
<1>1. CASE \E r \in Request : Claim(w, r)
  BY <1>1, ClaimInv
<1>2. CASE ResolveFails(w) \/ ParseClarifies(w) \/ GuardBlocks(w) \/ Reconciling(w)
              \/ BroadcastAmbiguous(w)
  BY <1>2, SettleInv DEF Reconciling
<1>3. CASE ResumeReceipt(w) \/ ResumeBroadcast(w) \/ ResumeConstruct(w)
              \/ ParseSucceeds(w)
  BY <1>3, ResumeInv
<1>4. CASE Reserving(w)
  BY <1>4, BeginReserveInv, QueryInFlightInv, CommitReserveInv DEF Reserving
<1>5. CASE Sign(w) \/ RecordSigned(w)
  BY <1>5, SignInv, RecordSignedInv
<1>6. CASE BroadcastAccepted(w) \/ BroadcastNonceTooLow(w) \/ RecordBroadcast(w)
  BY <1>6, SendInv, RecordBroadcastInv
<1> QED
  BY <1>1, <1>2, <1>3, <1>4, <1>5, <1>6
     DEF Tick, Resolved, Signing, Broadcasting

LEMMA StepInv == IInv /\ [Next]_vars => IInv'
PROOF
<1> SUFFICES ASSUME IInv, [Next]_vars PROVE IInv'
  OBVIOUS
<1>1. CASE \E r \in Request : Enqueue(r) \/ LeaseLapses(r)
  BY <1>1, EnqueueInv, LeaseLapsesInv
<1>2. CASE \E w \in Worker : Tick(w) \/ Abandon(w)
  BY <1>2, TickInv, AbandonInv
<1>3. CASE Mine
  BY <1>3, MineInv
<1>4. CASE Evict
  BY <1>4, EvictInv
<1>5. CASE UNCHANGED vars
  <2>1. TypeOK'
    BY <1>5 DEF vars, journalVars, arcVars, workerVars, IInv, TypeOK
  <2>2. (\A r \in Request : RowSound(r)') /\ (\A w \in Worker : CopySound(w)')
    BY <1>5 DEF vars, journalVars, workerVars, IInv, RowSound, CopySound, Holds
  <2>3. StoredBeforeSent' /\ InFlightNoncesDistinct'
    BY <1>5 DEF vars, journalVars, arcVars, IInv, StoredBeforeSent,
                InFlightNoncesDistinct
  <2> QED
    BY <2>1, <2>2, <2>3 DEF IInv
<1> QED
  BY <1>1, <1>2, <1>3, <1>4, <1>5 DEF Next

THEOREM Invariance == Spec => []IInv
PROOF BY InitInv, StepInv, PTL DEF Spec

\* The types of the rows, the copies and the chain, whatever the bounds.
THEOREM TypeCorrect == Spec => []TypeOK
PROOF
<1>1. IInv => TypeOK
  BY DEF IInv
<1> QED
  BY <1>1, Invariance, PTL

\* No crash point, lapsed lease or second signature lets a node see bytes that
\* are not the ones stored for the request.
THEOREM BytesStoredFirst == Spec => []StoredBeforeSent
PROOF
<1>1. IInv => StoredBeforeSent
  BY DEF IInv
<1> QED
  BY <1>1, Invariance, PTL

\* Under the signer's lock the three steps of a reservation act as one.
THEOREM NoncesDistinct == Spec => []InFlightNoncesDistinct
PROOF
<1>1. IInv => InFlightNoncesDistinct
  BY DEF IInv
<1> QED
  BY <1>1, Invariance, PTL

\* A request whose outcome is unknown can always be reconciled from its row.
THEOREM EvidenceKept == Spec => []UnknownKeepsEvidence
PROOF
<1>1. IInv => UnknownKeepsEvidence
  BY DEF IInv, RowSound, UnknownKeepsEvidence
<1> QED
  BY <1>1, Invariance, PTL

-----------------------------------------------------------------------------
(* What a step may never do to a row. *)

RowKept(r) ==
    /\ rows[r].raw # NoTx => rows'[r].raw = rows[r].raw
    /\ rows[r].state \in Settled => rows'[r] = rows[r]

\* Settled rows belong to nobody, so no statement's guard holds for them.
LEMMA StepKeepsRow ==
    ASSUME IInv, [Next]_vars, NEW r \in Request
    PROVE  RowKept(r)
PROOF
<1> USE DEF RowKept
<1>1. /\ rows \in [Request -> Row] /\ rows[r] \in Row
      /\ rows[r].state \in Settled =>
            rows[r].owner = NoWorker /\ ~ rows[r].leased
  BY WorkerAssumption DEF IInv, TypeOK, RowSound
<1>2. ASSUME NEW w \in Worker, NEW state, FinishAs(w, state) PROVE RowKept(r)
  <2>1. CASE rows' = rows
    BY <2>1
  <2>2. CASE Holds(w, job[w].req)
    <3>1. rows' = [rows EXCEPT ![job[w].req].state = state,
                    ![job[w].req].owner = NoWorker, ![job[w].req].leased = FALSE]
      BY <1>2, <2>2 DEF FinishAs, Finish
    <3>2. job[w].req = r => rows[r].state \notin Settled
      BY <1>1, <2>2, WorkerAssumption DEF Holds
    <3> QED
      BY <1>1, <3>1, <3>2 DEF Row
  <2> QED
    BY <1>2, <2>1, <2>2 DEF FinishAs, Finish
<1>3. CASE \E q \in Request : Enqueue(q)
  BY <1>1, <1>3 DEF Enqueue, Insert, Settled, Row
<1>4. CASE \E q \in Request : LeaseLapses(q)
  BY <1>1, <1>4 DEF LeaseLapses, Lapse, Row
<1>5. CASE \E w \in Worker, q \in Request : Claim(w, q)
  BY <1>1, <1>5 DEF Claim, Lease, Claimable, InFlight, Settled, Row
<1>6. ASSUME NEW w \in Worker, CommitReserve(w) PROVE RowKept(r)
  BY <1>1, <1>6 DEF CommitReserve, CanReserve, Reserve, Settled, Row
<1>7. ASSUME NEW w \in Worker, RecordSigned(w) PROVE RowKept(r)
  <2>1. CanRecordSigned(w, job[w].req) => rows[job[w].req].raw = NoTx
    BY <1>7 DEF RecordSigned, CanRecordSigned, IInv, CopySound
  <2> QED
    BY <1>1, <1>7, <2>1
       DEF RecordSigned, CanRecordSigned, StoreSigned, Settled, Row
<1>8. ASSUME NEW w \in Worker, RecordBroadcast(w) PROVE RowKept(r)
  BY <1>1, <1>8
     DEF RecordBroadcast, CanRecordBroadcast, StoreBroadcast, Settled, Row
<1>9. ASSUME NEW w \in Worker, Tick(w) PROVE RowKept(r)
  <2>1. CASE rows' = rows
    BY <2>1
  <2>2. CASE ResolveFails(w) \/ ParseClarifies(w) \/ GuardBlocks(w)
                \/ BroadcastAmbiguous(w) \/ Reconciling(w)
    BY <1>2, <2>2 DEF ResolveFails, ParseClarifies, GuardBlocks,
                      BroadcastAmbiguous, Reconciling, ReceiptReconciles,
                      ReceiptOfReplacement, ReceiptUnresolved
  <2>3. CASE ResumeReceipt(w) \/ ResumeBroadcast(w) \/ ResumeConstruct(w)
                \/ ParseSucceeds(w) \/ BeginReserve(w) \/ QueryInFlight(w)
                \/ Sign(w) \/ BroadcastAccepted(w) \/ BroadcastNonceTooLow(w)
    BY <2>1, <2>3 DEF ResumeReceipt, ResumeBroadcast, ResumeConstruct,
                      ParseSucceeds, Proceed, BeginReserve, QueryInFlight, Sign,
                      BroadcastAccepted, BroadcastNonceTooLow, journalVars
  <2> QED
    BY <1>5, <1>6, <1>7, <1>8, <1>9, <2>2, <2>3
       DEF Tick, Resolved, Reserving, Signing, Broadcasting
<1>10. CASE (\E w \in Worker : Abandon(w)) \/ Mine \/ Evict \/ UNCHANGED vars
  BY <1>10 DEF Abandon, Mine, Evict, vars, journalVars
<1> QED
  BY <1>3, <1>4, <1>9, <1>10 DEF Next

\* A stale worker cannot replace the bytes that recovery is going to resend.
THEOREM BytesNeverReplaced == Spec => StoredBytesAreFinal
PROOF
<1>1. IInv /\ [Next]_vars =>
          [\A r \in Request : rows[r].raw # NoTx => rows'[r].raw = rows[r].raw]_vars
  BY StepKeepsRow DEF RowKept
<1> QED
  BY <1>1, Invariance, PTL DEF Spec, StoredBytesAreFinal

\* What the user was told of a request is never taken back.
THEOREM SettledForGood == Spec => SettledIsFinal
PROOF
<1>1. IInv /\ [Next]_vars =>
          [\A r \in Request : rows[r].state \in Settled => rows'[r] = rows[r]]_vars
  BY StepKeepsRow DEF RowKept
<1> QED
  BY <1>1, Invariance, PTL DEF Spec, SettledIsFinal

=============================================================================
