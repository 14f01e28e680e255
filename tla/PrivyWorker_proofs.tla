-------------------------- MODULE PrivyWorker_proofs --------------------------
(***************************************************************************)
(* Proofs about PrivyWorker, for any number of requests, workers and       *)
(* faults: nothing is sent before it is marked, and this path too          *)
(* implements PaymentLifecycle.                                            *)
(*                                                                         *)
(* The worker may send a request any number of times and lose every        *)
(* answer.  What makes that safe is that Privy makes one transaction per   *)
(* request, Sole(r) below: a receipt is then a receipt of the request,     *)
(* whichever worker asks for it and however late.                          *)
(***************************************************************************)
EXTENDS PrivyWorker, FiniteSetTheorems, TLAPS

Row == [state: State, created: Nat, owner: Worker \cup {NoWorker},
        leased: BOOLEAN, nonce: Nat \cup {NoNonce}, raw: Tx \cup {NoTx}]

Job == [req: Request, state: State, raw: Tx \cup {NoTx}]

Receipt == [tx: Tx, status: {"success", "reverted"}]

\* The types of the variables; this path takes no signer's lock.
TypeOK ==
    /\ rows \in [Request -> Row]
    /\ signerLock = NoWorker
    /\ submitted \subseteq Tx
    /\ receipts \subseteq Receipt
    /\ outcome \in [Request -> Outcome]
    /\ pc \in [Worker -> Step]
    /\ job \in [Worker -> Job]
    /\ faults \in 0..MaxFaults

\* The transaction Privy makes for r, the only one there will ever be.
Sole(r) == [req |-> r, nonce |-> 0, sig |-> 1]

\* The states of a request that was never sent.
Unmarked == {"absent", "queued", "needs_clarification"}

\* Privy made nothing else, what is included was submitted and has one status,
\* and the contract recorded exactly the requests whose transaction went through.
ChainSound ==
    /\ submitted \subseteq {Sole(r) : r \in Request}
    /\ \A e \in receipts : e.tx \in submitted
    /\ \A e, f \in receipts : e.tx = f.tx => e = f
    /\ \A r \in Request :
          outcome[r] # "UNSEEN" <=> [tx |-> Sole(r), status |-> "success"] \in receipts

\* What a row says of its request, and that an ended row has no holder.
RowSound(r) ==
    /\ rows[r].state \in Unmarked => Sole(r) \notin submitted
    /\ rows[r].state \in Unmarked \cup {"signing"} => rows[r].raw = NoTx
    /\ rows[r].raw # NoTx => rows[r].raw = Sole(r) /\ Sole(r) \in submitted
    /\ rows[r].state \in Settled \cup {"absent"} => rows[r].owner = NoWorker
    /\ rows[r].state = "executed" => outcome[r] = "EXECUTED"
    /\ rows[r].state = "refused" => outcome[r] = "REFUSED"
    /\ rows[r].state = "technical_failure" => Reverted(Sole(r))

\* What a worker may rely on at each point of its tick: while it still holds the
\* row the row's state, and, held or not, that the row was marked and the hash is
\* the request's.
CopySound(w) ==
    LET r == job[w].req IN
    /\ pc[w] = "resolve" /\ Holds(w, r) => rows[r].state = job[w].state
    /\ pc[w] = "resolve" /\ job[w].state \notin Unmarked =>
          rows[r].state \notin Unmarked
    /\ pc[w] = "resolve" /\ job[w].raw # NoTx =>
          job[w].raw = Sole(r) /\ Sole(r) \in submitted
    /\ pc[w] = "mark" /\ Holds(w, r) => rows[r].state = "queued"
    /\ pc[w] = "send" => rows[r].state \notin Unmarked
    /\ pc[w] \in {"send", "record"} /\ Holds(w, r) => rows[r].state = "signing"
    /\ pc[w] \in {"record", "receipt"} =>
          job[w].raw = Sole(r) /\ Sole(r) \in submitted

PrivyInv ==
    /\ TypeOK
    /\ ChainSound
    /\ \A r \in Request : RowSound(r)
    /\ \A w \in Worker : CopySound(w)

-----------------------------------------------------------------------------
(* Frames *)

\* A step that is not v's own: it writes no row v holds, and unmarks none.
Undisturbed(v) ==
    /\ pc'[v] = pc[v]
    /\ job'[v] = job[v]
    /\ submitted \subseteq submitted'
    /\ \A r \in Request :
          /\ rows[r].state \notin Unmarked => rows'[r].state \notin Unmarked
          /\ rows'[r].owner = v => /\ rows[r].owner = v
                                   /\ rows'[r].state = rows[r].state

\* A step that leaves a row's state, owner and hash, and sends marked rows only.
RowKept(r) ==
    /\ rows'[r].state = rows[r].state
    /\ rows'[r].owner = rows[r].owner
    /\ rows'[r].raw = rows[r].raw
    /\ Sole(r) \in submitted' => Sole(r) \in submitted \/ rows[r].state \notin Unmarked

\* A copy another worker's step leaves alone stays sound.
LEMMA UndisturbedCopy ==
    ASSUME TypeOK, NEW v \in Worker, CopySound(v), Undisturbed(v)
    PROVE  CopySound(v)'
PROOF
<1>1. PICK r \in Request : r = job[v].req
      BY DEF TypeOK, Job
<1>2. job'[v] = job[v] /\ pc'[v] = pc[v] /\ submitted \subseteq submitted'
      BY DEF Undisturbed
<1>3. /\ Holds(v, r)' => Holds(v, r) /\ rows'[r].state = rows[r].state
      /\ rows[r].state \notin Unmarked => rows'[r].state \notin Unmarked
      BY DEF Undisturbed, Holds
<1> QED BY <1>1, <1>2, <1>3 DEF CopySound

\* A step that leaves a row alone, and the receipts, leaves what it says true.
LEMMA KeptRow ==
    ASSUME NEW r \in Request, RowSound(r), RowKept(r),
           UNCHANGED <<receipts, outcome>>, submitted \subseteq submitted'
    PROVE  RowSound(r)'
PROOF BY DEF RowSound, RowKept, Reverted

\* The shape of every step but an inclusion.
LEMMA FrameInv ==
    ASSUME PrivyInv, TypeOK', UNCHANGED <<receipts, outcome>>,
           submitted \subseteq submitted',
           submitted' \subseteq {Sole(q) : q \in Request},
           \A q \in Request : RowKept(q) \/ RowSound(q)',
           \A v \in Worker : Undisturbed(v) \/ CopySound(v)'
    PROVE  PrivyInv'
PROOF
<1>1. \A q \in Request : RowSound(q)'
      BY KeptRow DEF PrivyInv
<1>2. \A v \in Worker : CopySound(v)'
      BY UndisturbedCopy DEF PrivyInv
<1>3. ChainSound'
      BY DEF PrivyInv, ChainSound
<1> QED BY <1>1, <1>2, <1>3 DEF PrivyInv

-----------------------------------------------------------------------------
(* What the operators of the model come to *)

\* Privy's transaction of a request is a transaction.
LEMMA SoleType == \A r \in Request : Sole(r) \in Tx
PROOF BY SignatureAssumption DEF Sole, Tx

\* Whoever sends a request, and however often, Privy answers its one transaction.
LEMMA OneSubmission ==
    ASSUME ChainSound, NEW r \in Request
    PROVE  /\ SubmissionFor(r) = {Sole(r)}
           /\ SubmissionsOf(r) = submitted \cap {Sole(r)}
PROOF
<1>1. \A tx \in submitted : tx.req = r => tx = Sole(r)
      BY DEF ChainSound, Sole
<1>2. SubmissionsOf(r) = submitted \cap {Sole(r)}
      BY <1>1 DEF SubmissionsOf, Sole
<1>3. CASE SubmissionsOf(r) = {}
    <2>1. NewSubmission(r) = Sole(r)
          BY <1>3, FS_EmptySet DEF NewSubmission, Sole
    <2> QED BY <1>2, <1>3, <2>1 DEF SubmissionFor
<1>4. CASE SubmissionsOf(r) # {}
      BY <1>2, <1>4 DEF SubmissionFor
<1> QED BY <1>2, <1>3, <1>4

\* Counting a fault stays within the bound.
LEMMA FaultType ==
    ASSUME TypeOK, Fault \/ UNCHANGED faults
    PROVE  faults' \in 0..MaxFaults
PROOF BY FaultAssumption DEF Fault, TypeOK

\* What finish does to the rows.
LEMMA FinishRows ==
    ASSUME TypeOK, NEW w \in Worker, NEW r \in Request, NEW state \in State,
           Finish(w, r, state)
    PROVE  /\ rows' \in [Request -> Row]
           /\ \A q \in Request : q # r \/ ~ Holds(w, r) => rows'[q] = rows[q]
           /\ Holds(w, r) => /\ rows'[r].state = state
                             /\ rows'[r].owner = NoWorker
                             /\ rows'[r].raw = rows[r].raw
PROOF
<1>1. CASE ~ Holds(w, r)
      BY <1>1 DEF Finish, TypeOK
<1>2. CASE Holds(w, r)
    <2>1. rows[r] \in Row
          BY DEF TypeOK
    <2> DEFINE new == [rows[r] EXCEPT !.state = state, !.owner = NoWorker,
                                      !.leased = FALSE]
    <2>2. rows' = [rows EXCEPT ![r] = new]
          BY <1>2 DEF Finish, TypeOK, Row
    <2>3. /\ new \in Row
          /\ new.state = state /\ new.owner = NoWorker /\ new.raw = rows[r].raw
          BY <2>1 DEF Row
    <2> HIDE DEF new
    <2> QED BY <1>2, <2>2, <2>3 DEF TypeOK
<1> QED BY <1>1, <1>2

-----------------------------------------------------------------------------
(* The end of a tick *)

\* What must be the case when a worker that holds row r ends it as `state'.
Justified(r, state) ==
    /\ state = "executed" => outcome[r] = "EXECUTED"
    /\ state = "refused" => outcome[r] = "REFUSED"
    /\ state = "technical_failure" => Reverted(Sole(r))
    /\ state = "needs_clarification" => rows[r].state = "queued"

\* The tick of w ends, its last call to Privy perhaps heard.
Verdict(w, state) ==
    /\ FinishAs(w, state)
    /\ UNCHANGED <<receipts, outcome>>
    /\ \/ UNCHANGED submitted
       \/ /\ rows[job[w].req].state \notin Unmarked
          /\ state # "needs_clarification"
          /\ submitted' = submitted \cup {Sole(job[w].req)}
    /\ Fault \/ UNCHANGED faults
    /\ Holds(w, job[w].req) => Justified(job[w].req, state)

\* A tick that ends with a justified verdict keeps the invariant.
LEMMA VerdictInv ==
    ASSUME PrivyInv, NEW w \in Worker, NEW state \in Settled \cup {"unknown"},
           Verdict(w, state)
    PROVE  PrivyInv'
PROOF
<1>1. PICK r \in Request : r = job[w].req
      BY DEF PrivyInv, TypeOK, Job
<1>2. state \in State
      BY DEF State
<1>3. /\ rows' \in [Request -> Row]
      /\ \A q \in Request : q # r \/ ~ Holds(w, r) => rows'[q] = rows[q]
      /\ Holds(w, r) => /\ rows'[r].state = state
                        /\ rows'[r].owner = NoWorker
                        /\ rows'[r].raw = rows[r].raw
      BY <1>1, <1>2, FinishRows DEF PrivyInv, Verdict, FinishAs
<1>4. /\ pc' = [pc EXCEPT ![w] = "idle"]
      /\ UNCHANGED <<signerLock, job, receipts, outcome>>
      BY DEF Verdict, FinishAs, Goto
<1>5. /\ submitted \subseteq submitted'
      /\ submitted' \subseteq submitted \cup {Sole(r)}
      /\ submitted' # submitted =>
            rows[r].state \notin Unmarked /\ state # "needs_clarification"
      BY <1>1 DEF Verdict
<1>6. TypeOK'
    <2>1. faults' \in 0..MaxFaults
          BY FaultType DEF PrivyInv, Verdict
    <2>2. submitted' \subseteq Tx
          BY <1>5, SoleType DEF PrivyInv, TypeOK
    <2> QED BY <1>3, <1>4, <2>1, <2>2 DEF PrivyInv, TypeOK, Step
<1>7. submitted' \subseteq {Sole(q) : q \in Request}
      BY <1>5 DEF PrivyInv, ChainSound
<1>8. ASSUME NEW q \in Request, q # r \/ ~ Holds(w, r) PROVE RowKept(q)
    <2>1. Sole(q) \in submitted' =>
              Sole(q) \in submitted \/ rows[q].state \notin Unmarked
          BY <1>5 DEF Sole
    <2> QED BY <1>3, <1>8, <2>1 DEF RowKept
<1>9. ASSUME Holds(w, r) PROVE RowSound(r)'
    <2>1. Justified(r, state)
          BY <1>1, <1>9 DEF Verdict
    <2>2. RowSound(r)
          BY DEF PrivyInv, RowSound
    <2>3. state \in Unmarked => state = "needs_clarification"
          BY DEF Unmarked, Settled
    <2>4. state \in Unmarked => /\ Sole(r) \notin submitted'
                                /\ rows[r].raw = NoTx
          BY <1>5, <2>1, <2>2, <2>3 DEF Justified, RowSound, Unmarked
    <2>5. state # "signing"
          BY DEF Settled
    <2> QED BY <1>3, <1>4, <1>5, <1>9, <2>1, <2>2, <2>4, <2>5
               DEF RowSound, Justified, Reverted
<1>10. CopySound(w)'
      BY <1>4 DEF PrivyInv, TypeOK, CopySound
<1>11. ASSUME NEW v \in Worker \ {w} PROVE Undisturbed(v)
    <2>1. pc'[v] = pc[v] /\ job'[v] = job[v]
          BY <1>4 DEF PrivyInv, TypeOK
    <2>2. ASSUME NEW q \in Request
          PROVE  /\ rows[q].state \notin Unmarked => rows'[q].state \notin Unmarked
                 /\ rows'[q].owner = v => /\ rows[q].owner = v
                                          /\ rows'[q].state = rows[q].state
        <3>1. CASE q # r \/ ~ Holds(w, r)
              BY <1>3, <3>1
        <3>2. CASE q = r /\ Holds(w, r)
            <4>1. state \in Unmarked => rows[r].state \in Unmarked
                  BY <1>1, <3>2 DEF Verdict, Justified, Unmarked, Settled
            <4> QED BY <1>3, <3>2, <4>1, WorkerAssumption
        <3> QED BY <3>1, <3>2
    <2> QED BY <1>5, <2>1, <2>2 DEF Undisturbed
<1> QED BY <1>4, <1>5, <1>6, <1>7, <1>8, <1>9, <1>10, <1>11, FrameInv

-----------------------------------------------------------------------------
(* The other steps of a worker *)

\* A step that only moves w on: the row and the chain stay, and w's copy too.
LEMMA MoveInv ==
    ASSUME PrivyInv, NEW w \in Worker, NEW step \in Step, Goto(w, step),
           UNCHANGED <<journalVars, chainVars, job>>,
           Fault \/ UNCHANGED faults,
           CopySound(w)'
    PROVE  PrivyInv'
PROOF
<1>1. /\ pc' = [pc EXCEPT ![w] = step]
      /\ UNCHANGED <<rows, signerLock, submitted, receipts, outcome, job>>
      BY DEF Goto, journalVars, chainVars
<1>2. faults' \in 0..MaxFaults
      BY FaultType DEF PrivyInv
<1>3. TypeOK'
      BY <1>1, <1>2 DEF PrivyInv, TypeOK
<1>4. \A v \in Worker \ {w} : Undisturbed(v)
      BY <1>1 DEF PrivyInv, TypeOK, Undisturbed
<1>5. \A q \in Request : RowKept(q)
      BY <1>1 DEF RowKept
<1>6. submitted' \subseteq {Sole(q) : q \in Request}
      BY <1>1 DEF PrivyInv, ChainSound
<1> QED BY <1>1, <1>3, <1>4, <1>5, <1>6, FrameInv

\* The steps of a worker that write nothing but where it stands.
Moves(w) ==
    \/ Resume(w) \/ ParseSucceeds(w) \/ Abandon(w)
    \/ MarkSigning(w) /\ ~ CanMarkSigning(w, job[w].req)
    \/ RecordSubmission(w) /\ ~ Holds(w, job[w].req)

\* Going on, or giving up without the lease, keeps the invariant.
LEMMA MovesInv ==
    ASSUME PrivyInv, NEW w \in Worker, Moves(w)
    PROVE  PrivyInv'
PROOF
<1> USE DEF Moves
<1>1. /\ UNCHANGED <<journalVars, chainVars, job>>
      /\ Fault \/ UNCHANGED faults
      /\ \/ Goto(w, "idle")
         \/ /\ Goto(w, "mark")
            /\ pc[w] = "resolve" /\ job[w].state = "queued"
         \/ /\ Goto(w, "receipt")
            /\ pc[w] = "resolve" /\ job[w].raw # NoTx
         \/ /\ Goto(w, "send")
            /\ pc[w] = "resolve" /\ job[w].state = "signing"
      BY DEF Resume, ParseSucceeds, Abandon, MarkSigning, RecordSubmission,
             journalVars, chainVars
<1>2. CopySound(w) /\ pc \in [Worker -> Step]
      BY DEF PrivyInv, TypeOK
<1>3. /\ rows' = rows /\ job' = job /\ submitted' = submitted
      BY <1>1 DEF journalVars, chainVars
<1>4. CASE Goto(w, "idle")
    <2>1. CopySound(w)'
          BY <1>2, <1>4 DEF Goto, CopySound
    <2> QED BY <1>1, <1>4, <2>1, MoveInv DEF Step
<1>5. CASE Goto(w, "mark") /\ pc[w] = "resolve" /\ job[w].state = "queued"
    <2>1. CopySound(w)'
          BY <1>2, <1>3, <1>5 DEF Goto, CopySound, Holds
    <2> QED BY <1>1, <1>5, <2>1, MoveInv DEF Step
<1>6. CASE Goto(w, "receipt") /\ pc[w] = "resolve" /\ job[w].raw # NoTx
    <2>1. CopySound(w)'
          BY <1>2, <1>3, <1>6 DEF Goto, CopySound, Holds
    <2> QED BY <1>1, <1>6, <2>1, MoveInv DEF Step
<1>7. CASE Goto(w, "send") /\ pc[w] = "resolve" /\ job[w].state = "signing"
    <2>1. CopySound(w)'
          BY <1>2, <1>3, <1>7 DEF Goto, CopySound, Holds, Unmarked
    <2> QED BY <1>1, <1>7, <2>1, MoveInv DEF Step
<1> QED BY <1>1, <1>4, <1>5, <1>6, <1>7

\* A row no worker holds gets its first state.
LEMMA EnqueueInv ==
    ASSUME PrivyInv, NEW r \in Request, Enqueue(r)
    PROVE  PrivyInv'
PROOF
<1>1. PICK n : n = Cardinality({q \in Request : rows[q].created > 0}) + 1
      OBVIOUS
<1>2. n \in Nat
      BY <1>1, RequestAssumption, FS_Subset, FS_CardinalityType
<1>3. rows[r] \in Row /\ rows[r].state = "absent"
      BY DEF PrivyInv, TypeOK, Enqueue, Insert
<1> DEFINE new == [rows[r] EXCEPT !.state = "queued", !.created = n]
<1>4. rows' = [rows EXCEPT ![r] = new]
      BY <1>1 DEF Enqueue, Insert, PrivyInv, TypeOK, Row
<1>5. /\ new \in Row
      /\ new.state = "queued" /\ new.owner = rows[r].owner /\ new.raw = rows[r].raw
      BY <1>2, <1>3 DEF Row, State
<1> HIDE DEF new
<1>6. /\ rows' \in [Request -> Row]
      /\ rows'[r].state = "queued" /\ rows'[r].owner = rows[r].owner
      /\ rows'[r].raw = rows[r].raw
      /\ \A q \in Request : q # r => rows'[q] = rows[q]
      BY <1>4, <1>5 DEF PrivyInv, TypeOK
<1>7. UNCHANGED <<signerLock, submitted, receipts, outcome, pc, job, faults>>
      BY DEF Enqueue, chainVars
<1>8. TypeOK'
      BY <1>6, <1>7 DEF PrivyInv, TypeOK
<1>9. RowSound(r) /\ rows[r].owner = NoWorker
      BY <1>3 DEF PrivyInv, RowSound
<1>10. RowSound(r)'
      BY <1>3, <1>6, <1>7, <1>9 DEF RowSound, Unmarked, Settled
<1>11. \A q \in Request : q # r => RowKept(q)
      BY <1>6, <1>7 DEF RowKept
<1>12. \A v \in Worker : Undisturbed(v)
      BY <1>3, <1>6, <1>7, <1>9, WorkerAssumption DEF Undisturbed, Unmarked
<1>13. submitted' \subseteq {Sole(q) : q \in Request}
      BY <1>7 DEF PrivyInv, ChainSound
<1> QED BY <1>7, <1>8, <1>10, <1>11, <1>12, <1>13, FrameInv

\* A lapsed lease leaves the owner's name.
LEMMA LeaseLapsesInv ==
    ASSUME PrivyInv, NEW r \in Request, LeaseLapses(r)
    PROVE  PrivyInv'
PROOF
<1> DEFINE new == [rows[r] EXCEPT !.leased = FALSE]
<1>1. rows[r] \in Row
      BY DEF PrivyInv, TypeOK
<1>2. rows' = [rows EXCEPT ![r] = new]
      BY DEF LeaseLapses, Lapse, PrivyInv, TypeOK, Row
<1>3. /\ new \in Row
      /\ new.state = rows[r].state /\ new.owner = rows[r].owner
      /\ new.raw = rows[r].raw
      BY <1>1 DEF Row
<1> HIDE DEF new
<1>4. UNCHANGED <<signerLock, submitted, receipts, outcome, pc, job>>
      BY DEF LeaseLapses, chainVars
<1>5. /\ rows' \in [Request -> Row]
      /\ \A q \in Request : /\ rows'[q].state = rows[q].state
                            /\ rows'[q].owner = rows[q].owner
                            /\ rows'[q].raw = rows[q].raw
      BY <1>2, <1>3 DEF PrivyInv, TypeOK
<1>6. faults' \in 0..MaxFaults
      BY FaultType DEF LeaseLapses, PrivyInv
<1>7. TypeOK'
      BY <1>4, <1>5, <1>6 DEF PrivyInv, TypeOK
<1>8. \A q \in Request : RowKept(q)
      BY <1>4, <1>5 DEF RowKept
<1>9. \A v \in Worker : Undisturbed(v)
      BY <1>4, <1>5 DEF Undisturbed
<1>10. submitted' \subseteq {Sole(q) : q \in Request}
      BY <1>4 DEF PrivyInv, ChainSound
<1> QED BY <1>4, <1>7, <1>8, <1>9, <1>10, FrameInv

\* The copy is taken from the row it claims.
LEMMA ClaimInv ==
    ASSUME PrivyInv, NEW w \in Worker, NEW r \in Request, Claim(w, r)
    PROVE  PrivyInv'
PROOF
<1> DEFINE new == [rows[r] EXCEPT !.owner = w, !.leased = TRUE]
           copy == [req |-> r, state |-> rows[r].state, raw |-> rows[r].raw]
<1>1. rows[r] \in Row
      BY DEF PrivyInv, TypeOK
<1>2. /\ rows' = [rows EXCEPT ![r] = new]
      /\ job' = [job EXCEPT ![w] = copy]
      /\ pc' = [pc EXCEPT ![w] = "resolve"]
      /\ UNCHANGED <<signerLock, submitted, receipts, outcome, faults>>
      BY DEF Claim, Lease, Goto, chainVars, PrivyInv, TypeOK, Row
<1>3. /\ new \in Row /\ new.owner = w
      /\ new.state = rows[r].state /\ new.raw = rows[r].raw
      BY <1>1 DEF Row
<1>4. /\ copy \in Job /\ copy.req = r
      /\ copy.state = rows[r].state /\ copy.raw = rows[r].raw
      BY <1>1 DEF Row, Job
<1> HIDE DEF new, copy
<1>5. /\ rows' \in [Request -> Row]
      /\ rows'[r] = new
      /\ \A q \in Request : q # r => rows'[q] = rows[q]
      BY <1>2, <1>3 DEF PrivyInv, TypeOK
<1>6. TypeOK'
      BY <1>2, <1>4, <1>5 DEF PrivyInv, TypeOK, Step
<1>7. rows[r].state \notin Settled \cup {"absent"}
      BY DEF Claim, Lease, Claimable, InFlight, Settled
<1>8. RowSound(r)'
      BY <1>2, <1>3, <1>5, <1>7 DEF PrivyInv, RowSound, Reverted
<1>9. \A q \in Request : q # r => RowKept(q)
      BY <1>2, <1>5 DEF RowKept
<1>10. \A v \in Worker \ {w} : Undisturbed(v)
      BY <1>2, <1>3, <1>5 DEF PrivyInv, TypeOK, Undisturbed
<1>11. CopySound(w)'
    <2>1. pc'[w] = "resolve" /\ job'[w] = copy
          BY <1>2 DEF PrivyInv, TypeOK
    <2>2. RowSound(r)
          BY DEF PrivyInv
    <2> QED BY <1>2, <1>3, <1>4, <1>5, <2>1, <2>2 DEF CopySound, RowSound
<1>12. submitted' \subseteq {Sole(q) : q \in Request}
      BY <1>2 DEF PrivyInv, ChainSound
<1> QED BY <1>2, <1>6, <1>8, <1>9, <1>10, <1>11, <1>12, FrameInv

\* The intent is stored while nothing was sent.
LEMMA MarkInv ==
    ASSUME PrivyInv, NEW w \in Worker, MarkSigning(w),
           CanMarkSigning(w, job[w].req)
    PROVE  PrivyInv'
PROOF
<1>1. PICK r \in Request : r = job[w].req
      BY DEF PrivyInv, TypeOK, Job
<1> DEFINE new == [rows[r] EXCEPT !.state = "signing"]
<1>2. rows[r] \in Row /\ rows[r].state = "queued" /\ Holds(w, r)
      BY <1>1 DEF PrivyInv, TypeOK, CanMarkSigning
<1>3. /\ rows' = [rows EXCEPT ![r] = new]
      /\ pc' = [pc EXCEPT ![w] = "send"]
      /\ UNCHANGED <<signerLock, submitted, receipts, outcome, job, faults>>
      BY <1>1 DEF MarkSigning, StoreSigning, Goto, chainVars, PrivyInv, TypeOK, Row
<1>4. /\ new \in Row
      /\ new.state = "signing" /\ new.owner = rows[r].owner /\ new.raw = rows[r].raw
      BY <1>2 DEF Row, State
<1> HIDE DEF new
<1>5. /\ rows' \in [Request -> Row]
      /\ rows'[r] = new
      /\ \A q \in Request : q # r => rows'[q] = rows[q]
      BY <1>3, <1>4 DEF PrivyInv, TypeOK
<1>6. TypeOK'
      BY <1>3, <1>5 DEF PrivyInv, TypeOK, Step
<1>7. RowSound(r)'
      BY <1>2, <1>3, <1>4, <1>5 DEF PrivyInv, RowSound, Unmarked, Settled
<1>8. \A q \in Request : q # r => RowKept(q)
      BY <1>3, <1>5 DEF RowKept
<1>9. \A v \in Worker \ {w} : Undisturbed(v)
      BY <1>2, <1>3, <1>4, <1>5 DEF PrivyInv, TypeOK, Undisturbed, Holds, Unmarked
<1>10. CopySound(w)'
      BY <1>1, <1>3, <1>4, <1>5 DEF PrivyInv, TypeOK, CopySound, Unmarked
<1>11. submitted' \subseteq {Sole(q) : q \in Request}
      BY <1>3 DEF PrivyInv, ChainSound
<1> QED BY <1>3, <1>6, <1>7, <1>8, <1>9, <1>10, <1>11, FrameInv

\* A marked request is sent, again or for the first time: one transaction.
LEMMA SendInv ==
    ASSUME PrivyInv, NEW w \in Worker, SendAnswered(w)
    PROVE  PrivyInv'
PROOF
<1>1. PICK r \in Request : r = job[w].req
      BY DEF PrivyInv, TypeOK, Job
<1>2. SubmissionFor(r) = {Sole(r)}
      BY OneSubmission DEF PrivyInv
<1>3. /\ submitted' = submitted \cup {Sole(r)}
      /\ job' = [job EXCEPT ![w].raw = Sole(r)]
      /\ pc' = [pc EXCEPT ![w] = "record"]
      /\ UNCHANGED <<rows, signerLock, receipts, outcome, faults>>
      BY <1>1, <1>2 DEF SendAnswered, Goto, journalVars
<1>4. Sole(r) \in Tx
      BY SoleType
<1>5. /\ job' \in [Worker -> Job]
      /\ job'[w].req = r /\ job'[w].raw = Sole(r)
      /\ \A v \in Worker \ {w} : job'[v] = job[v]
      BY <1>1, <1>3, <1>4 DEF PrivyInv, TypeOK, Job
<1>6. TypeOK'
      BY <1>3, <1>4, <1>5 DEF PrivyInv, TypeOK, Step
<1>7. rows[r].state \notin Unmarked
      /\ (Holds(w, r) => rows[r].state = "signing")
      BY <1>1 DEF PrivyInv, CopySound, SendAnswered
<1>8. \A q \in Request : RowKept(q)
    <2> SUFFICES ASSUME NEW q \in Request
                 PROVE  Sole(q) \in submitted' =>
                            Sole(q) \in submitted \/ rows[q].state \notin Unmarked
        BY <1>3 DEF RowKept
    <2>1. Sole(q) = Sole(r) => q = r
          BY DEF Sole
    <2> QED BY <1>3, <1>7, <2>1
<1>9. \A v \in Worker \ {w} : Undisturbed(v)
      BY <1>3, <1>5 DEF PrivyInv, TypeOK, Undisturbed
<1>10. CopySound(w)'
    <2>1. pc'[w] = "record" /\ rows' = rows /\ Sole(r) \in submitted'
          BY <1>3 DEF PrivyInv, TypeOK
    <2> QED BY <1>5, <1>7, <2>1 DEF CopySound, Holds
<1>11. submitted' \subseteq {Sole(q) : q \in Request}
      BY <1>3 DEF PrivyInv, ChainSound
<1> QED BY <1>3, <1>6, <1>8, <1>9, <1>10, <1>11, FrameInv

\* The hash Privy answered is stored.
LEMMA RecordInv ==
    ASSUME PrivyInv, NEW w \in Worker, RecordSubmission(w),
           Holds(w, job[w].req)
    PROVE  PrivyInv'
PROOF
<1>1. PICK r \in Request : r = job[w].req
      BY DEF PrivyInv, TypeOK, Job
<1>2. /\ rows[r] \in Row /\ Sole(r) \in Tx
      /\ rows[r].state = "signing" /\ Holds(w, r)
      /\ job[w].raw = Sole(r) /\ Sole(r) \in submitted
      BY <1>1, SoleType DEF PrivyInv, TypeOK, CopySound, RecordSubmission
<1>3. PICK tx \in Tx : tx = Sole(r)
      BY <1>2
<1> DEFINE new == [rows[r] EXCEPT !.state = "submitted", !.raw = tx]
<1>4. /\ rows' = [rows EXCEPT ![r] = new]
      /\ pc' = [pc EXCEPT ![w] = "receipt"]
      /\ UNCHANGED <<signerLock, submitted, receipts, outcome, job, faults>>
    <2>1. StoreSubmission(r, tx)
          BY <1>1, <1>2, <1>3 DEF RecordSubmission
    <2>2. rows' = [rows EXCEPT ![r] = new]
          BY <2>1 DEF StoreSubmission, PrivyInv, TypeOK, Row
    <2> QED BY <1>1, <1>2, <2>2 DEF RecordSubmission, Goto, chainVars
<1>5. /\ new \in Row
      /\ new.state = "submitted" /\ new.owner = rows[r].owner /\ new.raw = Sole(r)
      BY <1>2, <1>3 DEF Row, State, InFlight
<1> HIDE DEF new
<1>6. /\ rows' \in [Request -> Row]
      /\ rows'[r] = new
      /\ \A q \in Request : q # r => rows'[q] = rows[q]
      BY <1>4, <1>5 DEF PrivyInv, TypeOK
<1>7. TypeOK'
      BY <1>4, <1>6 DEF PrivyInv, TypeOK, Step
<1>8. RowSound(r)'
      BY <1>2, <1>4, <1>5, <1>6 DEF PrivyInv, RowSound, Unmarked, Settled
<1>9. \A q \in Request : q # r => RowKept(q)
      BY <1>4, <1>6 DEF RowKept
<1>10. \A v \in Worker \ {w} : Undisturbed(v)
      BY <1>2, <1>4, <1>5, <1>6 DEF PrivyInv, TypeOK, Undisturbed, Holds, Unmarked
<1>11. CopySound(w)'
      BY <1>1, <1>2, <1>4 DEF PrivyInv, TypeOK, CopySound
<1>12. submitted' \subseteq {Sole(q) : q \in Request}
      BY <1>4 DEF PrivyInv, ChainSound
<1> QED BY <1>4, <1>7, <1>8, <1>9, <1>10, <1>11, <1>12, FrameInv

-----------------------------------------------------------------------------
(* Inclusions *)

\* Each transaction is included once, so each request is recorded at most once.
LEMMA Inclusion ==
    ASSUME PrivyInv, Mine
    PROVE  \E r \in Request, status \in {"success", "reverted"} :
              /\ Sole(r) \in submitted
              /\ ~ Included(Sole(r))
              /\ receipts' = receipts \cup {[tx |-> Sole(r), status |-> status]}
              /\ outcome[r] = "UNSEEN"
              /\ \/ /\ status = "success"
                    /\ \E o \in Outcome \ {"UNSEEN"} : outcome' = [outcome EXCEPT ![r] = o]
                 \/ status = "reverted" /\ outcome' = outcome
              /\ UNCHANGED <<rows, signerLock, submitted, pc, job, faults>>
PROOF
<1>1. PICK tx \in submitted, status \in {"success", "reverted"} : Include(tx, status)
      BY DEF Mine
<1>2. PICK r \in Request : tx = Sole(r)
      BY DEF PrivyInv, ChainSound
<1>3. tx.req = r
      BY <1>2 DEF Sole
<1>4. outcome[r] = "UNSEEN"
    <2>1. [tx |-> tx, status |-> "success"] \notin receipts
          BY <1>1 DEF Include, Included
    <2> QED BY <1>2, <2>1 DEF PrivyInv, ChainSound
<1> QED BY <1>1, <1>2, <1>3, <1>4 DEF Include, journalVars

\* An inclusion keeps the invariant: it contradicts no verdict already given.
LEMMA MineInv ==
    ASSUME PrivyInv, Mine
    PROVE  PrivyInv'
PROOF
<1>1. PICK r \in Request, status \in {"success", "reverted"} :
          /\ Sole(r) \in submitted
          /\ ~ Included(Sole(r))
          /\ receipts' = receipts \cup {[tx |-> Sole(r), status |-> status]}
          /\ outcome[r] = "UNSEEN"
          /\ \/ /\ status = "success"
                /\ \E o \in Outcome \ {"UNSEEN"} : outcome' = [outcome EXCEPT ![r] = o]
             \/ status = "reverted" /\ outcome' = outcome
          /\ UNCHANGED <<rows, signerLock, submitted, pc, job, faults>>
      BY Inclusion
<1>2. PICK new \in Receipt : new = [tx |-> Sole(r), status |-> status]
      BY SoleType DEF Receipt
<1>3. new.tx = Sole(r) /\ new.status = status
      BY <1>2
<1>4. receipts' = receipts \cup {new}
      BY <1>1, <1>2
<1>5. /\ outcome' \in [Request -> Outcome]
      /\ \A q \in Request : q # r => outcome'[q] = outcome[q]
      /\ outcome'[r] # "UNSEEN" <=> status = "success"
      BY <1>1 DEF PrivyInv, TypeOK
<1>6. TypeOK'
      BY <1>1, <1>4, <1>5 DEF PrivyInv, TypeOK
<1>7. ChainSound'
    <2>1. \A e \in receipts : e.tx # Sole(r)
          BY <1>1 DEF Included
    <2>2. \A e \in receipts' : e.tx \in submitted'
          BY <1>1, <1>3, <1>4 DEF PrivyInv, ChainSound
    <2>3. \A e, f \in receipts' : e.tx = f.tx => e = f
          BY <1>3, <1>4, <2>1 DEF PrivyInv, ChainSound
    <2>4. ASSUME NEW q \in Request
          PROVE  outcome'[q] # "UNSEEN" <=>
                    [tx |-> Sole(q), status |-> "success"] \in receipts'
        <3>1. CASE q = r
            <4>1. [tx |-> Sole(r), status |-> "success"] \notin receipts
                  BY <2>1
            <4>2. [tx |-> Sole(r), status |-> "success"] = new <=> status = "success"
                  BY <1>2, <1>3
            <4> QED BY <1>4, <1>5, <3>1, <4>1, <4>2
        <3>2. CASE q # r
            <4>1. Sole(q) # Sole(r)
                  BY <3>2 DEF Sole
            <4>2. [tx |-> Sole(q), status |-> "success"] # new
                  BY <1>3, <4>1
            <4> QED BY <1>4, <1>5, <3>2, <4>2 DEF PrivyInv, ChainSound
        <3> QED BY <3>1, <3>2
    <2> QED BY <1>1, <2>2, <2>3, <2>4 DEF PrivyInv, ChainSound
<1>8. ASSUME NEW q \in Request PROVE RowSound(q)'
    <2>1. outcome[q] # "UNSEEN" => outcome'[q] = outcome[q]
          BY <1>1, <1>5
    <2>2. Reverted(Sole(q)) => Reverted(Sole(q))'
          BY <1>4 DEF Reverted
    <2> QED BY <1>1, <2>1, <2>2 DEF PrivyInv, RowSound
<1>9. \A v \in Worker : CopySound(v)'
      BY <1>1 DEF PrivyInv, CopySound, Holds
<1> QED BY <1>6, <1>7, <1>8, <1>9 DEF PrivyInv

-----------------------------------------------------------------------------
(* The steps, by what they do *)

\* Each way to end a tick is justified by what the worker has just read.
LEMMA EndsAreVerdicts ==
    ASSUME PrivyInv, NEW w \in Worker,
           \/ ResolveFails(w) \/ ParseClarifies(w) \/ SendDenied(w)
           \/ SendAmbiguous(w) \/ ReceiptReconciles(w) \/ ReceiptUnresolved(w)
    PROVE  \E state \in Settled \cup {"unknown"} : Verdict(w, state)
PROOF
<1>1. PICK r \in Request : r = job[w].req
      BY DEF PrivyInv, TypeOK, Job
<1>2. CopySound(w)
      BY DEF PrivyInv
<1>3. CASE ResolveFails(w) \/ SendDenied(w)
      BY <1>3 DEF ResolveFails, SendDenied, Verdict, Justified, Settled, chainVars
<1>4. CASE ParseClarifies(w)
    <2>1. Holds(w, r) => rows[r].state = "queued"
          BY <1>1, <1>2, <1>4 DEF ParseClarifies, CopySound
    <2> QED BY <1>1, <1>4, <2>1 DEF ParseClarifies, Verdict, Justified, Settled, chainVars
<1>5. CASE SendAmbiguous(w)
    <2>1. SubmissionFor(r) = {Sole(r)}
          BY OneSubmission DEF PrivyInv
    <2>2. rows[r].state \notin Unmarked
          BY <1>1, <1>2, <1>5 DEF SendAmbiguous, CopySound
    <2>3. submitted' = submitted \/ submitted' = submitted \cup {Sole(r)}
          BY <1>1, <1>5, <2>1 DEF SendAmbiguous
    <2>4. Verdict(w, "unknown")
          BY <1>1, <1>5, <2>2, <2>3 DEF SendAmbiguous, Verdict, Justified
    <2> QED BY <2>4
<1>6. CASE ReceiptUnresolved(w)
      BY <1>6 DEF ReceiptUnresolved, Verdict, Justified, Settled, chainVars
<1>7. CASE ReceiptReconciles(w)
    <2>1. job[w].raw = Sole(r) /\ Included(Sole(r))
          BY <1>1, <1>2, <1>7 DEF ReceiptReconciles, CopySound
    <2>2. PICK e \in receipts : e.tx = Sole(r)
          BY <2>1 DEF Included
    <2>3. PICK status \in {"success", "reverted"} :
              e = [tx |-> Sole(r), status |-> status]
          BY <2>2 DEF PrivyInv, TypeOK, Receipt
    <2>4. Reverted(Sole(r)) \/ outcome[r] # "UNSEEN"
          BY <2>2, <2>3 DEF Reverted, PrivyInv, ChainSound
    <2>5. outcome[r] \in {"UNSEEN", "EXECUTED", "REFUSED"}
          BY DEF PrivyInv, TypeOK, Outcome
    <2>6. PICK state : state = ReconciledState(r, Sole(r))
          OBVIOUS
    <2>7. /\ state \in Settled
          /\ Justified(r, state)
          BY <2>4, <2>5, <2>6 DEF ReconciledState, Justified, Settled
    <2>8. Verdict(w, state)
          BY <1>1, <1>7, <2>1, <2>6, <2>7 DEF ReceiptReconciles, Verdict, chainVars
    <2> QED BY <2>7, <2>8
<1> QED BY <1>3, <1>4, <1>5, <1>6, <1>7

\* Every step is one of the kinds treated above.
LEMMA StepKinds ==
    ASSUME PrivyInv, Next
    PROVE  \/ \E r \in Request : Enqueue(r) \/ LeaseLapses(r)
           \/ Mine
           \/ \E w \in Worker, r \in Request : Claim(w, r)
           \/ \E w \in Worker, state \in Settled \cup {"unknown"} : Verdict(w, state)
           \/ \E w \in Worker :
                 \/ Moves(w)
                 \/ MarkSigning(w) /\ CanMarkSigning(w, job[w].req)
                 \/ SendAnswered(w)
                 \/ RecordSubmission(w) /\ Holds(w, job[w].req)
PROOF BY EndsAreVerdicts DEF Next, Tick, Moves

-----------------------------------------------------------------------------
\* The invariant holds at first.
LEMMA PrivyInit == Init => PrivyInv
PROOF
<1> SUFFICES ASSUME Init PROVE PrivyInv
    OBVIOUS
<1> USE DEF Init, JournalInit
<1>1. TypeOK
    <2>1. NoRow \in Row
          BY DEF NoRow, Row, State
    <2>2. job \in [Worker -> Job]
          BY DEF Job, State
    <2> QED BY <2>1, <2>2, FaultAssumption DEF TypeOK, Outcome, Step
<1>2. ChainSound
      BY DEF ChainSound
<1>3. \A r \in Request : RowSound(r)
      BY DEF RowSound, NoRow
<1>4. \A w \in Worker : CopySound(w)
      BY DEF CopySound
<1> QED BY <1>1, <1>2, <1>3, <1>4 DEF PrivyInv

\* Every step keeps the invariant.
LEMMA PrivyStep == PrivyInv /\ [Next]_vars => PrivyInv'
PROOF
<1> SUFFICES ASSUME PrivyInv, [Next]_vars PROVE PrivyInv'
    OBVIOUS
<1>1. CASE UNCHANGED vars
      BY <1>1 DEF vars, journalVars, chainVars, PrivyInv, TypeOK, ChainSound,
                  RowSound, CopySound, Reverted, Holds
<1>2. CASE Next
      BY <1>2, StepKinds, EnqueueInv, LeaseLapsesInv, MineInv, ClaimInv, VerdictInv,
         MovesInv, MarkInv, SendInv, RecordInv
<1> QED BY <1>1, <1>2

\* The inductive invariant: one transaction per request, rows and workers' copies
\* that agree with it, and verdicts that agree with the chain.
THEOREM PrivyInvariance == Spec => []PrivyInv
PROOF BY PrivyInit, PrivyStep, PTL DEF Spec

\* Whichever worker crashes or stalls between storing an intent and sending it, a
\* request Privy has heard of is never parsed again (worker.ts:490).
THEOREM SentIsMarked == Spec => []MarkedBeforeSent
PROOF
<1>1. PrivyInv => MarkedBeforeSent
    <2> SUFFICES ASSUME PrivyInv, NEW r \in Request, rows[r].state \in Unmarked
                 PROVE  SubmissionsOf(r) = {}
        BY DEF MarkedBeforeSent, Unmarked
    <2>1. Sole(r) \notin submitted
          BY DEF PrivyInv, RowSound
    <2> QED BY <2>1, OneSubmission DEF PrivyInv
<1> QED BY <1>1, PrivyInvariance, PTL

-----------------------------------------------------------------------------
(* The refinement *)

\* What each owner is told.
ToldNow == [r \in Request |-> Answer(rows[r].state)]

\* At first nobody was told anything and nothing took effect.
LEMMA LifecycleInitially == Init => Lifecycle!LifecycleInit
PROOF
<1> SUFFICES ASSUME Init PROVE Lifecycle!LifecycleInit
    OBVIOUS
<1>1. \A r \in Request : Answer(rows[r].state) = "absent"
      BY DEF Init, JournalInit, NoRow, Answer, InFlight
<1> QED BY <1>1 DEF Init, Lifecycle!LifecycleInit

\* A new row is an accepted request.
LEMMA EnqueueAccepts ==
    ASSUME PrivyInv, NEW r \in Request, Enqueue(r)
    PROVE  Lifecycle!Accept(r)
PROOF
<1>1. /\ rows[r].state = "absent" /\ rows'[r].state = "queued"
      /\ \A q \in Request : q # r => rows'[q] = rows[q]
      BY DEF Enqueue, Insert, PrivyInv, TypeOK, Row
<1>2. /\ ToldNow[r] = "absent"
      /\ ToldNow' = [ToldNow EXCEPT ![r] = "working"]
      BY <1>1 DEF ToldNow, Answer, InFlight
<1> QED BY <1>2 DEF Lifecycle!Accept, ToldNow, Enqueue, chainVars

\* An inclusion takes effect once, and only for a request told no final verdict
\* but "blocked".
LEMMA InclusionTakesEffect ==
    ASSUME PrivyInv, Mine
    PROVE  \/ \E r \in Request, o \in Lifecycle!Effect : Lifecycle!TakeEffect(r, o)
           \/ UNCHANGED <<ToldNow, outcome>>
PROOF
<1>1. PICK r \in Request, status \in {"success", "reverted"} :
          /\ Sole(r) \in submitted
          /\ ~ Included(Sole(r))
          /\ outcome[r] = "UNSEEN"
          /\ \/ \E o \in Outcome \ {"UNSEEN"} : outcome' = [outcome EXCEPT ![r] = o]
             \/ outcome' = outcome
          /\ rows' = rows
      BY Inclusion
<1>2. ToldNow' = ToldNow
      BY <1>1 DEF ToldNow
<1>3. CASE outcome' = outcome
      BY <1>2, <1>3
<1>4. ASSUME NEW o \in Outcome \ {"UNSEEN"}, outcome' = [outcome EXCEPT ![r] = o]
      PROVE  o \in Lifecycle!Effect /\ Lifecycle!TakeEffect(r, o)
    <2>1. /\ RowSound(r)
          /\ rows[r].state \in State
          BY DEF PrivyInv, TypeOK, Row
    <2>2. ~ Reverted(Sole(r))
        <3>1. [tx |-> Sole(r), status |-> "reverted"].tx = Sole(r)
              OBVIOUS
        <3> QED BY <1>1, <3>1 DEF Reverted, Included
    <2>3. rows[r].state \notin Unmarked
                            \cup {"executed", "refused", "technical_failure"}
          BY <1>1, <2>1, <2>2 DEF RowSound
    <2>4. ToldNow[r] \in Lifecycle!Open \cup {"signer_blocked"}
          BY <2>1, <2>3 DEF ToldNow, Answer, State, Settled, InFlight, Unmarked,
                            Lifecycle!Open
    <2> QED BY <1>1, <1>2, <1>4, <2>4
               DEF Lifecycle!TakeEffect, ToldNow, Lifecycle!Effect, Outcome
<1> QED BY <1>1, <1>3, <1>4

\* Ending a tick parks the request or settles it with a verdict that fits.
LEMMA VerdictSettles ==
    ASSUME PrivyInv, NEW w \in Worker, NEW state \in Settled \cup {"unknown"},
           Verdict(w, state)
    PROVE  \/ \E r \in Request : Lifecycle!Park(r)
           \/ \E r \in Request, verdict \in Lifecycle!Final : Lifecycle!Settle(r, verdict)
           \/ UNCHANGED <<ToldNow, outcome>>
PROOF
<1>1. PICK r \in Request : r = job[w].req
      BY DEF PrivyInv, TypeOK, Job
<1>2. outcome' = outcome /\ state \in State
      BY DEF Verdict, State
<1>3. /\ \A q \in Request : q # r \/ ~ Holds(w, r) => rows'[q] = rows[q]
      /\ Holds(w, r) => rows'[r].state = state
      BY <1>1, <1>2, FinishRows DEF Verdict, FinishAs, PrivyInv
<1>4. CASE ~ Holds(w, r)
      BY <1>2, <1>3, <1>4 DEF ToldNow
<1>5. CASE Holds(w, r)
    <2>1. /\ rows[r].state \in State \ (Settled \cup {"absent"})
          /\ RowSound(r)
          BY <1>5, WorkerAssumption DEF Holds, PrivyInv, TypeOK, Row, RowSound
    <2>2. ToldNow[r] \in Lifecycle!Open
          BY <2>1 DEF ToldNow, Answer, State, Settled, InFlight, Lifecycle!Open
    <2>3. Answer(state) = state
          BY DEF Answer, Settled, InFlight
    <2>4. ToldNow' = [ToldNow EXCEPT ![r] = state]
          BY <1>3, <1>5, <2>3 DEF ToldNow
    <2>5. Justified(r, state)
          BY <1>1, <1>5 DEF Verdict
    <2>6. CASE state = "unknown"
        <3>1. CASE ToldNow[r] = "working"
              BY <1>2, <2>4, <2>6, <3>1 DEF Lifecycle!Park, ToldNow
        <3>2. CASE ToldNow[r] = "unknown"
              BY <1>2, <2>4, <2>6, <3>2 DEF ToldNow
        <3> QED BY <2>2, <3>1, <3>2 DEF Lifecycle!Open
    <2>7. CASE state \in Settled
        <3>1. outcome[r] \in {"UNSEEN", "EXECUTED", "REFUSED"}
              BY DEF PrivyInv, TypeOK, Outcome
        <3>2. state \in {"technical_failure", "needs_clarification"} =>
                  outcome[r] = "UNSEEN"
            <4>1. Reverted(Sole(r)) =>
                      [tx |-> Sole(r), status |-> "success"] \notin receipts
                  BY DEF Reverted, PrivyInv, ChainSound
            <4>2. Sole(r) \notin submitted =>
                      [tx |-> Sole(r), status |-> "success"] \notin receipts
                  BY DEF PrivyInv, ChainSound
            <4> QED BY <2>1, <2>5, <4>1, <4>2
                       DEF Justified, RowSound, Unmarked, PrivyInv, ChainSound
        <3>3. outcome[r] \in Lifecycle!EffectOf(state)
              BY <2>5, <2>7, <3>1, <3>2
                 DEF Justified, Settled, Lifecycle!EffectOf, Lifecycle!Effect
        <3>4. Lifecycle!Settle(r, state)
              BY <1>2, <2>2, <2>4, <3>3 DEF Lifecycle!Settle, ToldNow
        <3> QED BY <2>7, <3>4 DEF Settled, Lifecycle!Final
    <2> QED BY <2>6, <2>7
<1> QED BY <1>4, <1>5

\* The remaining steps change no answer: the row stays open.
LEMMA OtherStepsAreUnseen ==
    ASSUME PrivyInv,
           \/ \E r \in Request : LeaseLapses(r)
           \/ \E w \in Worker, r \in Request : Claim(w, r)
           \/ \E w \in Worker :
                 \/ Moves(w)
                 \/ MarkSigning(w) /\ CanMarkSigning(w, job[w].req)
                 \/ SendAnswered(w)
                 \/ RecordSubmission(w) /\ Holds(w, job[w].req)
    PROVE  UNCHANGED <<ToldNow, outcome>>
PROOF
<1> SUFFICES /\ outcome' = outcome
             /\ \A q \in Request : Answer(rows'[q].state) = Answer(rows[q].state)
    BY DEF ToldNow
<1>1. ASSUME NEW r \in Request, LeaseLapses(r) \/ \E w \in Worker : Claim(w, r)
      PROVE  /\ outcome' = outcome
             /\ \A q \in Request : rows'[q].state = rows[q].state
    <2>1. \/ Lapse(r)
          \/ \E w \in Worker : Lease(w, r)
          BY <1>1 DEF LeaseLapses, Claim
    <2>2. rows[r] \in Row /\ rows \in [Request -> Row]
          BY DEF PrivyInv, TypeOK
    <2>3. Lapse(r) => \A q \in Request : rows'[q].state = rows[q].state
          BY <2>2 DEF Lapse, Row
    <2>4. ASSUME NEW w \in Worker, Lease(w, r)
          PROVE  \A q \in Request : rows'[q].state = rows[q].state
          BY <2>2, <2>4 DEF Lease, Row
    <2> QED BY <1>1, <2>1, <2>3, <2>4 DEF LeaseLapses, Claim, chainVars
<1>2. ASSUME NEW w \in Worker, Moves(w) \/ SendAnswered(w)
      PROVE  outcome' = outcome /\ rows' = rows
      BY <1>2 DEF Moves, Resume, ParseSucceeds, Abandon, MarkSigning, RecordSubmission,
                  SendAnswered, journalVars, chainVars
<1>3. ASSUME NEW w \in Worker,
             \/ MarkSigning(w) /\ CanMarkSigning(w, job[w].req)
             \/ RecordSubmission(w) /\ Holds(w, job[w].req)
      PROVE  /\ outcome' = outcome
             /\ \A q \in Request : Answer(rows'[q].state) = Answer(rows[q].state)
    <2>1. PICK r \in Request : r = job[w].req
          BY DEF PrivyInv, TypeOK, Job
    <2>2. rows[r].state \in {"queued", "signing"}
          BY <1>3, <2>1 DEF PrivyInv, CopySound, RecordSubmission, CanMarkSigning
    <2>3. /\ outcome' = outcome
          /\ rows'[r].state \in {"signing", "submitted"}
          /\ \A q \in Request : q # r => rows'[q] = rows[q]
          BY <1>3, <2>1 DEF MarkSigning, StoreSigning, RecordSubmission,
                            StoreSubmission, chainVars, PrivyInv, TypeOK, Row
    <2> QED BY <2>2, <2>3 DEF Answer, InFlight
<1> QED BY <1>1, <1>2, <1>3

\* Every step is a step of the abstract lifecycle, or unseen.
LEMMA LifecycleStep ==
    PrivyInv /\ [Next]_vars =>
        Lifecycle!LifecycleNext \/ UNCHANGED <<ToldNow, outcome>>
PROOF
<1> SUFFICES ASSUME PrivyInv, [Next]_vars
             PROVE  Lifecycle!LifecycleNext \/ UNCHANGED <<ToldNow, outcome>>
    OBVIOUS
<1>1. ASSUME NEW r \in Request, Enqueue(r) PROVE Lifecycle!LifecycleNext
    <2>1. Lifecycle!Accept(r)
          BY <1>1, EnqueueAccepts
    <2> QED BY <2>1 DEF Lifecycle!LifecycleNext
<1>2. CASE Mine
      BY <1>2, InclusionTakesEffect DEF Lifecycle!LifecycleNext
<1>3. ASSUME NEW w \in Worker, NEW state \in Settled \cup {"unknown"}, Verdict(w, state)
      PROVE  Lifecycle!LifecycleNext \/ UNCHANGED <<ToldNow, outcome>>
      BY <1>3, VerdictSettles DEF Lifecycle!LifecycleNext
<1>4. CASE UNCHANGED vars
      BY <1>4 DEF vars, journalVars, chainVars, ToldNow
<1> QED BY <1>1, <1>2, <1>3, <1>4, StepKinds, OtherStepsAreUnseen

\* Sent again after a crash, by two workers at once or after a lost answer, a
\* request takes effect at most once, never after a final "no", and the verdict it
\* gets agrees with its effect (worker.ts:432, runPrivy; worker.ts:503, submitPrivy).
THEOREM PrivyKeepsTheLifecycle == Spec => PrivyImplementsLifecycle
PROOF
<1>1. PrivyInv /\ [Next]_vars => [Lifecycle!LifecycleNext]_(Lifecycle!lifecycleVars)
      BY LifecycleStep DEF ToldNow, Lifecycle!lifecycleVars
<1> QED BY <1>1, LifecycleInitially, PrivyInvariance, PTL
           DEF Spec, PrivyImplementsLifecycle, Lifecycle!LifecycleSpec

=============================================================================
