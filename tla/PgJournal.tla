------------------------------- MODULE PgJournal -------------------------------
(***************************************************************************)
(* The durable request journal (agent/src/db/journal.ts): one row per      *)
(* payment request, leased to one worker at a time.  Every operation is    *)
(* one SQL statement or one transaction; reserving a nonce is a            *)
(* transaction that calls the chain in the middle, so it is three steps    *)
(* under the signer's advisory lock.                                       *)
(*                                                                         *)
(* An operation that finds its lease gone updates no row and throws        *)
(* LEASE_LOST: the operators below that take a worker say what the         *)
(* statement does to the rows, and `Holds' whether it does it.             *)
(***************************************************************************)
EXTENDS PaymentTypes, FiniteSets

CONSTANTS
    Worker,     \* worker ids (hostname:pid)
    NoWorker,   \* lease_owner IS NULL
    NoNonce     \* tx_nonce IS NULL

ASSUME WorkerAssumption == NoWorker \notin Worker
ASSUME NonceAssumption == NoNonce \notin Nat

VARIABLES
    rows,       \* the requests table; state "absent" before INSERT
    signerLock  \* holder of pg_advisory_xact_lock(signer address)

journalVars == <<rows, signerLock>>

InFlight == {"signing_prepared", "signed", "submitted"}
Settled == {"executed", "refused", "needs_clarification", "signer_blocked",
            "technical_failure"}
State == {"absent", "queued", "signing", "unknown"} \cup InFlight \cup Settled

NoRow == [state |-> "absent", created |-> 0, owner |-> NoWorker,
          leased |-> FALSE, nonce |-> NoNonce, raw |-> NoTx]

JournalInit ==
    /\ rows = [r \in Request |-> NoRow]
    /\ signerLock = NoWorker

\* enqueue: INSERT ... ON CONFLICT DO NOTHING; a duplicate changes nothing.
Insert(r) ==
    /\ rows[r].state = "absent"
    /\ rows' = [rows EXCEPT ![r].state = "queued",
                    ![r].created = Cardinality({q \in Request : rows[q].created > 0}) + 1]

\* Fault: an unknown row is left to the user.
ClaimableUnlessUnknown(r) ==
    rows[r].state \in {"queued", "signing"} \cup InFlight /\ ~ rows[r].leased

\* The states claimNext selects.
Claimable(r) ==
    /\ \/ rows[r].state \in {"queued", "signing"} \cup InFlight
       \/ rows[r].state = "unknown" /\ rows[r].raw # NoTx
    /\ ~ rows[r].leased

\* ORDER BY created_at LIMIT 1.
Oldest(r) == \A q \in Request : Claimable(q) => rows[r].created <= rows[q].created

\* claimNext.  Its own advisory lock is keyed by the checksummed address and
\* prepareSigning's by the lower-cased one, so a claim never waits for a
\* reservation; it only keeps two claims apart, and each is one step here.
Lease(w, r) ==
    /\ Claimable(r)
    /\ Oldest(r)
    /\ rows' = [rows EXCEPT ![r].owner = w, ![r].leased = TRUE]

\* lease_until passes; the owner's name stays until the next claim or finish.
Lapse(r) ==
    /\ rows[r].leased
    /\ rows' = [rows EXCEPT ![r].leased = FALSE]

\* Fault: writes are not fenced by lease_owner.
HoldsAnyway(w, r) == TRUE

\* WHERE lease_owner = $2.  The lease's end date is not looked at.
Holds(w, r) == rows[r].owner = w

-----------------------------------------------------------------------------
(* prepareSigning *)

\* Fault: the advisory lock is not taken.
LockFreeAlways == TRUE

\* pg_advisory_xact_lock blocks until the signer's lock is free.
LockFree == signerLock = NoWorker

\* The nonces the reservation looks at: rows of other requests in flight.
InFlightNonces(r) ==
    {rows[q].nonce : q \in {p \in Request \ {r} : rows[p].state \in InFlight}}

\* Fault: rows in flight are added to the pending count, which knows some already.
NoncesCountedTwice(r, pending) == {pending + Cardinality(InFlightNonces(r))}

\* max(pending nonce, highest in-flight nonce + 1).  A set of one.
NoncesAfter(r, pending) ==
    {n \in {pending} \cup {k + 1 : k \in InFlightNonces(r)} :
        n >= pending /\ \A k \in InFlightNonces(r) : n > k}

\* The final UPDATE, whose guard is tested again.
CanReserve(w, r) == Holds(w, r) /\ rows[r].state = "queued"

Reserve(r, nonce) ==
    rows' = [rows EXCEPT ![r].state = "signing_prepared", ![r].nonce = nonce]

-----------------------------------------------------------------------------
(* The retained Privy path: markSigning and recordSubmission *)

CanMarkSigning(w, r) == Holds(w, r) /\ rows[r].state = "queued"

StoreSigning(r) == rows' = [rows EXCEPT ![r].state = "signing"]

\* The hash the provider answered; the state is not looked at.
StoreSubmission(r, tx) ==
    rows' = [rows EXCEPT ![r].state = "submitted", ![r].raw = tx]

-----------------------------------------------------------------------------
CanRecordSigned(w, r) ==
    Holds(w, r) /\ rows[r].state \in {"signing_prepared", "signed"}

\* Fault: the state moves on without the bytes.
StoreStateOnly(r, tx) == rows' = [rows EXCEPT ![r].state = "signed"]

StoreSigned(r, tx) ==
    rows' = [rows EXCEPT ![r].state = "signed", ![r].raw = tx]

\* `unknown' never goes back to `submitted'.
CanRecordBroadcast(w, r) == Holds(w, r) /\ rows[r].state \in {"signed", "submitted"}

StoreBroadcast(r) == rows' = [rows EXCEPT ![r].state = "submitted"]

\* Fault: lease_until is not cleared.
FinishKeepingLease(w, r, state) ==
    rows' = IF Holds(w, r)
            THEN [rows EXCEPT ![r].state = state, ![r].owner = NoWorker]
            ELSE rows

\* finish: any state is overwritten, and the lease is given up.
Finish(w, r, state) ==
    rows' = IF Holds(w, r)
            THEN [rows EXCEPT ![r].state = state, ![r].owner = NoWorker,
                              ![r].leased = FALSE]
            ELSE rows

=============================================================================
