--------------------------- MODULE MCPaymentWorker ---------------------------
(***************************************************************************)
(* Small instances of PaymentWorker for TLC.                               *)
(***************************************************************************)
EXTENDS PaymentWorker, TLC

\* Requests differ only by the order they arrive in, workers only by name.
Symmetry == Permutations(Request) \cup Permutations(Worker)

\* Requests differ only by arrival order, so one order stands for all of them.
ArrivalOrder == CHOOSE f \in [Request -> 1..Cardinality(Request)] :
                    \A q, r \in Request : f[q] = f[r] => q = r

\* The state in which every request has been enqueued and no worker has started.
BacklogInit ==
    /\ rows = [r \in Request |-> [NoRow EXCEPT !.state = "queued",
                                               !.created = ArrivalOrder[r]]]
    /\ signerLock = NoWorker
    /\ ArcInit
    /\ pc = [w \in Worker |-> "idle"]
    /\ job = [w \in Worker |-> [req |-> CHOOSE r \in Request : TRUE,
                                state |-> "absent", nonce |-> 0, raw |-> NoTx]]
    /\ signatures = [r \in Request |-> 0]
    /\ faults = 0

BacklogSpec == BacklogInit /\ [][Next]_vars /\ Fairness

=============================================================================
