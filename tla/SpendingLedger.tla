----------------------------- MODULE SpendingLedger -----------------------------
(***************************************************************************)
(* What the account contract promises its owner: a ledger of budgets in    *)
(* which every payment is one step.  Money, budget and verdict change      *)
(* together, at most one budget is open, and a closed one is never touched *)
(* again.  GolAccount implements it across the call into the token.        *)
(***************************************************************************)
EXTENDS Integers

CONSTANTS
    Budget,
    RequestKey,   \* pairs of a budget and a request
    Amount,       \* a set of natural numbers
    Party,        \* everyone who may hold the money
    Account       \* the party that spends

VARIABLES
    status,    \* of each budget
    cap,
    spent,
    verdict,   \* of each request, once and for all: who was paid how much
    holding    \* what each party has

None == [kind |-> "none"]
Refused == [kind |-> "refused"]
Paid(to, amount) == [kind |-> "paid", to |-> to, amount |-> amount]

ledgerVars == <<status, cap, spent, verdict, holding>>

Transfer(from, to, amount) ==
    [p \in Party |-> holding[p] + (IF p = to THEN amount ELSE 0)
                                - (IF p = from THEN amount ELSE 0)]

LedgerInit ==
    /\ status = [b \in Budget |-> "none"]
    /\ cap = [b \in Budget |-> 0]
    /\ spent = [b \in Budget |-> 0]
    /\ verdict = [k \in RequestKey |-> None]
    /\ holding \in [Party -> Nat]
    /\ holding[Account] = 0

\* A new budget closes the one before it.
Grant(b, limit) ==
    /\ status[b] = "none"
    /\ limit > 0
    /\ status' = [x \in Budget |-> IF x = b THEN "open"
                                   ELSE IF status[x] = "open" THEN "closed"
                                   ELSE status[x]]
    /\ cap' = [cap EXCEPT ![b] = limit]
    /\ UNCHANGED <<spent, verdict, holding>>

Close(b) ==
    /\ status[b] = "open"
    /\ status' = [status EXCEPT ![b] = "closed"]
    /\ UNCHANGED <<cap, spent, verdict, holding>>

Spend(k, to, amount) ==
    LET b == k[1] IN
    /\ verdict[k] = None
    /\ status[b] = "open"
    /\ amount > 0
    /\ spent[b] + amount <= cap[b]
    /\ amount <= holding[Account]
    /\ verdict' = [verdict EXCEPT ![k] = Paid(to, amount)]
    /\ spent' = [spent EXCEPT ![b] = @ + amount]
    /\ holding' = Transfer(Account, to, amount)
    /\ UNCHANGED <<status, cap>>

Refuse(k) ==
    /\ verdict[k] = None
    /\ status[k[1]] # "none"
    /\ verdict' = [verdict EXCEPT ![k] = Refused]
    /\ UNCHANGED <<status, cap, spent, holding>>

\* The account is funded, or its owner takes money out.
Move(from, to, amount) ==
    /\ Account \in {from, to}
    /\ amount <= holding[from]
    /\ holding' = Transfer(from, to, amount)
    /\ UNCHANGED <<status, cap, spent, verdict>>

LedgerNext ==
    \/ \E b \in Budget, limit \in Amount : Grant(b, limit)
    \/ \E b \in Budget : Close(b)
    \/ \E k \in RequestKey, to \in Party, amount \in Amount : Spend(k, to, amount)
    \/ \E k \in RequestKey : Refuse(k)
    \/ \E from, to \in Party, amount \in Amount : Move(from, to, amount)

LedgerSpec == LedgerInit /\ [][LedgerNext]_ledgerVars

=============================================================================
