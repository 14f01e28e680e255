# gol-network: TLA+ models, model checking and proofs

GOL lets a person give a software agent a bounded budget of USDC on the Arc
network. The owner's account contract enforces the budget; a durable journal and
a pool of workers turn instructions into signed transactions and settle each of
them against the chain; a web page takes the owner through setup, shows what
became of every payment and lets the owner ask about it. This directory models
those parts, checks them with TLC on small instances and proves the main safety
results with TLAPS for every size.

Paths below are relative to the repository root (`src/` in `PROJECT.json`).

## 1. The system

| part | state | operations | talks to |
| --- | --- | --- | --- |
| `GolAccount` contract (`contracts/src/GolAccount.sol`) | mandates, active mandate, request records, sequence, reentrancy flag | `createMandate`, `revokeMandate`, `withdraw`, `pay` | USDC token (external call), events read by the subgraph |
| `GolAccountFactory` | owner -> account | `createAccount` | contract, setup route |
| request journal (`agent/src/db/journal.ts`) | `requests` rows with state, lease, nonce, signed bytes | `enqueue`, `claimNext`, `prepareSigning`, `recordSigned`, `recordBroadcast`, `finish` (legacy: `markSigning`, `recordSubmission`) | Postgres; chain (pending nonce, inside a transaction) |
| payment worker (`agent/src/payment/worker.ts`) | one claimed job, in memory | `tick`: resolve, parse, reserve, guard, sign, store, broadcast, reconcile | journal, signer, chain |
| chain adapter (`viem-chain.ts`, `submit-payment.ts`) | none | pending nonce, send, receipt, request getter | Arc RPC |
| setup route (`web/app/api/agent/setup/route.ts`) | `account_links`, `recipients` | link, rebind subject, move to a new account | factory, Privy, journal (by join) |
| subgraph (`subgraph/src`) | accounts, mandates, actions | event handlers | contract's log |
| activity query (`agent/src/query`) | none | pages, answers | subgraph |
| client, payments (`web/src/components/GolApp.tsx`, `web/src/client`) | stage of the current request, pending overlay in local storage | submit, poll, merge, restore | HTTP routes |
| client, owner transactions (`GolApp.tsx`, `web/src/wallet/owner-actions.ts`, `web/src/client/live-backend.ts`) | the action under way, what the owner is told of it, the account shown | eight kinds of action, refreshes of the account | owner's wallet, contract, setup route |
| signers (`agent/src/signers`, `agent/src/privy`) | cached key | sign, validate the envelope | AWS KMS, Privy |
| assistant, Botanary proxy, pages, scripts | chat, session cache | read-only tools, proxying | outside services |

What is hard here:

* *in the contract*: the token is foreign code called after the books are
  written; mandates are replaced while signed payments are under way; requests
  are replayed; the amounts meet the caps exactly.
* *off the chain*: several workers, leases of 30 seconds that nobody renews while
  a receipt is awaited for 60, a process that may die at every `await`, an RPC
  whose answer may be lost, a signed transaction that may be included at any
  later time once it has been sent, and a nonce reservation that reads two
  places and writes a third;
* *at setup*: the route reads the link, asks outside services and then writes,
  while other logins of the same owner, the worker and a new release do the same;
* *in the browser*: polls, refreshes, restores and reloads overlap at every
  `await`, the index lags behind the receipts, and a wallet may send a transaction
  and fail to say so, replace it, or be asked twice.

What makes each part correct:

* contract: caps hold, one usable budget, each request is decided once, money,
  records and events agree, dead mandates stay dead;
* journal and worker: at most one signed transaction per request ever leaves, its
  bytes are stored first and never replaced, nonces of requests in flight differ,
  what a settled row says is what the chain did, every request settles;
* setup: a link names one wallet and a deployed account of it, no wallet has two
  links, and only the login that holds an owner's link can lose it, by setting up
  another of its wallets; requests change their login only with its link; until the
  signer provider changes, no agent signs for another account;
* subgraph and query: the index equals the contract's history, and the evidence of
  an answer is one gapless stretch of it;
* client: the page claims only what the chain has, lists an outcome once, drops an
  overlay only for its record and finds a lone request again after a reload while it
  is being worked on; it confirms no owner's transaction that is pending or reverted,
  runs no two actions at once while it watches the first, and does not ask for a
  budget's rules before the approval ahead of them has settled. It does confirm an
  action that was cancelled in the wallet (section 3).

`PROJECT.json` lists the hazards at their lines.

## 2. Modules

| module | models |
| --- | --- |
| `GolAccount` | the contract, its events and the token call |
| `PaymentTypes` | requests and signed transactions, shared vocabulary |
| `ArcNetwork` | transactions of one agent key: sent, waiting, included; how a node answers |
| `PgJournal` | the rows, and what each SQL statement does to them |
| `PaymentWorker` | workers over journal and network: the composition, its properties and fairness |
| `PaymentLifecycle` | abstract: what the payment service promises about one request |
| `SpendingLedger` | abstract: what the contract promises, a ledger in which a payment is one step |
| `PrivyWorker` | the retained Privy path of the worker, over the same journal |
| `Subgraph` | the event handlers of `account.ts` over the contract's log |
| `GolEvidence` | what records, totals, balances and index of the contract must agree on |
| `ActivityIndex` | the newest page and the evidence loop over a growing index |
| `ClientView` | one browser: submitting, polling, overlays, pages, reloads; over `PaymentLifecycle` and `ActivityIndex` |
| `AccountSetup` | the setup route, the factory, the links' tables, and claim and signer lookup of the worker |
| `OwnerActions` | one browser: the owner's transactions, from the wallet's prompt to the refreshed account |
| `MCGolAccount`, `MCPaymentWorker`, `MCPrivyWorker`, `MCClientView`, `MCAccountSetup`, `MCOwnerActions` | small instances: constants, symmetry, start states |
| `GolAccount_proofs`, `PaymentWorker_proofs`, `PrivyWorker_proofs`, `ClientView_proofs`, `AccountSetup_proofs`, `OwnerActions_proofs` | inductive invariants and theorems; the first with the contract's refinement, the third with the Privy path's, `ClientView_proofs` with what is proved of `ActivityIndex` |
| `WorkerLifecycle_proofs` | the worker's refinement and the reservation of nonces, over `PaymentWorker_proofs` |
| `GolEvidence_proofs` | sums, events and index of the contract, over `GolAccount_proofs` |

`PaymentWorker` EXTENDS `PgJournal` and `ArcNetwork`, which share `PaymentTypes`;
`PrivyWorker` EXTENDS `PgJournal` only. `ClientView` EXTENDS `PaymentLifecycle`, the
abstract specification that `PaymentWorker` and `PrivyWorker` are shown to implement,
so that the page is checked against everything a worker may do without carrying
the workers along. Operators commented "Fault:" are deliberate errors used as
mutants of the definition below them; no specification uses them.

### GolAccount

One action per external function. A transaction that reverts is no step, so the
functions' checks are guards. `pay` has two outcomes and an action for each:
`ExecutePayment` (`_executePayment`) and `RecordRefusal` (`_recordRefusal`);
`RuleFor` tests the rules in the code's order. A replay of a recorded request
changes nothing and is no step.

The transfer that ends `pay` and `withdraw` is foreign code, so the handler is
split there: `CallTransfer` pushes a frame on `frames`, which holds what the EVM
restores on a revert; `TransferSucceeds` moves the money and emits the event,
`TransferFails` restores everything. While a frame is open, `NotEntered`
(`entered == 1`) keeps every handler out; the mutant of that guard shows what a
callback would do. Amounts are small integers instead of 6-decimal units, and
`uint256` is unbounded `Nat`: `spent + amount` is computed only once
`amount <= cumulativeCap - spent` was tested, so it cannot wrap.

`payloadHash`, `reason` and `recordedAt` are left out: the first only decides
between two answers that change nothing, the others are text and time stamps.
The agent of a record is its mandate's. Duplicate recipients cannot occur in a set.

### ArcNetwork

External code, modelled from how `viem-chain.ts` reads it. `sent` is every
transaction ever handed to a node, `waiting` what nodes hold, `mined` what was
included, in nonce order, with its status. `Accept` covers "accepted" and the
"already known" answers, `RefuseNonce` the "nonce too low" ones, `Lose` every
other answer or none. `Include` includes the next nonce; the contract then
answers a recorded request from its record, decides a new one, or reverts.
Transactions of the key that did not come from the journal are not modelled:
the agent key is used by these workers alone.

### PgJournal and PaymentWorker

A row keeps state, order of creation, lease owner, whether the lease is live,
nonce and signed transaction. Statements with `WHERE lease_owner = $2` are
guarded by `Holds`; when no row matches, the code throws `LEASE_LOST` and the
tick ends, which is the ELSE branch of each action. As in the code, the end of
the lease is not tested by these statements: a worker whose lease lapsed still
writes until another one claims the row.

`pc[w]` is the `await` a tick stands at, `job[w]` its copy of the row:

| `pc` | code |
| --- | --- |
| `idle` | between ticks |
| `resolve` | `resolver.resolve`, and the dispatch of `runRaw` on the copy |
| `reserve`, `query`, `commit` | `prepareSigning`: lock and pending nonce, in-flight query, update and commit |
| `construct` | `constructSignBroadcast` up to the signature |
| `record` | `recordSigned` |
| `broadcast`, `recordBroadcast` | `rebroadcastAndReconcile` |
| `receipt` | `reconcileRaw` |

`Abandon` is a crash or a thrown error at any of them: the row stays under its
lease, and an open reservation is rolled back. `LeaseLapses` ends a lease, of a
working worker too. Signing twice gives two different transactions.
`ReceiptOfReplacement` is viem's `waitForTransactionReceipt`, which resolves with
the receipt of a transaction that took the awaited one's nonce; whether the client
had seen the awaited one before is left open, which only adds behaviours.

Two branches of the code are unreachable in this mode and have no action: a
claimed row that is in flight, unsigned and not `signing_prepared`, and
`prepareSigning` meeting a row that is already `signing_prepared` (its caller holds
a copy in state `queued`, and only another owner could have moved the row on).
All requests of the model belong to one agent key, the case in which they interact.

### PrivyWorker

`runPrivy`, `submitPrivy` and `reconcile`. Privy signs and submits by itself, so
the intent is stored first (`MarkSigning`), the request id is the idempotency key
(`SubmissionFor` answers an older submission or makes a new one), and the hash is
stored last (`RecordSubmission`). An answer that is lost parks the row as
`unknown` without a hash. The resolver of `worker-entry.ts` no longer returns this
mode; the class and its tests keep it.

### The two abstract specifications

`PaymentLifecycle`: a request takes effect on the chain at most once, and what its
owner is finally told agrees with that for good; only `signer_blocked` promises
nothing (see the violated run below). The mapping reads `told` off the row's state
and `effect` off the contract's record.

`SpendingLedger`: money, budget and verdict of a payment change in one step, at
most one budget is open, a closed one is never touched. In the mapping the books
are those from before the handler while a call into the token is open
(`SettledBooks`), so a payment happens when its transfer returns, and a failing
transfer never happened.

### Subgraph and ActivityIndex

The index is what the handlers make of the contract's log, event by event (`Index`);
`GolEvidence` compares it with the contract. An entity id is a place in the log.
`ActivityIndex` abstracts a record to the request it is about and its place in the
sequence, and models `fetchPage`'s descending pages below a cursor and the loop of
`getAnswerEvidence`, one request a step, while chain and index go on. Records
arrive as `ClientView` lets them.

### ClientView

One browser tab and one account. `key` and `refs` are the two entries in local
storage, `overlay` is `pendingRef`, `polling` the loops of `pollRequest`, `fetched`
the answers to `refreshActivity` on their way, `restoring` what the restore effect
is waiting for. Requests of other devices appear as records `Elsewhere`.
`PollEnds` takes the snapshot and handles it in one step: final answers do not
change, and an `unknown` one only ends the poll.

### AccountSetup

A call of the route is four places: the first SELECT with its checks (`Begin`), the
rebinding of a link found under another login (`Rebind`), the write (`MoveLink`,
`InsertKmsLink`, `ProvisionPrivy`) and the recipient choice (`SaveRecipients`).
`CallEnds` is a failure at any of them; nothing is rolled back. The tables' keys are
guards (`Fits`, `Linked`), the cascade of the foreign key is `Cascaded`. An agent is
a function of login, account and policy revision, because Privy's wallet is created
under an idempotency key of those, or the one KMS key. `Release` replaces factory,
policy revision or signer provider, and with them the processes, so calls and claims
in progress end; `release.switched` is history and says that the provider changed.

A login may have several wallets linked and a wallet several logins (`Controls`):
`route.ts:123` takes any of `linked_accounts`, and the client chooses among them
(`GolApp.tsx:104`). `account_links` has one row per login, so setting up a second wallet
points the row at it, and owners interact. `Matches` finds the login's own row and the
owner's; two of them are the 409 of `route.ts:88`, which changes nothing. `Claim` and
`ContextFound` are `claimNext`'s join and the resolver's lookup, one await apart.

### OwnerActions

One tab. `run` is the call of `runOwnerAction` under way:

| `pc` | code |
| --- | --- |
| `resting` | `busy` is null |
| `asking` | `POST /api/agent/setup`, which needs no signature |
| `wallet` | from `ownerClient` to the answer of the wallet |
| `receipt` | `waitForTransactionReceipt`; for Aave the loop over `eth_getTransactionReceipt` |
| `account` | `createAccount` reading the account back |
| `refresh` | the up to four refreshes, each a snapshot and its handling |

`tx` is what the owner is told, `view` the account shown, `loads` refreshes that
polls and effects run beside it. `sent` are the wallet's transactions in nonce
order: each is included with success or reverts, itself or as a repriced copy
(`resent`), or another transaction of its nonce is included instead (`replaced`,
`replacement_reverted`: the owner cancelled or changed it in the wallet). viem's wait
reports each like the original, by its status; the loop for Aave sees only its own.
`WaitFails` reports whichever phase `classifyOwnerError` reads from the words of the
error. `loadAccount` makes several reads; they are taken as one snapshot.
`onSetPaymentBudget` is the two-approval flow, whose second `before` may be the account
not yet rendered. `lapsed` is a history variable: the page lost sight
of a transaction it had not seen settle (a wait that ran out, a reload, a wallet
that failed after sending). Other tabs are left out: nothing in the code
coordinates them. The agent's fee balance is left out too: a top-up converges or not.

## 3. Runs

| run | instance | what it shows |
| --- | --- | --- |
| `gol_account_mandates` | 2 mandates, 1 request id each, amounts 0..2, lists {}, {cafe}, {self}, supply 1 | `SoleLiveMandate`, `ValueFollowsEvidence`, `IndexMatchesContract`, `DeadMandatesStayDead`, `ImplementsLedger` |
| `gol_account_requests` | 1 mandate, 3 requests, amounts 0..2, supply 2, lists that are too long, recipient zero | `TypeOK`, `SpentWithinCap`, `SpendingIsPartitioned`, `EventsMatchRecords`, `SpentIsExecutedTotal`, `RecordsArePermanent` |
| `payment_worker` | 2 requests, 2 workers, 2 signatures each, 2 faults | `TypeOK`, `StoredBeforeSent`, `InFlightNoncesDistinct`, `NoncesAreContiguous`, `JournalIsTrue`, `UnknownKeepsEvidence`, `StoredBytesAreFinal`, `SettledIsFinal`, `ImplementsLifecycle` |
| `payment_worker_recovery` | 1 request, 2 workers, 3 signatures, 2 faults, fairness | `RequestsSettle` |
| `payment_worker_blocked` | 2 requests, 1 worker | **violated**: `BlockedMeansNeverSent` |
| `payment_worker_queue` | 3 requests queued, 1 worker, 1 fault, fairness | **violated**: `QueueIsServed` |
| `privy_worker` | 1 request, 2 workers, 2 submissions, 3 faults, fairness | `MarkedBeforeSent`, `PrivyImplementsLifecycle`, `OnlyAmbiguityStrands` |
| `privy_worker_lost` | 1 request, 2 workers, 1 fault, fairness | **violated**: `RequestsSettle` of `PrivyWorker` |
| `client_view` | 2 requests and 1 record from elsewhere, 1 activity request at a time, pages of 2, answers of 3 in 2 requests, 1 reload | `TypeOK`, `ClaimsAreTrue`, `ListedOnce`, `LoneRequestIsRecoverable`, `EvidenceIsContiguous`, `OverlayUntilIndexed` |
| `client_confirmed_vanishes` | as the last, 2 activity requests at a time | **violated**: `ConfirmedStaysListed` |
| `account_setup` | 2 logins, one with 2 wallets and one with 1 of them, both signer providers, 2 calls, 1 request, 1 release, fairness of the worker | `TypeOK`, `LinksAgree`, `ServedByItsAgent`, `RequestsFollowTheirLink`, `LinksSurvive`, `QueueIsServedUnlessMoved` |
| `owner_actions` | all 8 kinds, 3 transactions, 1 other refresh, 2 refreshes after an action, 1 reload | `TypeOK`, `NothingShownAhead`, `LoneSubmission`, `RulesAwaitFirstApproval` |

Bounds. Two mandates are enough for replacement and revocation to overlap a
payment; three requests are enough for two executed ones and a third that meets
the rest of the budget; amounts 0..2 give a payment below, at and above each cap,
and a token balance that is too small. Time has two instants, before and after
expiry. `MaxFaults` bounds crashes, thrown errors, lost answers, dropped
transactions and stalls beyond a lease together: two faults are enough for one
of them to hit the recovery from another. `MaxSignatures` bounds how often one
request is signed (a crash before `recordSigned` signs again): it must exceed the
number of faults where the run asks for progress, so the recovery run has 3.
In the client two requests are enough for the key of one to be overwritten by the
other and for an overlay to outlive a page; pages of two and three records make a
record leave the page, and answers of three in two requests end both ways. In the
setup the two logins share a wallet, and one has another that its row can be pointed
at; two calls are all that races for a row, and one release makes every kind of link
outdated once. The recipient mode is "all" there, since the choice only delays the first
request. Three transactions of the owner are a budget's two and one that comes to
nothing or races them.
Transactions and leases in the ordinary course of things are not counted as
faults. `CHECK_DEADLOCK FALSE`, because the instances may stop: all requests
settled, or all mandates and time used up. `Symmetry` is used only with
invariants and step properties: requests and workers are interchangeable, as
`created` is a number assigned on arrival.

Fairness (`PaymentWorker!Fairness`): each worker's tick is weakly fair, since the
loop of `worker-entry.ts` never stops by itself and every `await` returns or
throws; leases lapse with time; Arc includes what its nodes hold. Claims are
strongly fair per request: an idle worker polls every two seconds and a lease
lasts thirty, so a row that is claimable over and over is claimed. Faults are not
fair; they happen or not, at most `MaxFaults` times. `RequestsSettle` is claimed
for a request alone under its key: with more, a request blocked after a later
nonce was reserved leaves a gap that stalls the later ones (listed as a hazard);
`NoncesAreContiguous` says what the reservation guarantees with several. The Privy
path has the same fairness. In `AccountSetup` only the polling worker is fair: nobody
has to call the route, and a release need not come. The client and the owner's
actions have safety properties only: no owner has to do anything, and no document
bounds how long the index may lag.

Every property has a mutant in `PROJECT.json`: a change of one definition, of
the kind a bug would be, after which the run finds the property violated.

### What the violated runs show

* `BlockedMeansNeverSent`: a resolver error ends a row as `signer_blocked` in any
  state (`worker.ts:131`), also when its transaction is on its way, although
  `ARCHITECTURE.md:107` and the client's text say that nothing was submitted.
* `QueueIsServed`: a row parked as `unknown` keeps its signed transaction but leaves
  the in-flight query of `prepareSigning` (`journal.ts:205`); when the node never got
  the transaction, the next request is signed under the same nonce, against
  `spec/kms-backed-agent-signer-spec.md:199`. Once that one is included, the `unknown`
  row is claimed at every poll and never decided, and with one worker younger requests
  stay queued (`journal.ts:112`).
* `RequestsSettle` of the Privy path: when the answer to a submission is lost, the row is
  parked as `unknown` with neither hash nor operation id (`worker.ts:520`), and
  `claimNext` takes unknown rows only with one of them, so it stays unknown also
  when its transaction was included. `spec/pre-integration-demo-completion-spec.md:300`
  rules out "an unrecoverable signing state" after a lost Privy response, and
  `ARCHITECTURE.md:109` says such a row keeps an operation id or hash.
  `OnlyAmbiguityStrands` passes because it excepts exactly this row: it shows that
  nothing else strands a request, not that the exception is in order.
* `ConfirmedStaysListed`: two refreshes of the activity page overlap; the newer
  answer comes first and ends an overlay, the older one then replaces the page
  (`GolApp.tsx:389`), and a confirmed payment is gone until the next refresh,
  although `ARCHITECTURE.md:89` keeps it in view.

The models also have the following behaviours. The properties of the passing runs
leave each of them open, and must not be read as excluding it:

* *A cancelled action is shown as confirmed.* The wait for a receipt ends with that of
  the transaction which took the nonce, and only its status is looked at
  (`owner-actions.ts:119-132`; viem's `onReplaced` is not used), although
  `spec/hackathon-product-spec.md:90` says that submission "is never described as already
  effective". `NothingShownAhead` says that the nonce was used with success, not that the
  action took effect.
* *A budget's rules may follow a deposit that was cancelled.* They are asked for when the
  account shows another balance than before (`GolApp.tsx:1097`), for whatever reason.
  `RulesAwaitFirstApproval` says that the transfer is not pending and did not revert,
  not that funds were added.
* *An action can be sent twice.* A wait that runs out frees the page while the
  transaction is pending, although `spec/pre-integration-demo-completion-spec.md:141` asks
  to disable the action. `LoneSubmission` excepts the case by `lapsed`.
* *A login's second wallet takes the row of its first* (`route.ts:159, 221`). The first
  owner has no link then, its requests stay under a login that names another owner, and
  when it comes by another login it gets a new row without its journal, although
  `route.ts:131` wants account and journal moved together. `LinksSurvive` excepts the
  write of the login that holds the link, and `RequestsFollowTheirLink` ties requests to
  logins, not to owners.
* *A rebinding moves whatever the row says by then* (`route.ts:139`). The ownership check
  is of the wallet asked for; if the login that was found has pointed its row at another
  of its wallets meanwhile, a row comes under the caller's login that names a wallet it
  does not control, and stays if the call then ends. `LinksAgree` does not relate a
  link to its login.
* *A moved KMS link keeps the agent the row has by then* (`route.ts:159`), which after a
  change of the signer provider may be a Privy agent of another account. Its policy
  denies every payment. `ServedByItsAgent` speaks of the time before a change.
* *A moved link leaves rows behind*: `claimNext` joins requests to links by account
  (`journal.ts:100`). `QueueIsServedUnlessMoved` speaks of rows it still finds.
* *An empty allowlist* is deny-all in `spec/architecture.md:71` and allow-any in the code,
  its comment and its tests (`GolAccount.sol:149, 376`); `GolAccount!RecipientAllowed`
  follows the code.

On the client, `LoneRequestIsRecoverable` is about the only request of a browser, while
its owner was told nothing of it or that work goes on; `EvidenceIsContiguous` compares
records, not the label they are given; and `OverlayUntilIndexed` excepts the end of a
restore, which replaces the overlays by those it restored (`GolApp.tsx:459`).
`IndexMatchesContract` meets one executed payment per mandate in its run; that `spent` is
overwritten in the right order for several is the theorem `IndexIsFaithful`.

## 4. Proofs

Checked by `tlapm` 1.4.5 with Z3, Zenon and LS4, without assumptions beyond the
named ones on constants: which sets the addresses and bounds of `GolAccount` come
from (`AddrAssumption`, `BoundAssumption`), that `Request` is finite in the
worker's modules (`RequestAssumption`: order of creation is a count), that request
ids are finitely many where amounts are summed over them (`RequestIdAssumption`: a
`bytes32`), that bounds are naturals, pages and refreshes positive and an answer
coverable by its requests (`PageAssumption`, `AnswerAssumption`,
`ReloadAssumption`, `ReleaseAssumption`), that logins have sets of owners' wallets
(`ControlsAssumption`), that recipient modes and signer providers are the two of each
(`ChoicesAssumption`, `ProvidersAssumption`), that `Kind` are kinds of owner action, and
that the "none"
values are none of the values they stand apart from. The proofs hold for every
such value: any number of mandates, requests, workers, signatures, faults, logins,
calls, releases, transactions, refreshes and reloads.

**Contract** (`GolAccount_proofs`): `TypeCorrect`, `CapsHold`, `OneBudget`.
`SpentWithinCap` and `SoleLiveMandate` are not inductive by themselves, because a
failing transfer brings back an earlier state. `IInv` therefore says the same
(`Sound`) of the current mandates and of those the open call would restore, adds
that a mandate exists exactly when its id is below `nextMandateId`, so that a new
one overwrites nothing and becomes the only live one, and that at most one call
is open (`OpenCallSound`), which is what the `nonReentrant` guard is for: no
handler moves the mandates between the snapshot and the revert.

The refinement `ImplementsTheLedger`, `BudgetIsPartitioned`, `RecordsStay` and
`DeadStayDead` rest on `BooksInv`. It says of the settled books (those of the last
moment without an open call) what `SpendingIsPartitioned` says of the present ones,
and that the present books differ from them by exactly the one payment the open call
makes. A failing transfer is then a step back to settled books, and a succeeding one
is the single step the ledger takes.

**Evidence** (`GolEvidence_proofs`): `EventsTellRecords`, `TotalsAreSums`,
`RecordsAreMoney`, `IndexIsFaithful`. While a call is open, records, balances, log and
index disagree on purpose: the payment is on record and its money has not moved. The
invariant `EvidenceInv` therefore speaks of the two states the call can end in. The
books it would restore are in order, and so are the present ones once its transfer and
its event are added (`OpenEvidence`); without an open call the present ones are
(`Evident`). Opening a call then extends both ends, closing it picks one.

Two facts in there are about data of any size. A sum over a set of records grows by
the amount of a record added to the set (`AttemptedOneMore`), which follows the
recursion of `MapThenSumSet` over finite sets; and the index of a log with one more
event is the index before it, handled once more (`IndexAppend`), which follows the
recursive function in `Index`. The library's induction theorems take an operator as a
parameter; the module has first-order ones instead, about the subset of `Nat` or of
the subsets of a finite set on which the claim holds (`NatSetInduction`,
`SubsetInduction`). `EventsMatchRecords` is stated by positions in the log, since a
`SelectSeq` would need the same work once more to say the same.

**Worker** (`PaymentWorker_proofs`): `TypeCorrect`, `BytesStoredFirst`,
`NoncesDistinct`, `EvidenceKept`, `BytesNeverReplaced`, `SettledForGood`. The
invariant adds to these

* `RowSound`: what a row's state implies (no bytes before `signed`, bytes belong to
  their row, rows in flight have a nonce, settled rows have no owner), and
* `CopySound`: what each worker's program counter says of its copy. While the worker
  holds the row, the copy it decides on is the row; once there are stored bytes the
  copy has them, held or not; between the two reads of a reservation the worker
  has the signer's lock, and after the second one its nonce lies above those in
  flight.

A worker that lost its lease may act on an old copy, but its writes are fenced by
`Holds` and what it sends are the stored bytes; that is the core of the argument,
and `UndisturbedCopy` is the lemma that another worker's step leaves a copy sound.
`InFlightNoncesDistinct` needs the lock between the query and the commit, and
needs that only a row in state `queued` can enter the in-flight states.

`WorkerLifecycle_proofs` goes on to `JournalTellsTheTruth`, the refinement
`ImplementsTheLifecycle` and `NoGaps`. Only one transaction of a request is ever sent,
and `VerdictInv` says that what is included was sent and lies at the place its nonce
names, and that the contract's outcome for a request came from an included
transaction of it. So a verdict about the stored transaction is one about the
request; it is justified when drawn and stays so until it is written, because the
chain only grows. For `NoGaps`, `NonceInv` says that every nonce below the one a
reservation has in hand is below the chain's or held by a row (`Covered`); it holds
at the read of the chain, at the read of the rows and at the write, since a nonce
given to a row stays with it.

**Privy path** (`PrivyWorker_proofs`): `SentIsMarked` and the refinement
`PrivyKeepsTheLifecycle`. Here nothing is stored before it is sent but the intent, and
a request may be sent any number of times, by several workers, with every answer lost.
What holds the argument together is that under one reference id Privy makes one
transaction (`Sole`, by `OneSubmission`): a receipt is a receipt of the request, and the
contract recorded exactly the requests whose transaction went through (`ChainSound`).
`PrivyInv` adds what a worker may rely on at each point of its tick: while it holds the
row, the row's state; held or not, at `send` that the row was marked, and from `record`
on that its hash is the request's. So a worker that lost its lease can only ask
Privy again, and its verdict is either fenced by `Holds` or `Justified` by a receipt
that is there for good.

**Setup** (`AccountSetup_proofs`): `TypeCorrect`, `LinksTrue`, `RequestsMoveWithLinks`,
`LinksLostByOwnLoginOnly`, `RightSigner`, for any linking of wallets to logins. What a
call carries from its first SELECT to its write is old; `CallsSound` says what of it
stays true whatever happens in between: the account is the one in use of a wallet the
caller controls, and deployed. Of the row it read nothing stays, and nothing is
needed: writes go through the tables' keys, so no two links ever name one owner. That
requests are never under a login without a link is the foreign key (`JournalLinked`).
`LinksSurvive` and `RequestsFollowTheirLink` are step properties of the same invariant.
`RightSigner` needs more, as an UPDATE keeps the agent a row has by the time it is
written: `AgentInv` says that links, and the rows calls are about to write over, are all
by one provider, so that a kept link is a KMS link. It holds until a release changes
the provider (`Steady`), and so does the theorem.

**Activity and client** (`ClientView_proofs`): `Evidence`, `ClaimsHold`,
`OncePerRequest`, `OverlaysWait`, `Recoverable`, `TypeCorrect`. What a question
has read is one interval below the first page's newest record, and every page but
the last was full, so a cursor continues exactly where the last page ended
although the index has grown. For the view the invariant keeps verdicts, effects
and records of the chain in agreement, whatever the browser does, and says that
every overlay, from a poll or from a restore, has a confirmed verdict, which is
final. `Recoverable` has the limits of its property, named in section 3.

**Owner's transactions** (`OwnerActions_proofs`): `TypeCorrect`, `ShownIsSettled`,
`OneAtATime`, `FirstApprovalSettles`. What the page knows is carried by `run`
(`RunSound`): the transaction it waits for is of the action under way, and from the
receipt on its place in the chain is taken, by itself or by what replaced it; settled
transactions stay settled, so a conclusion drawn from a receipt stays true however late
it is used. Rules refer to a transfer sent before them (`FundingSound`), and the active
mandate is one that was made (`ChainSound`). None of the theorems says that a
replaced action took effect, or which failure is reported of a wait that ended early.

**Model-checked only.** `RequestsSettle` of `PaymentWorker`, `OnlyAmbiguityStrands` and
`QueueIsServedUnlessMoved` are liveness, out of the prover's reach, and the four
violated runs are counterexamples. Every other property of a run is a theorem. The
types that `PrivyInv` starts from (`TypeOK` of `PrivyWorker_proofs`) are proved and not
part of a run.

## 5. Not modelled

* *Presentation.* Most of the code by size is components that render the state
  modelled here and change none of it: `Dashboard.tsx`, the dialogs, drawers and
  pills, the landing and preview pages, the fixture backend and the mock trading
  desk. The checklist's `deriveSteps` is a pure function of the account shown.
* *Client.* Sign-in, instruction previews, lifecycle entries of the timeline, the
  chat panel, and the swaps and sends of the money drawer, which an outside service
  prepares and the wallet sends without the machinery of `runOwnerAction`.
* *Subgraph and query.* `usdc.ts`, which needs the token's own log, and `factory.ts`;
  filters, the second list of lifecycle events, freshness labels, answer texts.
* *Signers.* Key handling, DER decoding and envelope validation are cryptography and
  stateless checks; the worker's model keeps their outcomes. Mandate, gas and fee
  reads before signing are a nondeterministic refusal (`GuardBlocks`); the contract
  checks again, and its model stands alone.
* *Amounts.* A pure conversion of decimal text, covered by unit tests; models count
  in small integers.
* *Outside control flow.* The assistant graph (a library runs it over a language
  model, with tools that only read), the Botanary proxy, the HTTP core's rate limit,
  assets and deployment scripts hold no payment state.

## 6. Plan

1. *Done*: contract with subgraph and ledger; journal, worker, network and the Privy
   path with the lifecycle; setup; client and evidence; owner's transactions; theorems
   for every safety property of theirs and for the three refinements.
2. The money drawer: quotes, approvals and sends over the wallet of `OwnerActions`.
3. The chat panel: turns, tools and the review of prepared transactions.
4. Lifecycle events beside activity pages, and the funding handler of `usdc.ts`.
5. Amount parsing against a reference definition.
