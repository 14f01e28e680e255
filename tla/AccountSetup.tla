----------------------------- MODULE AccountSetup -----------------------------
(***************************************************************************)
(* Linking a login to its owner's account and agent signer                 *)
(* (web/app/api/agent/setup/route.ts) while requests are entered, claimed  *)
(* and resolved under the link.                                            *)
(*                                                                         *)
(* A call reads the link, asks outside services, writes the link and then  *)
(* saves the recipient choice: four places where other calls, the worker,  *)
(* or a failure get in between.  A login is a Privy subject: it may have   *)
(* several wallets linked, and a wallet may come under several logins.     *)
(*                                                                         *)
(* A release may bring a new factory, a new policy revision or the other   *)
(* signer provider; it replaces the web and the worker process.            *)
(***************************************************************************)
EXTENDS Integers, FiniteSets

CONSTANTS
    Owner,         \* owner wallets
    Login,         \* Privy subjects
    Controls,      \* the wallets linked to each login at some time or other
    Call,          \* setup calls that may be under way at once
    Request,       \* payment requests
    NoLink,        \* no row of account_links
    NoJob,         \* an idle worker
    NoAgent,       \* a request nobody signed for
    KmsKey,        \* the one KMS key every aws_kms link names
    Choices,       \* the recipient modes owners choose
    Providers,     \* the signer providers this deployment runs with, over time
    MaxReleases    \* bound on releases

ASSUME ControlsAssumption == Controls \in [Login -> SUBSET Owner]
ASSUME ChoicesAssumption == Choices \subseteq {"all", "allowlist"}
ASSUME ProvidersAssumption == Providers \subseteq {"privy", "aws_kms"}
ASSUME ReleaseAssumption == MaxReleases \in Nat

VARIABLES
    release,    \* what is deployed: factory, policy revision, signer provider, and
                \* (history) whether the provider was ever another
    created,    \* accounts some factory has deployed
    links,      \* account_links, by user_subject
    listed,     \* accounts with confirmed recipients
    calls,      \* the setup calls under way
    requests,   \* the journal's rows
    job         \* the worker's copy of the row it claimed

vars == <<release, created, links, listed, calls, requests, job>>

Generation == 0..MaxReleases
Account == [owner: Owner, factory: Generation]

\* A Privy wallet is bound to a policy that names one account; the idempotency key
\* makes it a function of login, account and policy revision.
Wallet == [login: Login, account: Account, revision: Generation]
Agent == Wallet \cup {KmsKey}
Mode == {"all", "allowlist"}
Link == [owner: Owner, account: Account, agent: Agent, mode: Mode]

ASSUME NoneAssumption == NoLink \notin Link /\ KmsKey \notin Wallet

Done == [pc |-> "idle"]
Unsent == [state |-> "absent"]

Init ==
    /\ \E p \in Providers :
          release = [factory |-> 0, revision |-> 0, provider |-> p, switched |-> FALSE]
    /\ created = {}
    /\ links = [l \in Login |-> NoLink]
    /\ listed = {}
    /\ calls = [c \in Call |-> Done]
    /\ requests = [r \in Request |-> Unsent]
    /\ job = NoJob

Linked(l) == links[l] # NoLink

\* What the factory in use answers for an owner.
AccountOf(o) == [owner |-> o, factory |-> release.factory]

-----------------------------------------------------------------------------
\* GolAccountFactory.createAccount: a second call changes nothing.
CreateAccount(o) ==
    /\ created' = created \cup {AccountOf(o)}
    /\ UNCHANGED <<release, links, listed, calls, requests, job>>

\* A release; what was under way in the old processes is over.
Release ==
    /\ release.factory + release.revision < MaxReleases
    /\ \E f, v \in {0, 1}, p \in Providers :
          /\ f + v = 1
          /\ release' = [factory |-> release.factory + f,
                         revision |-> release.revision + v, provider |-> p,
                         switched |-> release.switched \/ p # release.provider]
    /\ calls' = [c \in Call |-> Done]
    /\ job' = NoJob
    /\ UNCHANGED <<created, links, listed, requests>>

-----------------------------------------------------------------------------
(* POST /api/agent/setup *)

\* The link read is good as it is, but for the account of a KMS link.
Kept(row, a) ==
    /\ row # NoLink
    /\ row.agent # KmsKey => row.account = a /\ row.agent.revision = release.revision

\* How a call goes on with the row it has: a link that is kept whole is not written.
With(call, row) ==
    IF Kept(row, call.account) /\ row.account = call.account
    THEN [call EXCEPT !.pc = "save", !.found = call.login, !.row = NoLink]
    ELSE [call EXCEPT !.pc = "write", !.found = call.login, !.row = row]

\* The rows the first SELECT finds: the login's own, for whichever wallet, and the
\* owner's.
Matches(l, o) ==
    {m \in Login : Linked(m) /\ (m = l \/ links[m].owner = o
                                       \/ links[m].account = AccountOf(o))}

\* SELECT; then the account must be the factory's for this owner, and the owner one
\* of the login's linked wallets.  Two rows are a conflict, 409, and change nothing.
Begin(c, l, o, mode) ==
    LET call == [pc |-> "rebind", login |-> l, account |-> AccountOf(o), mode |-> mode,
                 found |-> l, row |-> NoLink]
    IN  /\ calls[c].pc = "idle"
        /\ o \in Controls[l]
        /\ AccountOf(o) \in created
        /\ \/ /\ Matches(l, o) = {}
              /\ calls' = [calls EXCEPT ![c] = With(call, NoLink)]
           \/ /\ Matches(l, o) = {l}
              /\ calls' = [calls EXCEPT ![c] = With(call, links[l])]
           \/ \E m \in Login \ {l} :
                 /\ Matches(l, o) = {m}
                 /\ calls' = [calls EXCEPT ![c] = [call EXCEPT !.found = m]]
        /\ UNCHANGED <<release, created, links, listed, requests, job>>

\* Fault: the row moves without its requests.
Orphaned(from, to) == requests

\* requests_user_subject_fkey ... ON UPDATE CASCADE.
Cascaded(from, to) ==
    [r \in Request |-> IF requests[r].state # "absent" /\ requests[r].login = from
                       THEN [requests[r] EXCEPT !.login = to]
                       ELSE requests[r]]

\* Fault: a login that already has a link wins over the row to be moved.
Moved(from, to) == [links EXCEPT ![from] = NoLink]

\* Fault: the owner's new login gets a row of its own.
Copied(from, to) == [links EXCEPT ![to] = links[from]]

\* UPDATE ... SET user_subject = $1 WHERE user_subject = $2.
Renamed(from, to) == [links EXCEPT ![to] = links[from], ![from] = NoLink]

\* The owner came back under another login: the link and its journal move to it.
\* Since it was read, the row may have moved on, and then there is none to go on
\* with, or its login may have pointed it at another wallet; it moves all the same.
Rebind(c) ==
    LET call == calls[c]
        row == links[call.found]
    IN  /\ call.pc = "rebind"
        /\ IF row = NoLink
           THEN UNCHANGED <<links, requests>>
           ELSE /\ ~ Linked(call.login)
                /\ links' = Renamed(call.found, call.login)
                /\ requests' = Cascaded(call.found, call.login)
        /\ calls' = [calls EXCEPT ![c] = With(call, row)]
        /\ UNCHANGED <<release, created, listed, job>>

-----------------------------------------------------------------------------
(* Writing the link.  A statement the table's keys refuse ends the call: CallEnds. *)

\* The UNIQUE columns, for the row of login l.
Fits(l, a) ==
    \A m \in Login \ {l} : Linked(m) => links[m].owner # a.owner /\ links[m].account # a

\* INSERT ... VALUES; the mode is the column's default.
Insert(call, agent) ==
    /\ ~ Linked(call.login)
    /\ Fits(call.login, call.account)
    /\ links' = [links EXCEPT ![call.login] =
          [owner |-> call.account.owner, account |-> call.account, agent |-> agent,
           mode |-> "allowlist"]]

\* UPDATE ... WHERE user_subject = $1, which may find no row any more.
Update(call, agent) ==
    IF Linked(call.login)
    THEN /\ Fits(call.login, call.account)
         /\ links' = [links EXCEPT ![call.login] =
               [@ EXCEPT !.owner = call.account.owner, !.account = call.account,
                         !.agent = agent]]
    ELSE UNCHANGED links

Writing(c) ==
    /\ calls[c].pc = "write"
    /\ calls' = [calls EXCEPT ![c].pc = "save", ![c].row = NoLink]
    /\ UNCHANGED <<release, created, listed, requests, job>>

\* A kept link, which is a KMS link, moves to the account asked for, a new one of its
\* owner or that of the login's other wallet; the agent columns stay.
MoveLink(c) ==
    /\ Writing(c)
    /\ Kept(calls[c].row, calls[c].account)
    /\ Update(calls[c], links[calls[c].login].agent)

\* Also when an outdated Privy link was found: then the INSERT is refused.
InsertKmsLink(c) ==
    /\ Writing(c)
    /\ ~ Kept(calls[c].row, calls[c].account)
    /\ release.provider = "aws_kms"
    /\ Insert(calls[c], KmsKey)

WalletFor(call) ==
    [login |-> call.login, account |-> call.account, revision |-> release.revision]

\* Policy and wallet are created at Privy, idempotently, before the row is written.
ProvisionPrivy(c) ==
    LET call == calls[c] IN
    /\ Writing(c)
    /\ ~ Kept(call.row, call.account)
    /\ release.provider = "privy"
    /\ IF call.row # NoLink THEN Update(call, WalletFor(call))
                            ELSE Insert(call, WalletFor(call))

\* saveRecipientChoice, one transaction.
SaveRecipients(c) ==
    LET call == calls[c] IN
    /\ call.pc = "save"
    /\ links' = [l \in Login |->
          IF Linked(l) /\ links[l].account = call.account
          THEN [links[l] EXCEPT !.mode = call.mode] ELSE links[l]]
    /\ listed' = IF call.mode = "allowlist" THEN listed \cup {call.account} ELSE listed
    /\ calls' = [calls EXCEPT ![c] = Done]
    /\ UNCHANGED <<release, created, requests, job>>

\* A service, the database or a key refuses, or the client is gone: no step is undone.
CallEnds(c) ==
    /\ calls[c].pc # "idle"
    /\ calls' = [calls EXCEPT ![c] = Done]
    /\ UNCHANGED <<release, created, links, listed, requests, job>>

-----------------------------------------------------------------------------
(* Requests under the link *)

\* POST /api/instructions, and PgJournal.enqueue, whose INSERT tests the link again.
Enqueue(r, l) ==
    /\ requests[r].state = "absent"
    /\ Linked(l)
    /\ links[l].mode = "all" \/ links[l].account \in listed
    /\ requests' = [requests EXCEPT ![r] =
          [state |-> "queued", login |-> l, account |-> links[l].account,
           agent |-> NoAgent]]
    /\ UNCHANGED <<release, created, links, listed, calls, job>>

\* claimNext: JOIN account_links USING (account_address), and only links of the
\* worker's own signer provider.
Claimable(r) ==
    /\ requests[r].state = "queued"
    /\ \E l \in Login :
          /\ Linked(l)
          /\ links[l].account = requests[r].account
          /\ (links[l].agent = KmsKey) = (release.provider = "aws_kms")

Claim(r) ==
    /\ job = NoJob
    /\ Claimable(r)
    /\ job' = [req |-> r, login |-> requests[r].login, account |-> requests[r].account]
    /\ UNCHANGED <<release, created, links, listed, calls, requests>>

\* Fault: the context is looked up by login alone.
ContextByLogin == Linked(job.login)

\* The resolver's SELECT: WHERE user_subject = $1 AND account_address = $2, with the
\* claimed row's values.
ContextFound == Linked(job.login) /\ links[job.login].account = job.account

\* A Privy link must have the current policy.
Current(agent) == agent # KmsKey => agent.revision = release.revision

\* The request is signed for and settled by PaymentWorker.
Serve ==
    /\ job # NoJob
    /\ ContextFound
    /\ Current(links[job.login].agent)
    /\ requests' = [requests EXCEPT ![job.req].state = "served",
                                    ![job.req].agent = links[job.login].agent]
    /\ job' = NoJob
    /\ UNCHANGED <<release, created, links, listed, calls>>

\* Fault: the tick throws and leaves the row as it is.
LeftQueued(r) == requests

\* Fault: the row is parked in a state the journal does not have.
Parked(r) == [requests EXCEPT ![r].state = "parked"]

Blocked(r) == [requests EXCEPT ![r].state = "blocked"]

\* No context, or an outdated one: terminal for the request.
Block ==
    /\ job # NoJob
    /\ ~ (ContextFound /\ Current(links[job.login].agent))
    /\ requests' = Blocked(job.req)
    /\ job' = NoJob
    /\ UNCHANGED <<release, created, links, listed, calls>>

-----------------------------------------------------------------------------
Setup(c) ==
    \/ \E l \in Login, mode \in Choices : \E o \in Controls[l] : Begin(c, l, o, mode)
    \/ Rebind(c)
    \/ MoveLink(c) \/ InsertKmsLink(c) \/ ProvisionPrivy(c)
    \/ SaveRecipients(c)
    \/ CallEnds(c)

Worker == (\E r \in Request : Claim(r)) \/ Serve \/ Block

Next ==
    \/ \E o \in Owner : CreateAccount(o)
    \/ Release
    \/ \E c \in Call : Setup(c)
    \/ \E r \in Request, l \in Login : Enqueue(r, l)
    \/ Worker

Spec == Init /\ [][Next]_vars

\* The worker polls; nobody has to call setup again, and a release need not come.
FairSpec == Spec /\ WF_vars(Worker)

-----------------------------------------------------------------------------
(***************************************************************************)
(* Properties                                                              *)
(***************************************************************************)

CallState ==
    [pc: {"idle"}] \cup
    [pc: {"rebind", "write", "save"}, login: Login, account: Account, mode: Mode,
     found: Login, row: Link \cup {NoLink}]

RequestState ==
    {Unsent} \cup
    [state: {"queued", "served", "blocked"}, login: Login, account: Account,
     agent: Agent \cup {NoAgent}]

\* Links, calls and rows are well formed.
TypeOK ==
    /\ release \in [factory: Generation, revision: Generation,
                    provider: {"privy", "aws_kms"}, switched: BOOLEAN]
    /\ created \subseteq Account
    /\ links \in [Login -> Link \cup {NoLink}]
    /\ listed \subseteq Account
    /\ calls \in [Call -> CallState]
    /\ requests \in [Request -> RequestState]
    /\ job \in [req: Request, login: Login, account: Account] \cup {NoJob}

\* However setup calls race, fail half-way or meet a release, a link names one wallet
\* and a deployed account of that wallet, and no wallet has two links.
LinksAgree ==
    \A l \in Login : Linked(l) =>
        /\ links[l].account.owner = links[l].owner
        /\ links[l].account \in created
        /\ \A m \in Login \ {l} : Linked(m) => links[m].owner # links[l].owner

\* After this step request r is under a login with a link, and it changed its login
\* only if the link did.
FollowsItsLink(r) ==
    LET l == requests[r].login
        m == requests'[r].login
    IN  /\ links'[m] # NoLink
        /\ m # l => links'[m] = links[l] /\ links'[l] = NoLink

\* Rebinding moves a link whole (route.ts:131): when requests change their login they
\* go where its link goes, and no request is ever left under a login without one.
RequestsFollowTheirLink ==
    [][\A r \in Request : requests[r].state # "absent" => FollowsItsLink(r)]_vars

\* After this step the owner that login l is linked to has a link, for no older account.
OwnerStaysLinked(l) ==
    \E m \in Login :
        /\ links'[m] # NoLink
        /\ links'[m].owner = links[l].owner
        /\ links'[m].account.factory >= links[l].account.factory

\* This step is a write of login l's own call, for another of its wallets.
PointedElsewhere(l) ==
    /\ links'[l] # NoLink
    /\ links'[l].owner \in Controls[l] \ {links[l].owner}
    /\ \E c \in Call :
          calls[c].pc = "write" /\ calls[c].login = l /\ calls[c].account = links'[l].account

\* An owner that has a link keeps one, and it never goes back to an older account.  The
\* one exception is the call of the very login that holds it, for another wallet of
\* that login; no other login's rebinding, moving or inserting loses it.
LinksSurvive ==
    [][\A l \in Login : Linked(l) => OwnerStaysLinked(l) \/ PointedElsewhere(l)]_vars

\* As long as no release has changed the signer provider, a request is only ever signed
\* for by an agent whose policy is for the request's account, also when its link moves
\* or is pointed elsewhere between the claim and the lookup of the signer
\* (worker-entry.ts:107).  After a change it need not be: the UPDATE that moves a kept
\* KMS link (route.ts:159) does not look at the agent the row has by then.
ServedByItsAgent ==
    ~ release.switched =>
        \A r \in Request : requests[r].state = "served" =>
            requests[r].agent = KmsKey \/ requests[r].agent.account = requests[r].account

\* A queued request ends, unless its account is no longer linked or its link is of
\* the other signer provider: those rows claimNext skips (journal.ts:134), and a
\* moved link leaves them behind for good.
QueueIsServedUnlessMoved ==
    \A r \in Request : requests[r].state = "queued" ~> ~ Claimable(r)

=============================================================================
