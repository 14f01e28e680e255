-------------------------- MODULE AccountSetup_proofs --------------------------
(***************************************************************************)
(* Proofs about AccountSetup, for any number of owners, logins, setup      *)
(* calls, requests and releases, and any linking of wallets to logins.     *)
(*                                                                         *)
(* A call decides on what it read and writes much later.  What keeps the   *)
(* late write right is in CallsSound: the account a call was admitted with *)
(* stays its owner's while the release lasts.  The row it read may have    *)
(* moved on and been replaced; which agent it then has is known only until *)
(* a release changes the signer provider (AgentInv, Steady).               *)
(***************************************************************************)
EXTENDS AccountSetup, TLAPS

Live(c) == calls[c].pc # "idle"

CallSound(c) ==
    LET call == calls[c] IN
    /\ call.account = AccountOf(call.account.owner)
    /\ call.account.owner \in Controls[call.login]
    /\ call.account \in created
    /\ call.pc = "rebind" => call.found # call.login

CallsSound == \A c \in Call : Live(c) => CallSound(c)

\* No link is ahead of the factory in use.
LinksAreDue == \A l \in Login : Linked(l) => links[l].account.factory <= release.factory

\* The worker's copy is of a queued row; only the row's login may have moved on.
JobSound ==
    job # NoJob => /\ job \in [req: Request, login: Login, account: Account]
                   /\ requests[job.req].state = "queued"
                   /\ requests[job.req].account = job.account

\* The foreign key of the journal: a request is under a login that has a link.
JournalLinked ==
    \A r \in Request : requests[r].state # "absent" => Linked(requests[r].login)

LinkInv == LinksAgree /\ LinksAreDue

IInv == /\ TypeOK
        /\ LinkInv
        /\ CallsSound
        /\ JobSound
        /\ JournalLinked

\* What a step may do to links and to the requests under them.
LinksStep ==
    \A l \in Login : Linked(l) => OwnerStaysLinked(l) \/ PointedElsewhere(l)

RequestsStep == \A r \in Request : requests[r].state # "absent" => FollowsItsLink(r)

Preserved == IInv' /\ LinksStep /\ RequestsStep

USE ControlsAssumption, ChoicesAssumption, ProvidersAssumption, ReleaseAssumption,
    NoneAssumption

-----------------------------------------------------------------------------
(* Records *)

ActiveCall == [pc: {"rebind", "write", "save"}, login: Login, account: Account,
               mode: Mode, found: Login, row: Link \cup {NoLink}]

CallsType == calls \in [Call -> CallState]

LinkType == links \in [Login -> Link \cup {NoLink}]

LEMMA LiveCall ==
    ASSUME TypeOK, NEW c \in Call, Live(c)
    PROVE  calls[c] \in ActiveCall
PROOF BY DEF TypeOK, CallState, Live, ActiveCall

LEMMA PresentRequest ==
    ASSUME TypeOK, NEW r \in Request, requests[r].state # "absent"
    PROVE  requests[r] \in [state: {"queued", "served", "blocked"}, login: Login,
                            account: Account, agent: Agent \cup {NoAgent}]
PROOF BY DEF TypeOK, RequestState, Unsent

LEMMA LinkedRow ==
    ASSUME TypeOK, NEW l \in Login, Linked(l)
    PROVE  /\ links[l] \in Link
           /\ links[l].account.factory \in Int
PROOF BY DEF TypeOK, Linked, Link, Account, Generation

\* What the factory answers is an account of the owner.
LEMMA AccountOfType ==
    ASSUME TypeOK, NEW o \in Owner
    PROVE  /\ AccountOf(o) \in Account
           /\ AccountOf(o).owner = o
           /\ AccountOf(o).factory = release.factory
PROOF BY DEF TypeOK, AccountOf, Account

-----------------------------------------------------------------------------
(* Links *)

\* Links that stay as they are.
LEMMA UnchangedLinks ==
    ASSUME TypeOK, links' = links
    PROVE  LinksStep
PROOF
<1> SUFFICES ASSUME NEW l \in Login, Linked(l)
             PROVE  OwnerStaysLinked(l)
  BY DEF LinksStep
<1> QED
  BY LinkedRow DEF OwnerStaysLinked, Linked

\* An INSERT or UPDATE of an admitted call keeps the links true.
LEMMA WrittenLinks ==
    ASSUME TypeOK, LinkInv, NEW c \in Call, Live(c), CallSound(c),
           calls[c].pc = "write",
           NEW agent \in Agent,
           Insert(calls[c], agent) \/ Update(calls[c], agent),
           UNCHANGED <<created, release>>
    PROVE  /\ LinkType'
           /\ LinkInv'
           /\ LinksStep
           /\ \A l \in Login : Linked(l) => Linked(l)'
PROOF
<1> DEFINE call == calls[c]
           login == call.login
           owner == call.account.owner
<1>1. /\ login \in Login
      /\ call.account \in Account
      /\ call.account.factory = release.factory
      /\ call.account \in created
      /\ owner \in Owner
      /\ owner \in Controls[login]
  BY LiveCall, AccountOfType DEF CallSound, ActiveCall, Account
<1>2. links \in [Login -> Link \cup {NoLink}]
  BY DEF TypeOK
<1>3. CASE links' = links
  BY <1>2, <1>3, UnchangedLinks DEF LinkType, LinkInv, LinksAgree, LinksAreDue, Linked
<1>4. ASSUME NEW row \in Link,
             row.owner = owner, row.account = call.account,
             Fits(login, call.account),
             links' = [links EXCEPT ![login] = row]
      PROVE  /\ LinkType'
             /\ LinkInv'
             /\ LinksStep
             /\ \A l \in Login : Linked(l) => Linked(l)'
  <2>1. /\ links'[login] = row
        /\ \A l \in Login \ {login} : links'[l] = links[l]
        /\ row # NoLink
    BY <1>1, <1>2, <1>4, NoneAssumption
  <2>2. LinkType'
    BY <1>2, <1>4 DEF LinkType
  <2>3. LinksAgree'
    BY <2>1, <1>1, <1>4 DEF LinkInv, LinksAgree, Linked, Fits
  <2>4. LinksAreDue'
    BY <2>1, <1>1, <1>4 DEF LinkInv, LinksAreDue, Linked, TypeOK, Generation
  <2>5. LinksStep
    <3> SUFFICES ASSUME NEW l \in Login, Linked(l)
                 PROVE  OwnerStaysLinked(l) \/ PointedElsewhere(l)
      BY DEF LinksStep
    <3>1. links[l].account.factory \in Int
      BY LinkedRow
    <3>2. CASE l = login /\ links[l].owner = owner
      BY <3>2, <2>1, <1>1, <1>4, <3>1 DEF LinkInv, LinksAreDue, OwnerStaysLinked
    <3>3. CASE l = login /\ links[l].owner # owner
      BY <3>3, <2>1, <1>1, <1>4 DEF PointedElsewhere
    <3>4. CASE l # login
      BY <3>4, <2>1, <3>1 DEF Linked, OwnerStaysLinked
    <3> QED
      BY <3>2, <3>3, <3>4
  <2> QED
    BY <2>1, <2>2, <2>3, <2>4, <2>5 DEF LinkInv, Linked
<1> DEFINE new == [owner |-> call.account.owner, account |-> call.account,
                   agent |-> agent, mode |-> "allowlist"]
           old == [links[login] EXCEPT !.owner = call.account.owner,
                                       !.account = call.account, !.agent = agent]
<1>5. CASE Insert(call, agent)
  <2>1. new \in Link
    BY <1>1 DEF Link, Mode
  <2>2. links' = [links EXCEPT ![login] = new] /\ Fits(login, call.account)
    BY <1>5 DEF Insert
  <2> QED
    BY <2>1, <2>2, <1>4, <1>1
<1>6. CASE Update(call, agent) /\ Linked(login)
  <2>1. links[login] \in Link
    BY <1>6, <1>1, <1>2 DEF Linked
  <2>2. /\ old \in Link
        /\ old.owner = owner
        /\ old.account = call.account
    BY <2>1, <1>1 DEF Link
  <2>3. links' = [links EXCEPT ![login] = old] /\ Fits(login, call.account)
    BY <1>6, <1>1, <1>2 DEF Update
  <2> QED
    BY <2>2, <2>3, <1>4
<1> QED
  BY <1>3, <1>5, <1>6 DEF Update

-----------------------------------------------------------------------------
(* Calls *)

\* A step of one call, or of none.
LEMMA OtherCalls ==
    ASSUME TypeOK, CallsSound, created \subseteq created', UNCHANGED release,
           NEW c \in Call, \A d \in Call \ {c} : calls'[d] = calls[d],
           Live(c)' => CallSound(c)'
    PROVE  CallsSound'
PROOF
<1> SUFFICES ASSUME NEW d \in Call, Live(d)'
             PROVE  CallSound(d)'
  BY DEF CallsSound
<1>1. CASE d = c
  BY <1>1
<1>2. CASE d # c
  BY <1>2 DEF CallsSound, CallSound, Live, AccountOf
<1> QED
  BY <1>1, <1>2

LEMMA NoCall ==
    ASSUME CallsSound, created \subseteq created', UNCHANGED <<release, calls>>
    PROVE  CallsSound'
PROOF BY DEF CallsSound, CallSound, Live, AccountOf

\* With leaves a sound call.
LEMMA WithSound ==
    ASSUME TypeOK, NEW c \in Call, NEW call \in ActiveCall,
           NEW row \in Link \cup {NoLink},
           call.account = AccountOf(call.account.owner),
           call.account.owner \in Controls[call.login],
           call.account \in created,
           calls' = [calls EXCEPT ![c] = With(call, row)],
           UNCHANGED <<release, created>>
    PROVE  CallsType' /\ CallSound(c)'
PROOF
<1>1. /\ With(call, row) \in ActiveCall
      /\ With(call, row).account = call.account
      /\ With(call, row).login = call.login
      /\ With(call, row).pc \in {"write", "save"}
  BY DEF With, ActiveCall
<1>2. calls'[c] = With(call, row) /\ CallsType'
  BY <1>1 DEF TypeOK, CallsType, CallState, ActiveCall
<1> QED
  BY <1>1, <1>2 DEF CallSound, AccountOf

\* A call that is over.
LEMMA DoneCall ==
    ASSUME TypeOK, NEW c \in Call, calls' = [calls EXCEPT ![c] = Done]
    PROVE  CallsType' /\ ~ Live(c)'
PROOF BY DEF TypeOK, CallsType, CallState, Done, Live

-----------------------------------------------------------------------------
(* Requests *)

\* What a step that neither unlinks a login nor touches the journal leaves of it.
LEMMA JournalUntouched ==
    ASSUME TypeOK, JobSound, JournalLinked,
           UNCHANGED <<requests, job>>,
           \A l \in Login : Linked(l) => Linked(l)'
    PROVE  JobSound' /\ JournalLinked' /\ RequestsStep
PROOF
<1>1. JobSound'
  BY DEF JobSound
<1>2. JournalLinked' /\ RequestsStep
  <2> SUFFICES ASSUME NEW r \in Request, requests[r].state # "absent"
               PROVE  links'[requests[r].login] # NoLink
    BY DEF JournalLinked, RequestsStep, FollowsItsLink, Linked
  <2>1. requests[r].login \in Login
    BY PresentRequest
  <2> QED
    BY <2>1 DEF JournalLinked, Linked
<1> QED
  BY <1>1, <1>2

-----------------------------------------------------------------------------
(* One lemma per action *)

LEMMA InitInv == Init => IInv
PROOF
<1> SUFFICES ASSUME Init PROVE IInv
  OBVIOUS
<1>1. /\ \A l \in Login : ~ Linked(l)
      /\ \A c \in Call : ~ Live(c)
      /\ \A r \in Request : requests[r].state = "absent"
      /\ job = NoJob
  BY DEF Init, Linked, Live, Done, Unsent
<1>2. TypeOK
  <2>1. release \in [factory: Generation, revision: Generation,
                    provider: {"privy", "aws_kms"}, switched: BOOLEAN]
    BY DEF Init, Generation
  <2>2. /\ links \in [Login -> Link \cup {NoLink}]
        /\ calls \in [Call -> CallState]
        /\ requests \in [Request -> RequestState]
    BY DEF Init, CallState, RequestState, Done, Unsent
  <2> QED
    BY <2>1, <2>2 DEF Init, TypeOK
<1> QED
  BY <1>1, <1>2 DEF IInv, LinkInv, LinksAgree, LinksAreDue, CallsSound, JobSound,
     JournalLinked

LEMMA CreateAccountStep ==
    ASSUME IInv, NEW o \in Owner, CreateAccount(o)
    PROVE  Preserved
PROOF
<1> USE DEF IInv
<1>1. /\ created \subseteq created'
      /\ links' = links
      /\ UNCHANGED <<release, listed, calls, requests, job>>
  BY DEF CreateAccount
<1>2. TypeOK'
  BY <1>1, AccountOfType DEF CreateAccount, TypeOK
<1>3. LinkInv'
  BY <1>1 DEF LinkInv, LinksAgree, LinksAreDue, Linked
<1>4. LinksStep
  BY <1>1, UnchangedLinks
<1>5. CallsSound'
  BY <1>1, NoCall
<1>6. JobSound' /\ JournalLinked' /\ RequestsStep
  BY <1>1, JournalUntouched DEF Linked
<1> QED
  BY <1>2, <1>3, <1>4, <1>5, <1>6 DEF Preserved

LEMMA ReleaseStep ==
    ASSUME IInv, Release
    PROVE  Preserved
PROOF
<1> USE DEF IInv
<1>1. /\ UNCHANGED <<created, links, listed, requests>>
      /\ job' = NoJob
      /\ calls' = [c \in Call |-> Done]
  BY DEF Release
<1>2. /\ release' \in [factory: Generation, revision: Generation,
                       provider: {"privy", "aws_kms"}, switched: BOOLEAN]
      /\ release.factory <= release'.factory
  BY DEF Release, TypeOK, Generation
<1>3. TypeOK'
  BY <1>1, <1>2 DEF TypeOK, CallState, Done
<1>4. LinksAgree'
  BY <1>1 DEF LinkInv, LinksAgree, Linked
<1>5. LinksAreDue'
  <2> SUFFICES ASSUME NEW l \in Login, Linked(l)
               PROVE  links[l].account.factory <= release'.factory
    BY <1>1 DEF LinksAreDue, Linked
  <2>1. /\ links[l].account.factory <= release.factory
        /\ links[l].account.factory \in Int
    BY LinkedRow DEF LinkInv, LinksAreDue
  <2> QED
    BY <2>1, <1>2 DEF TypeOK, Generation
<1>6. LinksStep
  BY <1>1, UnchangedLinks
<1>7. CallsSound' /\ JobSound'
  BY <1>1 DEF CallsSound, Live, Done, JobSound
<1>8. JournalLinked' /\ RequestsStep
  BY <1>1 DEF JournalLinked, RequestsStep, FollowsItsLink, Linked
<1> QED
  BY <1>3, <1>4, <1>5, <1>6, <1>7, <1>8 DEF Preserved, LinkInv

LEMMA BeginStep ==
    ASSUME IInv, NEW c \in Call, NEW l \in Login, NEW mode \in Choices,
           NEW o \in Controls[l],
           Begin(c, l, o, mode)
    PROVE  Preserved
PROOF
<1> USE DEF IInv
<1> DEFINE call == [pc |-> "rebind", login |-> l, account |-> AccountOf(o),
                    mode |-> mode, found |-> l, row |-> NoLink]
<1>1. /\ AccountOf(o) \in created
      /\ UNCHANGED <<release, created, links, listed, requests, job>>
      /\ o \in Owner
      /\ mode \in Mode
  BY DEF Begin, Mode
<1>2. /\ call \in ActiveCall
      /\ call.account = AccountOf(call.account.owner)
      /\ call.account.owner \in Controls[call.login]
  BY <1>1, AccountOfType DEF ActiveCall
<1>3. LinksStep
  BY <1>1, UnchangedLinks
<1>4. LinkInv'
  BY <1>1 DEF LinkInv, LinksAgree, LinksAreDue, Linked
<1>5. CallsType' /\ CallSound(c)' /\ (\A d \in Call \ {c} : calls'[d] = calls[d])
  <2>1. CASE calls' = [calls EXCEPT ![c] = With(call, NoLink)]
    BY <2>1, <1>1, <1>2, WithSound DEF TypeOK
  <2>2. CASE Matches(l, o) = {l} /\ calls' = [calls EXCEPT ![c] = With(call, links[l])]
    <3>1. links[l] \in Link \cup {NoLink}
      BY DEF TypeOK
    <3> QED
      BY <2>2, <3>1, <1>1, <1>2, WithSound DEF TypeOK
  <2>3. ASSUME NEW m \in Login \ {l},
               calls' = [calls EXCEPT ![c] = [call EXCEPT !.found = m]]
        PROVE  CallsType' /\ CallSound(c)' /\ (\A d \in Call \ {c} : calls'[d] = calls[d])
    <3>1. /\ [call EXCEPT !.found = m] \in ActiveCall
          /\ [call EXCEPT !.found = m] =
                 [pc |-> "rebind", login |-> l, account |-> AccountOf(o),
                  mode |-> mode, found |-> m, row |-> NoLink]
      BY <1>2 DEF ActiveCall
    <3>2. /\ calls'[c] = [pc |-> "rebind", login |-> l, account |-> AccountOf(o),
                          mode |-> mode, found |-> m, row |-> NoLink]
          /\ CallsType'
          /\ \A d \in Call \ {c} : calls'[d] = calls[d]
      BY <2>3, <3>1 DEF TypeOK, CallsType, CallState, ActiveCall
    <3> QED
      BY <2>3, <3>2, <1>1, <1>2 DEF CallSound, AccountOf
  <2> QED
    BY <2>1, <2>2, <2>3 DEF Begin
<1>6. TypeOK'
  BY <1>1, <1>5 DEF TypeOK, CallsType
<1>7. CallsSound'
  BY <1>1, <1>5, OtherCalls
<1>8. JobSound' /\ JournalLinked' /\ RequestsStep
  BY <1>1, JournalUntouched DEF Linked
<1> QED
  BY <1>3, <1>4, <1>6, <1>7, <1>8 DEF Preserved

\* `call' and `row' are what the call and the link it moves were before the step.
LEMMA RebindStep ==
    ASSUME IInv, NEW c \in Call, Rebind(c),
           NEW call, call = calls[c], NEW row, row = links[call.found]
    PROVE  Preserved
PROOF
<1> USE DEF IInv
<1>1. /\ Live(c)
      /\ CallSound(c)
      /\ call \in ActiveCall
      /\ call.pc = "rebind"
      /\ calls' = [calls EXCEPT ![c] = With(call, row)]
      /\ UNCHANGED <<release, created, listed, job>>
  BY LiveCall DEF Rebind, Live, CallsSound
<1>2. /\ call.login \in Login
      /\ call.found \in Login
      /\ call.found # call.login
  BY <1>1 DEF CallSound, ActiveCall
<1>3. row \in Link \cup {NoLink} /\ links \in [Login -> Link \cup {NoLink}]
  BY <1>2 DEF TypeOK
<1>4. ASSUME /\ LinkType'
             /\ LinkInv'
             /\ LinksStep
             /\ requests' \in [Request -> RequestState]
             /\ JobSound' /\ JournalLinked' /\ RequestsStep
      PROVE  Preserved
  <2>1. CallsType' /\ CallSound(c)'
    BY <1>1, <1>3, WithSound DEF CallSound
  <2>2. TypeOK'
    BY <1>1, <1>4, <2>1 DEF TypeOK, CallsType, LinkType
  <2>3. \A d \in Call \ {c} : calls'[d] = calls[d]
    BY <1>1 DEF TypeOK
  <2>4. CallsSound'
    BY <1>1, <2>1, <2>3, OtherCalls
  <2> QED
    BY <1>4, <2>2, <2>4 DEF Preserved
<1>5. CASE row = NoLink
  <2>1. UNCHANGED <<links, requests>>
    BY <1>5 DEF Rebind
  <2>2. LinksStep
    BY <2>1, UnchangedLinks
  <2>3. LinkInv' /\ LinkType'
    BY <2>1, <1>1, <1>3 DEF LinkInv, LinksAgree, LinksAreDue, Linked, LinkType
  <2>4. JobSound' /\ JournalLinked' /\ RequestsStep
    BY <2>1, <1>1, JournalUntouched DEF Linked
  <2> QED
    BY <2>1, <2>2, <2>3, <2>4, <1>4 DEF TypeOK
<1>6. CASE row # NoLink
  <2>1. /\ ~ Linked(call.login)
        /\ links' = Renamed(call.found, call.login)
        /\ requests' = Cascaded(call.found, call.login)
    BY <1>6 DEF Rebind
  <2>2. /\ links'[call.login] = row
        /\ links'[call.found] = NoLink
        /\ \A m \in Login \ {call.login, call.found} : links'[m] = links[m]
        /\ LinkType'
    BY <2>1, <1>2, <1>3 DEF Renamed, LinkType
  <2>3. LinksAgree'
    BY <1>1, <1>2, <1>6, <2>2 DEF LinkInv, LinksAgree, Linked
  <2>4. LinksAreDue'
    BY <1>1, <1>2, <1>6, <2>2 DEF LinkInv, LinksAreDue, Linked
  <2>5. LinksStep
    <3> SUFFICES ASSUME NEW l \in Login, Linked(l)
                 PROVE  OwnerStaysLinked(l)
      BY DEF LinksStep
    <3>1. links[l].account.factory \in Int
      BY LinkedRow
    <3>2. PICK m \in Login : links'[m] = links[l]
      BY <1>2, <2>1, <2>2
    <3> QED
      BY <3>1, <3>2 DEF Linked, OwnerStaysLinked
  <2>6. \A r \in Request :
            \/ requests[r].state = "absent" /\ requests'[r] = requests[r]
            \/ /\ requests[r].state # "absent"
               /\ requests[r].login # call.found
               /\ requests'[r] = requests[r]
            \/ /\ requests[r].state # "absent"
               /\ requests[r].login = call.found
               /\ requests'[r] = [requests[r] EXCEPT !.login = call.login]
    BY <2>1 DEF Cascaded
  <2>7. \A r \in Request :
            /\ requests'[r] \in RequestState
            /\ requests'[r].state = requests[r].state
            /\ requests[r].state # "absent" =>
                   /\ requests'[r].account = requests[r].account
                   /\ requests'[r].login = IF requests[r].login = call.found
                                           THEN call.login ELSE requests[r].login
    <3> SUFFICES ASSUME NEW r \in Request
                 PROVE  /\ requests'[r] \in RequestState
                        /\ requests'[r].state = requests[r].state
                        /\ requests[r].state # "absent" =>
                               /\ requests'[r].account = requests[r].account
                               /\ requests'[r].login =
                                      IF requests[r].login = call.found
                                      THEN call.login ELSE requests[r].login
      OBVIOUS
    <3>1. CASE requests[r].state = "absent"
      BY <3>1, <2>6 DEF TypeOK
    <3>2. CASE requests[r].state # "absent"
      <4>1. requests[r] \in [state: {"queued", "served", "blocked"}, login: Login,
                             account: Account, agent: Agent \cup {NoAgent}]
        BY <3>2, PresentRequest
      <4>2. CASE requests[r].login # call.found
        BY <4>1, <4>2, <3>2, <2>6 DEF RequestState
      <4>3. CASE requests[r].login = call.found
        <5>1. requests'[r] = [requests[r] EXCEPT !.login = call.login]
          BY <4>3, <3>2, <2>6
        <5> QED
          BY <4>1, <4>3, <5>1, <1>2 DEF RequestState
      <4> QED
        BY <4>2, <4>3
    <3> QED
      BY <3>1, <3>2
  <2>8. requests' \in [Request -> RequestState]
    BY <2>1, <2>7 DEF Cascaded
  <2>9. JobSound'
    BY <1>1, <2>7 DEF JobSound
  <2>10. JournalLinked' /\ RequestsStep
    <3> SUFFICES ASSUME NEW r \in Request, requests[r].state # "absent"
                 PROVE  links'[requests'[r].login] # NoLink /\ FollowsItsLink(r)
      BY <2>7 DEF JournalLinked, RequestsStep, Linked
    <3>1. /\ links[requests[r].login] # NoLink
          /\ requests[r].login \in Login
      BY PresentRequest DEF JournalLinked, Linked
    <3>2. CASE requests[r].login = call.found
      BY <3>2, <2>7, <2>2, <1>6 DEF FollowsItsLink
    <3>3. CASE requests[r].login # call.found
      <4>1. requests'[r].login = requests[r].login
        BY <3>3, <2>7
      <4>2. requests[r].login # call.login
        BY <3>1, <2>1 DEF Linked
      <4> QED
        BY <4>1, <4>2, <3>1, <3>3, <2>2 DEF FollowsItsLink
    <3> QED
      BY <3>2, <3>3
  <2> QED
    BY <1>4, <2>2, <2>3, <2>4, <2>5, <2>8, <2>9, <2>10 DEF LinkInv
<1> QED
  BY <1>5, <1>6

\* Where the three writes agree: the link is written as an admitted call may, and
\* the call goes on to save the recipient choice.
LEMMA WriteStep ==
    ASSUME IInv, NEW c \in Call, Writing(c),
           NEW agent \in Agent,
           Insert(calls[c], agent) \/ Update(calls[c], agent)
    PROVE  Preserved
PROOF
<1> USE DEF IInv
<1>1. /\ Live(c)
      /\ CallSound(c)
      /\ calls[c] \in ActiveCall
      /\ calls[c].pc = "write"
      /\ calls' = [calls EXCEPT ![c].pc = "save", ![c].row = NoLink]
      /\ UNCHANGED <<release, created, listed, requests, job>>
  BY LiveCall DEF Writing, Live, CallsSound
<1>2. /\ LinkType'
      /\ LinkInv'
      /\ LinksStep
      /\ \A l \in Login : Linked(l) => Linked(l)'
  BY <1>1, WrittenLinks
<1>3. /\ calls'[c] = [calls[c] EXCEPT !.pc = "save", !.row = NoLink]
      /\ calls'[c] \in ActiveCall
      /\ \A d \in Call \ {c} : calls'[d] = calls[d]
      /\ CallsType'
  BY <1>1 DEF TypeOK, CallsType, CallState, ActiveCall
<1>4. CallSound(c)'
  <2>1. /\ calls'[c].pc = "save"
        /\ calls'[c].login = calls[c].login
        /\ calls'[c].account = calls[c].account
    <3>1. calls[c] \in ActiveCall
      BY <1>1
    <3> QED
      BY <1>3, <3>1 DEF ActiveCall
  <2>2. UNCHANGED <<release, created>> /\ CallSound(c)
    BY <1>1
  <2> QED
    BY <2>1, <2>2 DEF CallSound, AccountOf
<1>5. CallsSound'
  BY <1>1, <1>3, <1>4, OtherCalls
<1>6. TypeOK'
  BY <1>1, <1>2, <1>3 DEF TypeOK, CallsType, LinkType
<1>7. JobSound' /\ JournalLinked' /\ RequestsStep
  BY <1>1, <1>2, JournalUntouched
<1> QED
  BY <1>2, <1>5, <1>6, <1>7 DEF Preserved

\* The agent that stays is whatever the row has by then.
LEMMA MoveLinkStep ==
    ASSUME IInv, NEW c \in Call, MoveLink(c)
    PROVE  Preserved
PROOF
<1> USE DEF IInv
<1>1. Writing(c) /\ Update(calls[c], links[calls[c].login].agent)
  BY DEF MoveLink
<1>2. calls[c].login \in Login
  BY <1>1, LiveCall DEF Writing, Live, ActiveCall
<1>3. CASE Linked(calls[c].login)
  <2>1. links[calls[c].login].agent \in Agent
    BY <1>2, <1>3, LinkedRow DEF Link
  <2> QED
    BY <1>1, <2>1, WriteStep
<1>4. CASE ~ Linked(calls[c].login)
  <2>1. Update(calls[c], KmsKey)
    BY <1>1, <1>4 DEF Update
  <2> QED
    BY <1>1, <2>1, WriteStep DEF Agent
<1> QED
  BY <1>3, <1>4

LEMMA InsertKmsLinkStep ==
    ASSUME IInv, NEW c \in Call, InsertKmsLink(c)
    PROVE  Preserved
PROOF
<1>1. Writing(c) /\ Insert(calls[c], KmsKey)
  BY DEF InsertKmsLink
<1> QED
  BY <1>1, WriteStep DEF Agent

LEMMA ProvisionPrivyStep ==
    ASSUME IInv, NEW c \in Call, ProvisionPrivy(c)
    PROVE  Preserved
PROOF
<1> USE DEF IInv
<1> DEFINE wallet == WalletFor(calls[c])
<1>1. Writing(c) /\ (Insert(calls[c], wallet) \/ Update(calls[c], wallet))
  BY DEF ProvisionPrivy
<1>2. wallet \in Agent
  BY <1>1, LiveCall DEF Writing, Live, ActiveCall, WalletFor, Wallet, Agent, TypeOK
<1> QED
  BY <1>1, <1>2, WriteStep

LEMMA SaveRecipientsStep ==
    ASSUME IInv, NEW c \in Call, SaveRecipients(c)
    PROVE  Preserved
PROOF
<1> USE DEF IInv
<1>1. /\ Live(c)
      /\ calls[c] \in ActiveCall
      /\ calls' = [calls EXCEPT ![c] = Done]
      /\ UNCHANGED <<release, created, requests, job>>
  BY LiveCall DEF SaveRecipients, Live
<1>2. \A l \in Login :
          /\ links'[l] \in Link \cup {NoLink}
          /\ Linked(l) <=> Linked(l)'
          /\ Linked(l) => /\ links'[l].owner = links[l].owner
                          /\ links'[l].account = links[l].account
  <2> SUFFICES ASSUME NEW l \in Login
               PROVE  /\ links'[l] \in Link \cup {NoLink}
                      /\ Linked(l) <=> Linked(l)'
                      /\ Linked(l) => /\ links'[l].owner = links[l].owner
                                      /\ links'[l].account = links[l].account
    OBVIOUS
  <2>1. links'[l] = IF Linked(l) /\ links[l].account = calls[c].account
                    THEN [links[l] EXCEPT !.mode = calls[c].mode] ELSE links[l]
    BY DEF SaveRecipients
  <2>2. CASE Linked(l)
    <3>1. links[l] \in Link /\ calls[c].mode \in Mode
      BY <2>2, <1>1, LinkedRow DEF ActiveCall
    <3>2. [links[l] EXCEPT !.mode = calls[c].mode] \in Link
      BY <3>1 DEF Link
    <3> QED
      BY <2>1, <2>2, <3>1, <3>2, NoneAssumption DEF Link, Linked
  <2>3. CASE ~ Linked(l)
    BY <2>1, <2>3 DEF Linked
  <2> QED
    BY <2>2, <2>3
<1>3. LinkType'
  BY <1>2 DEF LinkType, SaveRecipients
<1>4. LinkInv'
  BY <1>1, <1>2 DEF LinkInv, LinksAgree, LinksAreDue
<1>5. LinksStep
  <2> SUFFICES ASSUME NEW l \in Login, Linked(l)
               PROVE  OwnerStaysLinked(l)
    BY DEF LinksStep
  <2>1. links[l].account.factory \in Int
    BY LinkedRow
  <2> QED
    BY <2>1, <1>2 DEF Linked, OwnerStaysLinked
<1>6. listed' \subseteq Account
  BY <1>1 DEF SaveRecipients, TypeOK, ActiveCall
<1>7. CallsType' /\ ~ Live(c)' /\ (\A d \in Call \ {c} : calls'[d] = calls[d])
  BY <1>1, DoneCall DEF TypeOK
<1>8. CallsSound'
  BY <1>1, <1>7, OtherCalls
<1>9. TypeOK'
  BY <1>1, <1>3, <1>6, <1>7 DEF TypeOK, CallsType, LinkType
<1>10. JobSound' /\ JournalLinked' /\ RequestsStep
  BY <1>1, <1>2, JournalUntouched
<1> QED
  BY <1>4, <1>5, <1>8, <1>9, <1>10 DEF Preserved

LEMMA CallEndsStep ==
    ASSUME IInv, NEW c \in Call, CallEnds(c)
    PROVE  Preserved
PROOF
<1> USE DEF IInv
<1>1. /\ calls' = [calls EXCEPT ![c] = Done]
      /\ UNCHANGED <<release, created, links, listed, requests, job>>
  BY DEF CallEnds
<1>2. CallsType' /\ ~ Live(c)' /\ (\A d \in Call \ {c} : calls'[d] = calls[d])
  BY <1>1, DoneCall DEF TypeOK
<1>3. LinksStep
  BY <1>1, UnchangedLinks
<1>4. CallsSound'
  BY <1>1, <1>2, OtherCalls
<1>5. TypeOK' /\ LinkInv'
  BY <1>1, <1>2 DEF TypeOK, CallsType, LinkInv, LinksAgree, LinksAreDue, Linked
<1>6. JobSound' /\ JournalLinked' /\ RequestsStep
  BY <1>1, JournalUntouched DEF Linked
<1> QED
  BY <1>3, <1>4, <1>5, <1>6 DEF Preserved

LEMMA EnqueueStep ==
    ASSUME IInv, NEW r \in Request, NEW l \in Login, Enqueue(r, l)
    PROVE  Preserved
PROOF
<1> USE DEF IInv
<1> DEFINE row == [state |-> "queued", login |-> l, account |-> links[l].account,
                   agent |-> NoAgent]
<1>1. /\ requests[r].state = "absent"
      /\ Linked(l)
      /\ requests' = [requests EXCEPT ![r] = row]
      /\ UNCHANGED <<release, created, links, listed, calls, job>>
  BY DEF Enqueue
<1>2. row \in RequestState
  BY <1>1, LinkedRow DEF RequestState, Link
<1>3. TypeOK'
  BY <1>1, <1>2 DEF TypeOK
<1>4. requests'[r] = row /\ \A q \in Request \ {r} : requests'[q] = requests[q]
  BY <1>1 DEF TypeOK
<1>5. LinksStep
  BY <1>1, UnchangedLinks
<1>6. LinkInv' /\ CallsSound'
  BY <1>1, NoCall DEF LinkInv, LinksAgree, LinksAreDue, Linked
<1>7. JobSound'
  BY <1>1, <1>4 DEF JobSound
<1>8. JournalLinked' /\ RequestsStep
  BY <1>1, <1>4 DEF JournalLinked, RequestsStep, FollowsItsLink, Linked
<1> QED
  BY <1>3, <1>5, <1>6, <1>7, <1>8 DEF Preserved

LEMMA ClaimStep ==
    ASSUME IInv, NEW r \in Request, Claim(r)
    PROVE  Preserved
PROOF
<1> USE DEF IInv
<1>1. /\ requests[r].state = "queued"
      /\ job' = [req |-> r, login |-> requests[r].login,
                 account |-> requests[r].account]
      /\ UNCHANGED <<release, created, links, listed, calls, requests>>
  BY DEF Claim, Claimable
<1>2. JobSound' /\ job' \in [req: Request, login: Login, account: Account]
  BY <1>1, PresentRequest DEF JobSound
<1>3. TypeOK'
  BY <1>1, <1>2 DEF TypeOK
<1>4. LinksStep
  BY <1>1, UnchangedLinks
<1>5. LinkInv' /\ CallsSound'
  BY <1>1, NoCall DEF LinkInv, LinksAgree, LinksAreDue, Linked
<1>6. JournalLinked' /\ RequestsStep
  BY <1>1 DEF JournalLinked, RequestsStep, FollowsItsLink, Linked
<1> QED
  BY <1>2, <1>3, <1>4, <1>5, <1>6 DEF Preserved

\* The worker is done with its row, which is still the queued row it claimed.
LEMMA JobEnds ==
    ASSUME IInv, job # NoJob,
           NEW row \in RequestState,
           row.state \in {"served", "blocked"},
           row.login = requests[job.req].login,
           requests' = [requests EXCEPT ![job.req] = row],
           job' = NoJob,
           UNCHANGED <<release, created, links, listed, calls>>
    PROVE  Preserved
PROOF
<1> USE DEF IInv
<1>1. job.req \in Request /\ requests[job.req].state = "queued"
  BY DEF JobSound
<1>2. /\ requests'[job.req] = row
      /\ \A q \in Request \ {job.req} : requests'[q] = requests[q]
  BY <1>1 DEF TypeOK
<1>3. TypeOK'
  BY <1>1 DEF TypeOK
<1>4. LinksStep
  BY UnchangedLinks
<1>5. LinkInv' /\ CallsSound' /\ JobSound'
  BY NoCall DEF LinkInv, LinksAgree, LinksAreDue, Linked, JobSound
<1>6. JournalLinked' /\ RequestsStep
  <2> SUFFICES ASSUME NEW r \in Request, requests'[r].state # "absent"
               PROVE  /\ requests'[r].login = requests[r].login
                      /\ links[requests[r].login] # NoLink
    BY <1>1, <1>2 DEF JournalLinked, RequestsStep, FollowsItsLink, Linked
  <2>1. CASE r = job.req
    BY <1>1, <1>2, <2>1 DEF JournalLinked, Linked
  <2>2. CASE r # job.req
    BY <1>2, <2>2 DEF JournalLinked, Linked
  <2> QED
    BY <2>1, <2>2
<1> QED
  BY <1>3, <1>4, <1>5, <1>6 DEF Preserved

\* The row that Serve writes, field by field.
LEMMA ServedRow ==
    ASSUME IInv, Serve,
           NEW row, row = [requests[job.req] EXCEPT !.state = "served",
                                                    !.agent = links[job.login].agent]
    PROVE  /\ job # NoJob
           /\ job.req \in Request
           /\ job.login \in Login
           /\ Linked(job.login)
           /\ row \in RequestState
           /\ row.state = "served"
           /\ row.login = requests[job.req].login
           /\ row.account = links[job.login].account
           /\ row.agent = links[job.login].agent
           /\ requests' = [requests EXCEPT ![job.req] = row]
PROOF
<1> USE DEF IInv
<1>1. /\ job # NoJob
      /\ job \in [req: Request, login: Login, account: Account]
      /\ requests[job.req].state = "queued"
      /\ requests[job.req].account = job.account
      /\ Linked(job.login)
      /\ links[job.login].account = job.account
      /\ requests' = [requests EXCEPT ![job.req].state = "served",
                                      ![job.req].agent = links[job.login].agent]
  BY DEF Serve, ContextFound, JobSound
<1>2. requests[job.req] \in [state: {"queued", "served", "blocked"}, login: Login,
                             account: Account, agent: Agent \cup {NoAgent}]
  BY <1>1, PresentRequest
<1>3. links[job.login] \in Link
  BY <1>1, LinkedRow
<1>4. /\ row \in RequestState
      /\ row.state = "served"
      /\ row.login = requests[job.req].login
      /\ row.account = requests[job.req].account
      /\ row.agent = links[job.login].agent
  BY <1>2, <1>3 DEF RequestState, Link
<1>5. requests' = [requests EXCEPT ![job.req] = row]
  BY <1>1 DEF TypeOK
<1> QED
  BY <1>1, <1>4, <1>5

LEMMA ServeStep ==
    ASSUME IInv, Serve
    PROVE  Preserved
PROOF
<1>1. PICK row : row = [requests[job.req] EXCEPT !.state = "served",
                                                 !.agent = links[job.login].agent]
  OBVIOUS
<1>2. /\ row \in RequestState
      /\ row.state \in {"served", "blocked"}
      /\ row.login = requests[job.req].login
      /\ requests' = [requests EXCEPT ![job.req] = row]
      /\ job # NoJob
  BY <1>1, ServedRow
<1>3. job' = NoJob /\ UNCHANGED <<release, created, links, listed, calls>>
  BY DEF Serve
<1> QED
  BY <1>2, <1>3, JobEnds

LEMMA BlockStep ==
    ASSUME IInv, Block
    PROVE  Preserved
PROOF
<1> USE DEF IInv
<1> DEFINE row == [requests[job.req] EXCEPT !.state = "blocked"]
<1>1. /\ job # NoJob
      /\ job \in [req: Request, login: Login, account: Account]
      /\ requests[job.req].state = "queued"
      /\ job' = NoJob
      /\ requests' = [requests EXCEPT ![job.req].state = "blocked"]
      /\ UNCHANGED <<release, created, links, listed, calls>>
  BY DEF Block, Blocked, JobSound
<1>2. /\ row \in RequestState
      /\ row.state = "blocked"
      /\ row.login = requests[job.req].login
  BY <1>1, PresentRequest DEF RequestState
<1>3. requests' = [requests EXCEPT ![job.req] = row]
  BY <1>1 DEF TypeOK
<1> HIDE DEF row
<1> QED
  BY <1>1, <1>2, <1>3, JobEnds

-----------------------------------------------------------------------------
LEMMA StepInv == IInv /\ [Next]_vars => IInv' /\ LinksStep /\ RequestsStep
PROOF
<1> SUFFICES ASSUME IInv, [Next]_vars
             PROVE  Preserved
  BY DEF Preserved
<1>1. ASSUME NEW o \in Owner, CreateAccount(o)
      PROVE  Preserved
  BY <1>1, CreateAccountStep
<1>2. CASE Release
  BY <1>2, ReleaseStep
<1>3. ASSUME NEW c \in Call, Setup(c)
      PROVE  Preserved
  BY <1>3, BeginStep, RebindStep, MoveLinkStep, InsertKmsLinkStep, ProvisionPrivyStep,
     SaveRecipientsStep, CallEndsStep DEF Setup
<1>4. ASSUME NEW r \in Request, NEW l \in Login, Enqueue(r, l)
      PROVE  Preserved
  BY <1>4, EnqueueStep
<1>5. CASE Worker
  BY <1>5, ClaimStep, ServeStep, BlockStep DEF Worker
<1>6. CASE UNCHANGED vars
  <2> USE <1>6 DEF vars, IInv
  <2>1. LinksStep
    BY UnchangedLinks
  <2>2. CallsSound'
    BY NoCall
  <2>3. TypeOK' /\ LinkInv'
    BY DEF TypeOK, LinkInv, LinksAgree, LinksAreDue, Linked
  <2>4. JobSound' /\ JournalLinked' /\ RequestsStep
    BY JournalUntouched DEF Linked
  <2> QED
    BY <2>1, <2>2, <2>3, <2>4 DEF Preserved
<1> QED
  BY <1>1, <1>2, <1>3, <1>4, <1>5, <1>6 DEF Next

-----------------------------------------------------------------------------
(* One signer provider *)

\* Every link is by provider p, and a Privy one is for its agent's account.
LinksBy(p) ==
    \A l \in Login : Linked(l) =>
        /\ links[l].agent = KmsKey <=> p = "aws_kms"
        /\ p = "privy" => links[l].agent.account = links[l].account

\* Every request was signed for by an agent of its account.
OwnAgent ==
    \A r \in Request : requests[r].state = "served" =>
        requests[r].agent = KmsKey \/ requests[r].agent.account = requests[r].account

\* So was every row a call is going to write over; a kept one is for another account.
CallBy(p, c) ==
    calls[c].pc = "write" /\ calls[c].row # NoLink =>
        /\ calls[c].row.agent = KmsKey <=> p = "aws_kms"
        /\ Kept(calls[c].row, calls[c].account) => calls[c].row.account # calls[c].account

CallsBy(p) == \A c \in Call : CallBy(p, c)

AgentInv(p) ==
    /\ release.provider = p
    /\ LinksBy(p)
    /\ CallsBy(p)
    /\ OwnAgent

\* A step of one call, or of none.
LEMMA OtherCallsBy ==
    ASSUME NEW p, CallsBy(p), UNCHANGED release,
           NEW c \in Call, \A d \in Call \ {c} : calls'[d] = calls[d],
           CallBy(p, c)'
    PROVE  CallsBy(p)'
PROOF
<1> SUFFICES ASSUME NEW d \in Call PROVE CallBy(p, d)'
  BY DEF CallsBy
<1>1. CASE d = c
  BY <1>1
<1>2. CASE d # c
  BY <1>2 DEF CallsBy, CallBy, Kept
<1> QED
  BY <1>1, <1>2

\* What With makes of a row by provider p.
LEMMA WithBy ==
    ASSUME TypeOK, NEW p, NEW c \in Call, NEW call \in ActiveCall,
           NEW row \in Link \cup {NoLink},
           row # NoLink => (row.agent = KmsKey <=> p = "aws_kms"),
           calls' = [calls EXCEPT ![c] = With(call, row)],
           UNCHANGED release
    PROVE  CallBy(p, c)'
PROOF
<1>1. /\ With(call, row).account = call.account
      /\ With(call, row).pc \in {"write", "save"}
      /\ With(call, row).pc = "write" =>
             /\ With(call, row).row = row
             /\ ~ (Kept(row, call.account) /\ row.account = call.account)
  BY DEF With, ActiveCall
<1>2. calls'[c] = With(call, row)
  BY DEF TypeOK
<1> QED
  BY <1>1, <1>2 DEF CallBy, Kept

\* A write by provider p of an agent for the call's account.
LEMMA WriteBy ==
    ASSUME TypeOK, NEW p \in {"privy", "aws_kms"}, AgentInv(p),
           NEW c \in Call, Writing(c),
           NEW agent,
           agent = KmsKey <=> p = "aws_kms",
           p = "privy" => agent.account = calls[c].account,
           Insert(calls[c], agent) \/ Update(calls[c], agent)
    PROVE  AgentInv(p)'
PROOF
<1>1. /\ Live(c)
      /\ calls[c] \in ActiveCall
      /\ calls' = [calls EXCEPT ![c].pc = "save", ![c].row = NoLink]
      /\ UNCHANGED <<release, requests>>
  BY LiveCall DEF Writing, Live
<1>2. /\ calls'[c].pc = "save"
      /\ \A d \in Call \ {c} : calls'[d] = calls[d]
  BY <1>1 DEF TypeOK, ActiveCall
<1>3. CallsBy(p)'
  BY <1>1, <1>2, OtherCallsBy DEF AgentInv, CallBy
<1>4. LinksBy(p)'
  <2> DEFINE login == calls[c].login
             new == [owner |-> calls[c].account.owner, account |-> calls[c].account,
                     agent |-> agent, mode |-> "allowlist"]
             old == [links[login] EXCEPT !.owner = calls[c].account.owner,
                                         !.account = calls[c].account, !.agent = agent]
  <2>1. login \in Login /\ links \in [Login -> Link \cup {NoLink}]
    BY <1>1 DEF ActiveCall, TypeOK
  <2>2. ASSUME NEW row, row.agent = agent, row.account = calls[c].account,
               links' = [links EXCEPT ![login] = row]
        PROVE  LinksBy(p)'
    BY <2>1, <2>2 DEF AgentInv, LinksBy, Linked
  <2>3. CASE Insert(calls[c], agent)
    <3>1. links' = [links EXCEPT ![login] = new]
      BY <2>3 DEF Insert
    <3>2. new.agent = agent /\ new.account = calls[c].account
      OBVIOUS
    <3> HIDE DEF new
    <3> QED
      BY <3>1, <3>2, <2>2
  <2>4. CASE Update(calls[c], agent) /\ Linked(login)
    <3>1. links[login] \in Link
      BY <2>1, <2>4 DEF Linked
    <3>2. old.agent = agent /\ old.account = calls[c].account
      BY <3>1 DEF Link
    <3>3. links' = [links EXCEPT ![login] = old]
      BY <2>1, <2>4 DEF Update
    <3> QED
      BY <3>2, <3>3, <2>2
  <2>5. CASE links' = links
    BY <2>5 DEF AgentInv, LinksBy, Linked
  <2> QED
    BY <2>3, <2>4, <2>5 DEF Update
<1> QED
  BY <1>1, <1>3, <1>4 DEF AgentInv, OwnAgent

LEMMA BeginBy ==
    ASSUME IInv, NEW p, AgentInv(p),
           NEW c \in Call, NEW l \in Login, NEW mode \in Choices, NEW o \in Controls[l],
           Begin(c, l, o, mode)
    PROVE  AgentInv(p)'
PROOF
<1> DEFINE call == [pc |-> "rebind", login |-> l, account |-> AccountOf(o),
                    mode |-> mode, found |-> l, row |-> NoLink]
<1>1. UNCHANGED <<release, links, requests>> /\ mode \in Mode /\ o \in Owner
  BY DEF Begin, Mode
<1>2. call \in ActiveCall
  BY <1>1, AccountOfType DEF ActiveCall, IInv
<1>3. CallBy(p, c)' /\ \A d \in Call \ {c} : calls'[d] = calls[d]
  <2>1. CASE calls' = [calls EXCEPT ![c] = With(call, NoLink)]
    BY <2>1, <1>1, <1>2, WithBy DEF TypeOK, IInv
  <2>2. CASE Matches(l, o) = {l} /\ calls' = [calls EXCEPT ![c] = With(call, links[l])]
    <3>1. /\ links[l] \in Link \cup {NoLink}
          /\ links[l] # NoLink => (links[l].agent = KmsKey <=> p = "aws_kms")
      BY DEF TypeOK, IInv, AgentInv, LinksBy, Linked
    <3> QED
      BY <2>2, <3>1, <1>1, <1>2, WithBy DEF TypeOK, IInv
  <2>3. ASSUME NEW m \in Login \ {l},
               calls' = [calls EXCEPT ![c] = [call EXCEPT !.found = m]]
        PROVE  CallBy(p, c)' /\ \A d \in Call \ {c} : calls'[d] = calls[d]
    BY <2>3 DEF TypeOK, IInv, CallBy
  <2> QED
    BY <2>1, <2>2, <2>3 DEF Begin
<1>4. CallsBy(p)'
  BY <1>1, <1>3, OtherCallsBy DEF AgentInv
<1> QED
  BY <1>1, <1>4 DEF AgentInv, LinksBy, Linked, OwnAgent

LEMMA RebindBy ==
    ASSUME IInv, NEW p, AgentInv(p), NEW c \in Call, Rebind(c),
           NEW call, call = calls[c], NEW row, row = links[call.found]
    PROVE  AgentInv(p)'
PROOF
<1>1. /\ call \in ActiveCall
      /\ call.pc = "rebind"
      /\ calls' = [calls EXCEPT ![c] = With(call, row)]
      /\ UNCHANGED release
  BY LiveCall DEF Rebind, Live, IInv
<1>2. /\ call.login \in Login
      /\ call.found \in Login
      /\ links \in [Login -> Link \cup {NoLink}]
      /\ row \in Link \cup {NoLink}
      /\ row # NoLink => (row.agent = KmsKey <=> p = "aws_kms")
  BY <1>1 DEF ActiveCall, TypeOK, IInv, AgentInv, LinksBy, Linked
<1>3. CallBy(p, c)' /\ \A d \in Call \ {c} : calls'[d] = calls[d]
  BY <1>1, <1>2, WithBy DEF IInv, TypeOK
<1>4. CallsBy(p)'
  BY <1>1, <1>3, OtherCallsBy DEF AgentInv
<1>5. LinksBy(p)'
  <2>1. CASE links' = links
    BY <2>1 DEF AgentInv, LinksBy, Linked
  <2>2. CASE row # NoLink /\ links' = Renamed(call.found, call.login)
    BY <2>2, <1>2 DEF AgentInv, LinksBy, Linked, Renamed
  <2> QED
    BY <2>1, <2>2 DEF Rebind
<1>6. OwnAgent'
  <2>1. CASE requests' = requests
    BY <2>1 DEF AgentInv, OwnAgent
  <2>2. CASE requests' = Cascaded(call.found, call.login)
    <3> SUFFICES ASSUME NEW r \in Request, requests'[r].state = "served"
                 PROVE  requests'[r].agent = KmsKey
                        \/ requests'[r].agent.account = requests'[r].account
      BY DEF OwnAgent
    <3>1. CASE requests'[r] = requests[r]
      BY <3>1 DEF AgentInv, OwnAgent
    <3>2. CASE /\ requests[r].state # "absent"
               /\ requests'[r] = [requests[r] EXCEPT !.login = call.login]
      <4>1. /\ requests'[r].state = requests[r].state
            /\ requests'[r].agent = requests[r].agent
            /\ requests'[r].account = requests[r].account
        BY <3>2, PresentRequest DEF IInv
      <4> QED
        BY <4>1 DEF AgentInv, OwnAgent
    <3> QED
      BY <2>2, <3>1, <3>2 DEF Cascaded
  <2> QED
    BY <2>1, <2>2 DEF Rebind
<1> QED
  BY <1>1, <1>4, <1>5, <1>6 DEF AgentInv

\* A kept Privy link is for the account asked for, and so is not written.
LEMMA MoveLinkBy ==
    ASSUME IInv, NEW p \in {"privy", "aws_kms"}, AgentInv(p),
           NEW c \in Call, MoveLink(c)
    PROVE  AgentInv(p)'
PROOF
<1>1. /\ Writing(c)
      /\ calls[c].pc = "write"
      /\ Kept(calls[c].row, calls[c].account)
      /\ Update(calls[c], links[calls[c].login].agent)
      /\ calls[c].login \in Login
  BY LiveCall DEF MoveLink, Writing, Live, ActiveCall, IInv
<1>2. p = "aws_kms"
  BY <1>1 DEF AgentInv, CallsBy, CallBy, Kept
<1>3. Update(calls[c], KmsKey)
  <2>1. CASE Linked(calls[c].login)
    BY <1>1, <1>2, <2>1 DEF AgentInv, LinksBy
  <2>2. CASE ~ Linked(calls[c].login)
    BY <1>1, <2>2 DEF Update
  <2> QED
    BY <2>1, <2>2
<1> QED
  BY <1>1, <1>2, <1>3, WriteBy DEF IInv

LEMMA ProvisionPrivyBy ==
    ASSUME IInv, NEW p \in {"privy", "aws_kms"}, AgentInv(p),
           NEW c \in Call, ProvisionPrivy(c)
    PROVE  AgentInv(p)'
PROOF
<1> DEFINE wallet == WalletFor(calls[c])
<1>1. /\ Writing(c)
      /\ p = "privy"
      /\ Insert(calls[c], wallet) \/ Update(calls[c], wallet)
  BY DEF ProvisionPrivy, AgentInv
<1>2. wallet \in Wallet /\ wallet.account = calls[c].account
  BY <1>1, LiveCall DEF Writing, Live, ActiveCall, WalletFor, Wallet, TypeOK, IInv
<1>3. wallet # KmsKey
  BY <1>2
<1> HIDE DEF wallet
<1> QED
  BY <1>1, <1>2, <1>3, WriteBy DEF IInv

LEMMA SaveRecipientsBy ==
    ASSUME IInv, NEW p, AgentInv(p), NEW c \in Call, SaveRecipients(c)
    PROVE  AgentInv(p)'
PROOF
<1>1. UNCHANGED <<release, requests>> /\ calls' = [calls EXCEPT ![c] = Done]
  BY DEF SaveRecipients
<1>2. calls'[c] = Done /\ \A d \in Call \ {c} : calls'[d] = calls[d]
  BY <1>1 DEF TypeOK, IInv
<1>3. CallsBy(p)'
  BY <1>1, <1>2, OtherCallsBy DEF AgentInv, CallBy, Done
<1>4. LinksBy(p)'
  <2> SUFFICES ASSUME NEW l \in Login, links'[l] # NoLink
               PROVE  /\ links'[l].agent = KmsKey <=> p = "aws_kms"
                      /\ p = "privy" => links'[l].agent.account = links'[l].account
    BY DEF LinksBy, Linked
  <2>1. CASE links'[l] = links[l]
    BY <2>1 DEF AgentInv, LinksBy, Linked
  <2>2. CASE Linked(l) /\ links'[l] = [links[l] EXCEPT !.mode = calls[c].mode]
    <3>1. links'[l].agent = links[l].agent /\ links'[l].account = links[l].account
      BY <2>2, LinkedRow DEF Link, IInv
    <3>2. /\ links[l].agent = KmsKey <=> p = "aws_kms"
          /\ p = "privy" => links[l].agent.account = links[l].account
      BY <2>2 DEF AgentInv, LinksBy
    <3> QED
      BY <3>1, <3>2
  <2> QED
    BY <2>1, <2>2 DEF SaveRecipients
<1> QED
  BY <1>1, <1>3, <1>4 DEF AgentInv, OwnAgent

\* A request is signed for by the agent of a link that is for its account.
LEMMA ServeBy ==
    ASSUME IInv, NEW p \in {"privy", "aws_kms"}, AgentInv(p), Serve
    PROVE  AgentInv(p)'
PROOF
<1>1. PICK row : row = [requests[job.req] EXCEPT !.state = "served",
                                                 !.agent = links[job.login].agent]
  OBVIOUS
<1>2. /\ row.agent = links[job.login].agent
      /\ row.account = links[job.login].account
      /\ requests' = [requests EXCEPT ![job.req] = row]
      /\ job.login \in Login
      /\ Linked(job.login)
      /\ job.req \in Request
  BY <1>1, ServedRow
<1>3. row.agent = KmsKey \/ row.agent.account = row.account
  BY <1>2 DEF AgentInv, LinksBy
<1>4. OwnAgent'
  BY <1>2, <1>3 DEF OwnAgent, AgentInv, IInv, TypeOK
<1>5. UNCHANGED <<release, links, calls>>
  BY DEF Serve
<1> QED
  BY <1>4, <1>5 DEF AgentInv, LinksBy, CallsBy, CallBy, Kept, Linked

\* Steps that write no link and no agent.
LEMMA QuietBy ==
    ASSUME IInv, NEW p, AgentInv(p), UNCHANGED <<links, release>>,
           \A c \in Call : calls'[c] = calls[c] \/ calls'[c] = Done,
           \A r \in Request : requests'[r].state = "served" => requests'[r] = requests[r]
    PROVE  AgentInv(p)'
PROOF BY DEF AgentInv, LinksBy, CallsBy, CallBy, Kept, Linked, Done, OwnAgent

LEMMA AgentStep ==
    ASSUME IInv, NEW p \in {"privy", "aws_kms"}, AgentInv(p), [Next]_vars,
           release'.provider = p
    PROVE  AgentInv(p)'
PROOF
<1>1. ASSUME NEW o \in Owner, CreateAccount(o)
      PROVE  AgentInv(p)'
  BY <1>1, QuietBy DEF CreateAccount
<1>2. CASE Release
  <2>1. /\ UNCHANGED <<links, requests>>
        /\ calls' = [c \in Call |-> Done]
    BY <1>2 DEF Release
  <2> QED
    BY <2>1 DEF AgentInv, LinksBy, CallsBy, CallBy, Linked, Done, OwnAgent
<1>3. ASSUME NEW c \in Call, Setup(c)
      PROVE  AgentInv(p)'
  <2>1. CASE InsertKmsLink(c)
    BY <2>1, WriteBy DEF InsertKmsLink, AgentInv, IInv
  <2>2. CASE CallEnds(c)
    BY <2>2, QuietBy DEF CallEnds, IInv, TypeOK
  <2> QED
    BY <1>3, <2>1, <2>2, BeginBy, RebindBy, MoveLinkBy, ProvisionPrivyBy,
       SaveRecipientsBy DEF Setup
<1>4. ASSUME NEW r \in Request, NEW l \in Login, Enqueue(r, l)
      PROVE  AgentInv(p)'
  BY <1>4, QuietBy DEF Enqueue, IInv, TypeOK
<1>5. CASE Worker
  <2>1. ASSUME NEW r \in Request, Claim(r)
        PROVE  AgentInv(p)'
    BY <2>1, QuietBy DEF Claim
  <2>2. CASE Block
    <3> DEFINE row == [requests[job.req] EXCEPT !.state = "blocked"]
    <3>1. job.req \in Request /\ requests[job.req].state = "queued"
      BY <2>2 DEF Block, IInv, JobSound
    <3>2. row.state = "blocked"
      BY <3>1, PresentRequest DEF IInv
    <3>3. requests' = [requests EXCEPT ![job.req] = row]
      BY <2>2, <3>1 DEF Block, Blocked, IInv, TypeOK
    <3>4. UNCHANGED <<release, links, calls>>
      BY <2>2 DEF Block
    <3> HIDE DEF row
    <3> QED
      BY <3>1, <3>2, <3>3, <3>4, QuietBy DEF IInv, TypeOK
  <2> QED
    BY <1>5, <2>1, <2>2, ServeBy DEF Worker
<1>6. CASE UNCHANGED vars
  BY <1>6, QuietBy DEF vars
<1> QED
  BY <1>1, <1>2, <1>3, <1>4, <1>5, <1>6 DEF Next

\* As long as no release has changed the provider.
Steady ==
    \A p \in {"privy", "aws_kms"} :
        release.provider = p /\ ~ release.switched => AgentInv(p)

\* A change of the provider is remembered.
LEMMA ProviderStays ==
    ASSUME TypeOK, [Next]_vars, ~ release'.switched
    PROVE  ~ release.switched /\ release'.provider = release.provider
PROOF
<1>1. CASE Release
  <2>1. PICK f \in {0, 1}, v \in {0, 1}, p \in Providers :
            release' = [factory |-> release.factory + f,
                        revision |-> release.revision + v, provider |-> p,
                        switched |-> release.switched \/ p # release.provider]
    BY <1>1 DEF Release
  <2>2. /\ release'.provider = p
        /\ release'.switched = (release.switched \/ p # release.provider)
    BY <2>1
  <2> QED
    BY <2>2
<1>2. CASE UNCHANGED release
  BY <1>2
<1>3. ASSUME NEW c \in Call, Setup(c)
      PROVE  UNCHANGED release
  BY <1>3 DEF Setup, Begin, Rebind, MoveLink, InsertKmsLink, ProvisionPrivy, Writing,
     SaveRecipients, CallEnds
<1>4. CASE Worker
  BY <1>2, <1>4 DEF Worker, Claim, Serve, Block
<1> QED
  BY <1>1, <1>2, <1>3, <1>4 DEF Next, vars, CreateAccount, Enqueue

LEMMA SteadyStep == IInv /\ Steady /\ [Next]_vars => Steady'
PROOF
<1> SUFFICES ASSUME IInv, Steady, [Next]_vars,
                    NEW p \in {"privy", "aws_kms"},
                    release'.provider = p, ~ release'.switched
             PROVE  AgentInv(p)'
  BY DEF Steady
<1>1. ~ release.switched /\ release.provider = p
  BY ProviderStays DEF IInv
<1>2. AgentInv(p)
  BY <1>1 DEF Steady
<1> QED
  BY <1>2, AgentStep

-----------------------------------------------------------------------------
(***************************************************************************)
(* Theorems                                                                *)
(***************************************************************************)

\* The inductive invariant holds in every reachable state, whichever wallets are
\* linked to which logins.
THEOREM Invariance == Spec => []IInv
PROOF
<1>1. IInv /\ [Next]_vars => IInv'
  BY StepInv
<1> QED
  BY <1>1, InitInv, PTL DEF Spec

\* Links, calls, rows and the worker's copy stay well formed.
THEOREM TypeCorrect == Spec => []TypeOK
PROOF
<1>1. IInv => TypeOK
  BY DEF IInv
<1> QED
  BY <1>1, Invariance, PTL

\* Whatever setup calls race, fail half-way or meet a release, each link names one
\* wallet and a deployed account of it, and no wallet has two (setup/route.ts).
THEOREM LinksTrue == Spec => []LinksAgree
PROOF
<1>1. IInv => LinksAgree
  BY DEF IInv, LinkInv
<1> QED
  BY <1>1, Invariance, PTL

\* Requests change their login only along with its link, and are never left under a
\* login without one (setup/route.ts:131).
THEOREM RequestsMoveWithLinks == Spec => RequestsFollowTheirLink
PROOF
<1>1. IInv /\ [Next]_vars =>
          [\A r \in Request : requests[r].state # "absent" => FollowsItsLink(r)]_vars
  BY StepInv DEF RequestsStep
<1> QED
  BY <1>1, Invariance, PTL DEF Spec, RequestsFollowTheirLink

\* No step takes an owner's link away or points it at an older account, but the login
\* that holds it pointing it at another wallet of its own (setup/route.ts:159, 221).
THEOREM LinksLostByOwnLoginOnly == Spec => LinksSurvive
PROOF
<1>1. IInv /\ [Next]_vars =>
          [\A l \in Login :
              Linked(l) => OwnerStaysLinked(l) \/ PointedElsewhere(l)]_vars
  BY StepInv DEF LinksStep
<1> QED
  BY <1>1, Invariance, PTL DEF Spec, LinksSurvive

\* Until a release changes the signer provider, no request is signed for by an agent of
\* another account, however its link moves or is pointed elsewhere between the worker's
\* claim and its lookup of the signer (worker-entry.ts:98).
THEOREM RightSigner == Spec => []ServedByItsAgent
PROOF
<1>1. Init => Steady
  BY DEF Init, Steady, AgentInv, LinksBy, CallsBy, CallBy, Linked, Done, Unsent, OwnAgent
<1>2. IInv /\ Steady /\ [Next]_vars => Steady'
  BY SteadyStep
<1>3. IInv /\ Steady => ServedByItsAgent
  BY DEF IInv, TypeOK, Steady, AgentInv, OwnAgent, ServedByItsAgent
<1> QED
  BY <1>1, <1>2, <1>3, Invariance, PTL DEF Spec

=============================================================================
