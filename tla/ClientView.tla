------------------------------ MODULE ClientView ------------------------------
(***************************************************************************)
(* One browser showing the payments of one linked account                  *)
(* (web/src/components/GolApp.tsx, web/src/client/timeline.ts).            *)
(*                                                                         *)
(* A confirmed outcome is shown from the journal as an overlay until the   *)
(* index has it.  Polls, refreshes of the activity page, the restoring of  *)
(* stored overlays and reloads interleave at every await.  The journal is  *)
(* the abstract one of PaymentLifecycle, which PaymentWorker implements.   *)
(***************************************************************************)
EXTENDS PaymentLifecycle, ActivityIndex

CONSTANTS
    Elsewhere,     \* stands for requests of the account made on other devices
    NoRequest,     \* no stored request id
    Fetch,         \* activity requests that may be under way at once
    MaxElsewhere,  \* bound on the records of other devices
    MaxReloads     \* bound on page reloads

ASSUME ElsewhereAssumption == {Elsewhere, NoRequest} \cap Request = {}
ASSUME ReloadAssumption == MaxReloads \in Nat

VARIABLES
    key,        \* local storage: the request to recover, gol:pending:<account>
    refs,       \* local storage: the overlays to restore, gol:pending-activity:...
    overlay,    \* pendingRef: confirmed outcomes the page did not contain yet
    restoring,  \* the references the restore effect is asking the journal about
    page,       \* the records of the last page that was available
    fetched,    \* the answers to activity requests on their way to the browser
    polling,    \* the requests pollRequest is looping on
    posts,      \* how far the POST of each instruction has come
    reloads

storage == <<key, refs>>
clientVars == <<storage, overlay, restoring, page, fetched, polling, posts, reloads>>
vars == <<lifecycleVars, indexVars, clientVars>>

NoPage == {0}
NotRestoring == {NoRequest}

Init ==
    /\ LifecycleInit
    /\ IndexInit
    /\ key = NoRequest
    /\ refs = {}
    /\ overlay = {}
    /\ restoring = NotRestoring
    /\ page = {}
    /\ fetched = [f \in Fetch |-> NoPage]
    /\ polling = {}
    /\ posts = [r \in Request |-> "none"]
    /\ reloads = 0

-----------------------------------------------------------------------------
(* The rest of the world *)

\* POST /api/instructions reaches the server, perhaps after the tab gave up on it.
PostArrives(r) ==
    /\ posts[r] # "none"
    /\ Accept(r)
    /\ UNCHANGED <<indexVars, clientVars>>

\* The workers serve the request.
Served(r) ==
    /\ Park(r) \/ \E verdict \in Final : Settle(r, verdict)
    /\ UNCHANGED <<indexVars, clientVars>>

\* The contract records the request's attempt.
Recorded(r) ==
    /\ \E o \in Effect : TakeEffect(r, o)
    /\ chain' = Append(chain, r)
    /\ UNCHANGED <<indexed, answer, clientVars>>

RecordedElsewhere ==
    /\ Cardinality({n \in 1..Len(chain) : chain[n] = Elsewhere}) < MaxElsewhere
    /\ chain' = Append(chain, Elsewhere)
    /\ UNCHANGED <<lifecycleVars, indexed, answer, clientVars>>

Indexing == (Advance \/ Answering) /\ UNCHANGED <<lifecycleVars, clientVars>>

-----------------------------------------------------------------------------
(* Submitting and polling *)

\* onSubmitInstruction: the key is stored before the POST, over any older one.
Submit(r) ==
    /\ posts[r] = "none"
    /\ posts' = [posts EXCEPT ![r] = "waiting"]
    /\ key' = r
    /\ UNCHANGED <<lifecycleVars, indexVars, refs, overlay, restoring, page, fetched,
                   polling, reloads>>

PostAnswered(r) ==
    /\ posts[r] = "waiting"
    /\ told[r] # "absent"
    /\ posts' = [posts EXCEPT ![r] = "over"]
    /\ polling' = polling \cup {r}
    /\ UNCHANGED <<lifecycleVars, indexVars, storage, overlay, restoring, page,
                   fetched, reloads>>

\* Fault: a failed POST gives the request up.
PostFailsForgotten(r) ==
    /\ posts[r] = "waiting"
    /\ posts' = [posts EXCEPT ![r] = "over"]
    /\ key' = NoRequest
    /\ UNCHANGED <<lifecycleVars, indexVars, refs, overlay, restoring, page, fetched,
                   polling, reloads>>

\* An error, or no answer: the request may or may not be in the journal, so the key
\* stays.
PostFails(r) ==
    /\ posts[r] = "waiting"
    /\ posts' = [posts EXCEPT ![r] = "over"]
    /\ UNCHANGED <<lifecycleVars, indexVars, storage, overlay, restoring, page,
                   fetched, polling, reloads>>

\* isTerminalStage of stageFromJournal; a request the journal does not know is an
\* error and polled again.
Terminal(r) == told[r] \in Final \cup {"unknown"}

\* Fault: an unresolved request gets an overlay too.
ConfirmedOrUnknown(r) == told[r] \in {"executed", "refused", "unknown"}

\* pendingActivityFromSnapshot makes an overlay of these.
Confirmed(r) == told[r] \in {"executed", "refused"}

\* The poll ends: overlay, stored references and the recovery key follow at once.
\* Reading the snapshot and handling it are one step: what is final stays so, and an
\* unknown outcome only ends this poll.
\* The key is removed whichever request it names.
PollEnds(r) ==
    /\ r \in polling
    /\ Terminal(r)
    /\ polling' = polling \ {r}
    /\ key' = NoRequest
    /\ IF Confirmed(r)
       THEN overlay' = overlay \cup {r} /\ refs' = overlay'
       ELSE UNCHANGED <<overlay, refs>>
    /\ UNCHANGED <<lifecycleVars, indexVars, restoring, page, fetched, posts, reloads>>

-----------------------------------------------------------------------------
(* The activity page *)

\* refreshActivity's request is answered: after a poll, by the indexing window's
\* timer, at the start, or because the user checks again.
PageServed(f) ==
    /\ fetched[f] = NoPage
    /\ fetched' = [fetched EXCEPT ![f] = NewestPage]
    /\ UNCHANGED <<lifecycleVars, indexVars, storage, overlay, restoring, page,
                   polling, posts, reloads>>

RequestsIn(records) == {chain[n] : n \in records}

\* Fault: any answer ends the wait for the index.
DropAll(records) == {}

\* isIndexed: overlays whose record is in the page are dropped.
StillPending(records) == overlay \ RequestsIn(records)

\* The answer is handled, in whatever order the answers come.
PageShown(f) ==
    /\ fetched[f] # NoPage
    /\ page' = fetched[f]
    /\ overlay' = StillPending(fetched[f])
    /\ refs' = IF overlay' # overlay THEN overlay' ELSE refs
    /\ fetched' = [fetched EXCEPT ![f] = NoPage]
    /\ UNCHANGED <<lifecycleVars, indexVars, key, restoring, polling, posts,
                   reloads>>

\* The Graph or the connection fails: the last good page stays.
PageLost(f) ==
    /\ fetched[f] # NoPage
    /\ fetched' = [fetched EXCEPT ![f] = NoPage]
    /\ UNCHANGED <<lifecycleVars, indexVars, storage, overlay, restoring, page,
                   polling, posts, reloads>>

-----------------------------------------------------------------------------
(* Reloading *)

\* Fault: the recover effect polls whatever it finds stored.
RecoveredUnchecked == {key}

\* The recover effect polls the stored request, if there is one.
Recovered == {key} \ {NoRequest}

\* The tab starts again with what local storage holds; answers still on their way
\* are lost.  Restoring and recovering run side by side.
Reload ==
    /\ reloads < MaxReloads
    /\ reloads' = reloads + 1
    /\ overlay' = {}
    /\ page' = {}
    /\ fetched' = [f \in Fetch |-> NoPage]
    /\ restoring' = IF refs = {} THEN NotRestoring ELSE refs
    /\ polling' = Recovered
    /\ posts' = [r \in Request |-> IF posts[r] = "waiting" THEN "over" ELSE posts[r]]
    /\ UNCHANGED <<lifecycleVars, indexVars, storage>>

\* The references say which requests to ask about, the journal says what they are.
RestoredFrom(answered) == {r \in answered : Confirmed(r)}

\* The restore effect has its snapshots; those it could not load are dropped, and
\* what pollRequest added in the meantime is overwritten.
RestoreEnds ==
    /\ restoring # NotRestoring
    /\ \E answered \in SUBSET restoring : overlay' = RestoredFrom(answered)
    /\ restoring' = NotRestoring
    /\ UNCHANGED <<lifecycleVars, indexVars, storage, page, fetched, polling, posts,
                   reloads>>

-----------------------------------------------------------------------------
(* What the timeline lists *)

\* Fault: overlays are listed beside the page as they are.
OverlaysAsTheyAre == overlay

\* mergeTimeline: an overlay whose request is in the page is not listed.
ListedOverlays == overlay \ RequestsIn(page)

Entries(r) == {<<"indexed", n>> : n \in {m \in page : chain[m] = r}}
                 \cup {<<"pending", 0>> : q \in ListedOverlays \cap {r}}

-----------------------------------------------------------------------------
World ==
    \/ \E r \in Request : PostArrives(r) \/ Served(r) \/ Recorded(r)
    \/ RecordedElsewhere
    \/ Indexing

Browser ==
    \/ \E r \in Request : Submit(r) \/ PostAnswered(r) \/ PostFails(r)
                             \/ PollEnds(r)
    \/ \E f \in Fetch : PageServed(f) \/ PageShown(f) \/ PageLost(f)
    \/ Reload
    \/ RestoreEnds

Next == World \/ Browser

Spec == Init /\ [][Next]_vars

-----------------------------------------------------------------------------
(***************************************************************************)
(* Properties                                                              *)
(***************************************************************************)

Stored == Request \cup {NoRequest}

\* Every part of the view is well formed, and pages only hold indexed records.
TypeOK ==
    /\ told \in [Request -> Told]
    /\ effect \in [Request -> Effect]
    /\ chain \in Seq(Request \cup {Elsewhere})
    /\ indexed \in 0..Len(chain)
    /\ key \in Stored
    /\ refs \in SUBSET Request
    /\ overlay \in SUBSET Request
    /\ restoring \in SUBSET Stored
    /\ page \in SUBSET (1..indexed)
    /\ fetched \in [Fetch -> SUBSET (0..indexed)]
    /\ polling \in SUBSET Request
    /\ posts \in [Request -> {"none", "waiting", "over"}]
    /\ reloads \in 0..MaxReloads

\* Whatever is stored, restored, polled twice or shown late, the client never
\* claims an outcome that is not on the chain: its overlays are confirmed by
\* receipts (timeline.ts:4, "created from the transaction receipt"; timeline.ts:41,
\* storage "contains references only").
ClaimsAreTrue ==
    \A r \in overlay :
        /\ effect[r] \in EffectOf(told[r]) \ {"UNSEEN"}
        /\ r \in RequestsIn(1..Len(chain))

\* One business event is listed once (timeline.ts:77), also when the page that
\* has it arrives before the poll that makes its overlay.
ListedOnce == \A r \in Request : Cardinality(Entries(r)) <= 1

\* While the tab lives and nothing is being restored, an overlay goes only when
\* the index has its record: no failure and no late answer removes a confirmed
\* result (GolApp.tsx:401).
OverlayUntilIndexed ==
    [][reloads' = reloads /\ restoring' = restoring =>
          overlay \ overlay' \subseteq RequestsIn(1..indexed)]_vars

\* The only request submitted from this browser can be recovered as long as the
\* journal is still working on it, across failed posts, polls and reloads.
LoneRequestIsRecoverable ==
    \A r \in Request :
        /\ posts[r] # "none"
        /\ \A q \in Request \ {r} : posts[q] = "none"
        /\ told[r] \in {"absent", "working"}
        => key = r

\* ARCHITECTURE.md:89 and spec/pre-integration-demo-completion-spec.md:182 keep a
\* confirmed result in the timeline until the index has it.  Pages, though, are
\* handled in the order they arrive, not in the order they were read: an older
\* page that comes last takes the record away after its overlay went
\* (GolApp.tsx:389).
ConfirmedStaysListed ==
    [][reloads' = reloads /\ Len(chain) <= PageMax =>
          \A r \in Request : Confirmed(r) /\ Entries(r) # {} => Entries(r)' # {}]_vars

=============================================================================
