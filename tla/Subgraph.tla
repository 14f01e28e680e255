------------------------------- MODULE Subgraph -------------------------------
(***************************************************************************)
(* The subgraph's event handlers for one account (subgraph/src/account.ts) *)
(* over the contract's log: what is in the index after it has processed a  *)
(* prefix of the chain.                                                    *)
(*                                                                         *)
(* Entity ids are the mandate id, and transaction hash and log index, here *)
(* the event's place in the log.  A Mandate entity is reduced to what      *)
(* changes after creation.                                                 *)
(***************************************************************************)
EXTENDS GolAccount

\* No entity under this id.
Unindexed == [exists |-> FALSE, revoked |-> FALSE, spent |-> 0]

EmptyStore ==
    [mandate |-> [m \in MandateId |-> Unindexed],
     action |-> <<>>,      \* log index -> Action
     lifecycle |-> <<>>]   \* log index -> kind of LifecycleEvent

Save(entities, id, entity) ==
    [i \in DOMAIN entities \cup {id} |-> IF i = id THEN entity ELSE entities[i]]

\* A new Mandate entity takes the place of an older one with its id.
HandleMandateCreated(store, id, event) ==
    [store EXCEPT !.mandate[event.mandate] =
                      [exists |-> TRUE, revoked |-> FALSE, spent |-> 0],
                  !.lifecycle = Save(@, id, "MANDATE_CREATED")]

HandleMandateRevoked(store, id, event) ==
    [store EXCEPT !.mandate[event.mandate].revoked =
                      @ \/ store.mandate[event.mandate].exists,
                  !.lifecycle = Save(@, id, "MANDATE_REVOKED")]

HandleWithdrawn(store, id, event) ==
    [store EXCEPT !.lifecycle = Save(@, id, "FUNDS_WITHDRAWN")]

ActionOf(event) ==
    [mandate |-> event.mandate, request |-> event.request, record |-> event.record,
     transferred |-> IF event.kind = "Executed" THEN event.record.attempted ELSE 0]

\* Fault: the headroom of the event is taken for the new total.
HandleExecutedHeadroom(store, id, event) ==
    [store EXCEPT !.action = Save(@, id, ActionOf(event)),
                  !.mandate[event.mandate].spent = event.record.headroom]

\* The mandate's running total is taken over from the event, not added up.
HandleExecuted(store, id, event) ==
    IF id \in DOMAIN store.action THEN store
    ELSE [store EXCEPT !.action = Save(@, id, ActionOf(event)),
                       !.mandate[event.mandate].spent =
                           IF store.mandate[event.mandate].exists
                           THEN event.record.spentAfter ELSE @]

HandleRefused(store, id, event) ==
    IF id \in DOMAIN store.action THEN store
    ELSE [store EXCEPT !.action = Save(@, id, ActionOf(event))]

Handle(store, id, event) ==
    CASE event.kind = "MandateCreated" -> HandleMandateCreated(store, id, event)
      [] event.kind = "MandateRevoked" -> HandleMandateRevoked(store, id, event)
      [] event.kind = "Withdrawn"      -> HandleWithdrawn(store, id, event)
      [] event.kind = "Executed"       -> HandleExecuted(store, id, event)
      [] event.kind = "Refused"        -> HandleRefused(store, id, event)

\* The index after all the events of a chain, handled in order.
Index(events) ==
    LET through[n \in 0..Len(events)] ==
            IF n = 0 THEN EmptyStore ELSE Handle(through[n - 1], n, events[n])
    IN  through[Len(events)]

=============================================================================
